\* One client, a user who clicks, and everything that may go wrong.
SPECIFICATION Spec
CONSTANTS
    Monitor = TRUE
    MaxSessions = 3
    Clicks = TRUE
    Faults = {"close", "task_start", "stuck", "expire", "exception"}
INVARIANTS
    TypeOK
    DialogHasCaller
\* The two threads may block each other for ever: see Session_deadlock.cfg.
CHECK_DEADLOCK FALSE
