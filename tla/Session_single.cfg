\* One client: the end of the application, and nothing else, ends a session.
SPECIFICATION FairSpec
CONSTANTS
    Monitor = TRUE
    MaxSessions = 3
    Clicks = FALSE
    Faults = {"task_start"}
INVARIANTS
    NoMutualWait
    EndsOnRequest
PROPERTIES
    TaskEndsOwnSession
    TaskEndDisconnects
