\* The user clicks Disconnect while the end of the application is noticed.
SPECIFICATION Spec
CONSTANTS
    Monitor = TRUE
    MaxSessions = 1
    Clicks = TRUE
    Faults = {}
INVARIANTS
    NoMutualWait
