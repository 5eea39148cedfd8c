\* Several clients: no task is monitored.
SPECIFICATION FairSpec
CONSTANTS
    Monitor = FALSE
    MaxSessions = 3
    Clicks = TRUE
    Faults = {}
INVARIANTS
    ReadyMeansIdle
    HeldAlive
    ButtonsMatchSession
    DisconnectStopsTunnel
PROPERTIES
    TunnelOutlivesThread
    ControlsReturn
