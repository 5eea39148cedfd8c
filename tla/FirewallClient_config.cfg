\* The portal answers, but not with a configuration.
SPECIFICATION Spec
CONSTANTS
    Crts = {c1}
    NoCrt = NoCrt
    Timeouts = {1}
    Maxes = {9}
    DefaultTimeout = 1
    DefaultMax = 9
    MaxBody = 1
    MaxBlocks = 1
INVARIANTS
    SessionConfigured
