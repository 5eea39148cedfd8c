\* No fault at all: the last bytes are acknowledged after the forwarder is gone.
SPECIFICATION Spec
CONSTANTS
    Slot = {f1}
    Pcb = {p1, p2}
    QCap = 1
    SndBuf = 1
    MaxClients = 1
    Faults = {}
    NoPcb = NoPcb
    NoOne = NoOne
    Gone = Gone
INVARIANTS
    NoCallbackToDeleted
