\* Two forwarder objects for one allowed client, three control blocks,
\* every fault.
SPECIFICATION Spec
CONSTANTS
    Slot = {f1, f2}
    Pcb = {p1, p2, p3}
    QCap = 1
    SndBuf = 1
    MaxClients = 1
    Faults = {"dns", "tcp_new", "tcp_connect", "socket", "tcp_write", "rst", "tunnel", "select", "ppp", "start"}
    NoPcb = NoPcb
    NoOne = NoOne
    Gone = Gone
SYMMETRY Symmetry
INVARIANTS
    TypeOK
    ClientAlive
    CallbacksReachOwner
    OneSideLeft
    TimerMatchesState
PROPERTIES
    ImplementsPool
