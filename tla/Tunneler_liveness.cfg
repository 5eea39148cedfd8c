\* One forwarder and one control block, which a DNS failure uses up.
SPECIFICATION FairSpec
CONSTANTS
    Slot = {f1}
    Pcb = {p1}
    QCap = 1
    SndBuf = 1
    MaxClients = 1
    Faults = {"tcp_new", "socket", "tunnel", "rst", "ppp"}
    NoPcb = NoPcb
    NoOne = NoOne
    Gone = Gone
PROPERTIES
    ConnectingEnds
    ForwardFlushEnds
    DisconnectingStops
