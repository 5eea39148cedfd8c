\* Both queues of a forwarder: PortForwarder::recv -> tcp_write, and
\* tcp_recv_cb -> send_data on the local socket.
SPECIFICATION FairSpec
CONSTANTS
    Capacity = 4
    MaxRead = 3
    MaxPbuf = 3
    MaxStream = 8
    SndBuf = 3
INVARIANTS
    TypeOK
    BytesInOrder
    TotLenExact
    RecvAlwaysFits
    OverrunBounded
    RetrySameBlock
PROPERTIES
    RefusedEventuallyQueued
