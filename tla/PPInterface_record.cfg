\* A record longer than the buffer of recv().
SPECIFICATION FairSpec
CONSTANTS
    Capacity = 3
    HeaderSize = 1
    MaxFrame = 2
    RecvBuf = 2
    MaxRecord = 3
    Mtu = 1
    MaxFrames = 1
    MaxStream = 4
    Null = Null
PROPERTIES
    FramesArrive
CHECK_DEADLOCK FALSE
