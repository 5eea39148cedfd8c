\* Two frames, cut in records longer than the buffer of recv().
SPECIFICATION FairSpec
CONSTANTS
    Capacity = 3
    HeaderSize = 2
    MaxFrame = 2
    RecvBuf = 2
    MaxRecord = 3
    Mtu = 1
    MaxFrames = 2
    MaxStream = 6
    Null = Null
INVARIANTS
    TypeOK
    PayloadOwnedOnce
    ParserInStep
    NeverLeaked
PROPERTIES
    FrameStream
    FramesRead
    SilenceEnds
\* A link that has been released stays so.
CHECK_DEADLOCK FALSE
