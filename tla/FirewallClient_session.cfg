\* Two certificates; a connection may serve one request or two, and may idle
\* for one tick or not at all; bodies up to one block too long.
SPECIFICATION FairSpec
CONSTANTS
    Crts = {c1, c2}
    NoCrt = NoCrt
    Timeouts = {0, 1}
    Maxes = {1, 2}
    DefaultTimeout = 1
    DefaultMax = 2
    MaxBody = 2
    MaxBlocks = 3
INVARIANTS
    AnswerMatches
    ConfirmedPeer
    ConnectOnClosed
    NoCookieLeft
PROPERTIES
    RequestEnds
