\* One ACK may be lost; single-fragment messages; B never arms a timeout.
CONSTANTS
    MsgLens = {1}
    MaxPayload = 1
    RecvBufSizes = {1}
    RecvArming = {FALSE}
    ClockOffsets = {0}
    FifoSize = 8
    MaxSends = 2
    MaxRecvs = 2
    MaxLoss = 1
    MaxEarlyTimeouts = 0
SPECIFICATION FairSpec
INVARIANT AtMostOnce
CHECK_DEADLOCK FALSE
