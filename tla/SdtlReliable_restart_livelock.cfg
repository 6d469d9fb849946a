\* B arms its RX timeout before every call; a two-fragment message.
CONSTANTS
    MsgLens = {2}
    MaxPayload = 1
    RecvBufSizes = {2}
    RecvArming = {TRUE}
    ClockOffsets = {0}
    FifoSize = 8
    MaxSends = 2
    MaxRecvs = 3
    MaxLoss = 0
    MaxEarlyTimeouts = 0
SPECIFICATION FairSpec
PROPERTY SendReturns
CHECK_DEADLOCK FALSE
