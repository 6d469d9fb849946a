\* B never arms the RX timeout and its buffer holds every message, so no
\* receive call ends in the middle of a sequence: every send_data call
\* must return.
CONSTANTS
    MsgLens <- MC_MsgLens
    MaxPayload <- MC_MaxPayload
    RecvBufSizes = {2}
    RecvArming = {FALSE}
    ClockOffsets = {0}
    FifoSize = 8
    MaxSends = 3
    MaxRecvs = 3
    MaxLoss = 2
    MaxEarlyTimeouts = 0
SPECIFICATION FairSpec

PROPERTY SendReturns
PROPERTY ChannelSpec
CHECK_DEADLOCK FALSE
