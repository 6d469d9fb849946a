\* Core run: lossy medium, B may arm its RX timeout and may pass a buffer
\* shorter than the message; one- and two-fragment messages.
CONSTANTS
    MsgLens <- MC_MsgLens
    MaxPayload <- MC_MaxPayload
    RecvBufSizes <- MC_RecvBufSizes
    RecvArming = {TRUE, FALSE}
    ClockOffsets = {0}
    FifoSize = 8
    MaxSends = 3
    MaxRecvs = 3
    MaxLoss = 2
    MaxEarlyTimeouts = 0
SPECIFICATION FairSpec
INVARIANT DeliveredIntact
INVARIANT AckedImpliesCopied
PROPERTY ChannelSafe
CHECK_DEADLOCK FALSE
