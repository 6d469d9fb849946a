CONSTANTS
    MsgLens = {2}
    MaxPayload = 1
    RecvBufSizes = {4}
    FifoSize = 8
    MaxSends = 2
    MaxRecvs = 1
    MaxLoss = 1
    MaxSeqGarbage = 0

SPECIFICATION Spec

INVARIANT UnrelIntact

CHECK_DEADLOCK FALSE
