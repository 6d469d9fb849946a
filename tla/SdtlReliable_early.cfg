\* The ACK timer may expire while the answer is still on its way, and the
\* FIFOs hold one entry, so retransmissions pile up and both FIFO readers
\* are overrun.
CONSTANTS
    MsgLens <- MC_MsgLens
    MaxPayload <- MC_MaxPayload
    RecvBufSizes = {2}
    RecvArming = {FALSE}
    ClockOffsets = {0}
    FifoSize = 1
    MaxSends = 2
    MaxRecvs = 2
    MaxLoss = 1
    MaxEarlyTimeouts = 2
SPECIFICATION FairSpec
INVARIANT TypeOK
INVARIANT PiecesInPlace
CHECK_DEADLOCK FALSE
