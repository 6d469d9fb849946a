\* Two commands under a lossy medium, B receiving, sending and resetting,
\* with one-entry FIFOs: GOT_CMD answers and out-of-band entries overrun
\* every FIFO reader, and one ACK timer of send_cmd expires early.
CONSTANTS
    CmdCodes = {"RESET", "CANCEL"}
    ClockOffsets = {0}
    FifoSize = 1
    MaxCmds = 2
    MaxRecvs = 1
    MaxSendsB = 1
    MaxResets = 1
    MaxLoss = 1
    MaxEarlyTimeouts = 1
SPECIFICATION FairSpec
INVARIANT TypeOK
PROPERTY CmdReturns
PROPERTY RecvCancelled
PROPERTY SendCancelled
CHECK_DEADLOCK FALSE
