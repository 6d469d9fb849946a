\* One command while B enters and leaves recv_data: either thread's write
\* of the state topic can undo the other's.
CONSTANTS
    CmdCodes = {"RESET"}
    ClockOffsets = {0}
    FifoSize = 8
    MaxCmds = 1
    MaxRecvs = 1
    MaxSendsB = 0
    MaxResets = 0
    MaxLoss = 0
    MaxEarlyTimeouts = 0
SPECIFICATION FairSpec
INVARIANT StateTopicKept
CHECK_DEADLOCK FALSE
