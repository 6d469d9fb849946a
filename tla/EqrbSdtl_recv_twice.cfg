\* A sends one message and retransmits it once; B calls recv three times.
CONSTANTS
    FifoSize = 2
    MaxOps = 4
    MaxAMsgs = 1
    MaxACmds = 0
    MaxARetries = 1
    MaxLoss = 0
    AnswerCodes = {"GOT_PKT"}
    OpenResults = {TRUE}
SPECIFICATION FairSpec
INVARIANT EqrbRecvOnce
CHECK_DEADLOCK FALSE
