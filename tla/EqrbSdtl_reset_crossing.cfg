\* A resets B while B's application resets A, then B resumes sending.
CONSTANTS
    FifoSize = 2
    MaxOps = 4
    MaxAMsgs = 0
    MaxACmds = 1
    MaxARetries = 0
    MaxLoss = 0
    AnswerCodes = {"GOT_PKT"}
    OpenResults = {TRUE}
SPECIFICATION FairSpec
INVARIANT EqrbSendAcked
CHECK_DEADLOCK FALSE
