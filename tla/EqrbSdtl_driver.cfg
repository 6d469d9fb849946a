\* A sends two messages and one RESET with retries; B makes six driver
\* calls; one frame may be lost.
CONSTANTS
    FifoSize = 1
    MaxOps = 4
    MaxAMsgs = 1
    MaxACmds = 1
    MaxARetries = 1
    MaxLoss = 1
    AnswerCodes = {"GOT_PKT", "CANCELED", "NO_RECEIVER"}
    OpenResults = {TRUE, FALSE}
SPECIFICATION FairSpec
INVARIANT TypeOK
PROPERTY EqrbCallsReturn
CHECK_DEADLOCK FALSE
