SPECIFICATION FairSpec
CONSTANTS
    p1 = p1
    Intents = {p1}
    NoCommand = NoCommand
    MaxRetry = 2
    Kind = "EA"
    MaxBreaks = 1
    MaxAgentCrashes = 1
    MaxBridgeCrashes = 0
INVARIANT CancelledNeverRan
PROPERTY EventuallySettled
CHECK_DEADLOCK FALSE
