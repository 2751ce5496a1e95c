SPECIFICATION Spec
CONSTANTS
    p1 = p1
    p2 = p2
    Intents = {p1,p2}
    NoCommand = NoCommand
    MaxRetry = 1
    Kind = "CLICKER"
    MaxBreaks = 1
    MaxAgentCrashes = 1
    MaxBridgeCrashes = 1
SYMMETRY Symmetry
PROPERTY PromiseKept
CHECK_DEADLOCK FALSE
