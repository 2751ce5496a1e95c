SPECIFICATION FairSpec
CONSTANTS
    MaxDeals = 4
    MaxBreaks = 1
    MaxEaCrashes = 1
    MaxBridgeCrashes = 1
    MaxRestores = 0
    CrashMidWrite = FALSE
    CrashMidHandler = FALSE
CHECK_DEADLOCK FALSE
PROPERTY EventuallyAccounted
