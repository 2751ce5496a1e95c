SPECIFICATION Spec
CONSTANTS
    MaxDeals = 3
    MaxBreaks = 1
    MaxEaCrashes = 2
    MaxBridgeCrashes = 1
    MaxRestores = 1
    CrashMidWrite = FALSE
    CrashMidHandler = FALSE
CHECK_DEADLOCK FALSE
INVARIANT TypeOK
INVARIANT NoSilentLoss
INVARIANT RecordedOnce
INVARIANT LastSeqAccounted
INVARIANT OwedIsKept
