SPECIFICATION Spec
CONSTANTS
    c1 = c1
    c2 = c2
    M = M
    None = None
    Clients = {c1,c2}
    Master = M
    UiClients = {c2}
    MasterUi = TRUE
    MayCloseMaster = {c2}
    Fallback = "SKIP"
    Lots = 2
    MaxHand = 1
    MaxFaults = 1
    MaxUpsets = 2
INVARIANT TypeOK
INVARIANT OneCloseInFlight
INVARIANT ClosedIsFlat
INVARIANT NoFalseCascade
INVARIANT CascadeWaitsForMaster
INVARIANT NoSilentNakedLeg
PROPERTY ClosedForCause
CHECK_DEADLOCK FALSE
