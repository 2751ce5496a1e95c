SPECIFICATION FairSpec
CONSTANTS
    m1 = m1 m2 = m2 m3 = m3 u = u e = e
    Masters = {m1}
    Clients = {u, e}
    Ui = {u}
    Policies = {u, e}
    MaxOpenPairs = 1
    MaxLen = 1
    MaxRetry = 1
    Match = "STRICT"
    MaxUpsets = 1
INVARIANT CopyAccounted
PROPERTY PendingIsTold
CHECK_DEADLOCK FALSE
