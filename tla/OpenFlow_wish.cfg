SPECIFICATION Spec
CONSTANTS
    m1 = m1 m2 = m2 m3 = m3 u = u e = e
    Masters = {m1}
    Clients = {e}
    Ui = {}
    Policies = {}
    MaxOpenPairs = 1
    MaxLen = 1
    MaxRetry = 1
    Match = "STRICT"
    MaxUpsets = 1
INVARIANT WishIsKept
CHECK_DEADLOCK FALSE
