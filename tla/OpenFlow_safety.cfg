SPECIFICATION Spec
CONSTANTS
    m1 = m1 m2 = m2 m3 = m3 u = u e = e
    Masters = {m1, m2, m3}
    Clients = {u}
    Ui = {u}
    Policies = {}
    MaxOpenPairs = 2
    MaxLen = 1
    MaxRetry = 0
    Match = "HEURISTIC"
    MaxUpsets = 1
SYMMETRY MCSymmetry
INVARIANT TypeOK
INVARIANT CopyAccounted
INVARIANT PairsWithinLimit
PROPERTY BoundToOwn
PROPERTY FifoPerClient
CHECK_DEADLOCK FALSE
