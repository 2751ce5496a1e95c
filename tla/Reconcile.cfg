SPECIFICATION Spec
CONSTANTS
    m1 = m1 u = u e = e
    Masters = {m1}
    Clients = {u, e}
    Ui = {u}
    Terminal = Terminal
    NoMaster = NoMaster NoClient = NoClient
    MaxRounds = 2
    MaxUpsets = 1
INVARIANT TypeOK
PROPERTY AllIsFound
PROPERTY SettledStaysSettled
CHECK_DEADLOCK FALSE
