SPECIFICATION Spec
CONSTANTS
    Digits = 6
    NoLimit = NoLimit
    Cases <- MCCases
    Accounts <- MCAccounts
INVARIANT TypeOK
INVARIANT OrderIsAllowed
INVARIANT OpenIsNominal
INVARIANT NeverOverClosed
CHECK_DEADLOCK FALSE
