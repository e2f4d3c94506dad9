SPECIFICATION FairSpec
CONSTANTS
    Instance = {i1, i2}
    Nothing = Nothing
    Period = 8
    LockTimeout = 4
    Retry = 5
    TxTimeout = 2
    Lag = 1
INVARIANTS TypeOK OwnLock ResetsExclude OncePerDay
PROPERTY DueResets
CHECK_DEADLOCK FALSE
