SPECIFICATION Spec
CONSTANTS
    r1 = r1
    r2 = r2
    r3 = r3
    c0 = c0
    c1 = c1
    k1 = k1
    k2 = k2
    NoKey = NoKey
    Nobody = Nobody
    Saved <- OneSaved
    Request <- ThreeRequests
    Key = {k1, k2}
    Body <- RaceBodies
    Ttl = 1
    Day = 1
    RetentionDays = {2}
    RetentionInterval = 1
    Task = {}
    MaxRuns = 1
    TxTimeout = 1
    MaxTime = 2
SYMMETRY RequestKeySymmetry
INVARIANTS OneEffectPerKey VersionsContiguous RepeatsAgree
PROPERTY StoreSpec
CHECK_DEADLOCK FALSE
