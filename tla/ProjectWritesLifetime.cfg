SPECIFICATION Spec
CONSTANTS
    r1 = r1
    r2 = r2
    r3 = r3
    c0 = c0
    c1 = c1
    k1 = k1
    k2 = k2
    NoKey = NoKey
    Nobody = Nobody
    Saved <- OneSaved
    Request <- TwoRequests
    Key = {k1}
    Body <- LeadBodies
    Ttl = 1
    Day = 1
    RetentionDays = {2, 3}
    RetentionInterval = 1
    Task = {"lead-retention", "idempotency-keys-cleanup"}
    MaxRuns = 1
    TxTimeout = 1
    MaxTime = 3
INVARIANTS TypeOK RepeatsSucceed
SYMMETRY RequestSymmetry
CHECK_DEADLOCK FALSE
