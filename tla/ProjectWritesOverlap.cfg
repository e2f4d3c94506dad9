SPECIFICATION Spec
CONSTANTS
    r1 = r1
    r2 = r2
    r3 = r3
    c0 = c0
    c1 = c1
    k1 = k1
    k2 = k2
    NoKey = NoKey
    Nobody = Nobody
    Saved <- OneSaved
    Request = {r1}
    Key = {k1}
    Body <- LifetimeBodies
    Ttl = 1
    Day = 1
    RetentionDays = {2, 3}
    RetentionInterval = 1
    Task = {"lead-retention", "idempotency-keys-cleanup"}
    MaxRuns = 2
    TxTimeout = 1
    MaxTime = 3
INVARIANT LiveKeyResolves
CHECK_DEADLOCK FALSE
