SPECIFICATION Spec
CONSTANTS
    q1 = q1
    q2 = q2
    q3 = q3
    k1 = k1
    k2 = k2
    s1 = s1
    s2 = s2
    Requests <- MCRequests
    Operations <- MCOperations
    Keys <- MCKeys
    Slots <- MCSlots
    SeedKeys <- MCSeedKeys
    SeedRules <- MCSeedRules
    SeedOptions <- MCSeedOptions
INVARIANT TypeOK
INVARIANT UsedKeysExist
PROPERTY ResetDiscards
PROPERTY NoLostUpdate
CHECK_DEADLOCK FALSE
