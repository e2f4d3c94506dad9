SPECIFICATION Spec
CONSTANTS
    q1 = q1
    q2 = q2
    Requests <- MCRequests
    Operations <- MCOperations
    Seed <- MCSeed
    Seeding <- MCSeeding
CHECK_DEADLOCK FALSE
INVARIANT TranslationsPublished
