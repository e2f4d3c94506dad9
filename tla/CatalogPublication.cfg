SPECIFICATION Spec
CONSTANTS
    q1 = q1
    q2 = q2
    Requests <- MCRequests
    Operations <- MCOperations
    Seed <- MCSeed
    Seeding <- MCSeeding
INVARIANT TypeOK
INVARIANT PublishedComplete
INVARIANT VisitorsCanFollow
PROPERTY RulesKept
PROPERTY NoLostUpdate
CHECK_DEADLOCK FALSE
