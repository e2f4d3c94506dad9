SPECIFICATION Spec
CONSTANTS
    Trees <- AllTrees
    Scale = 1000
    MaxNumber = 2000000
    MaxDepth = 4
    MaxNodes = 14
    MaxLineCents = 40000
    CacheLimit = 1
    MaxVersions = 2
    MaxChanges = 2
    Datasets <- DatasetNames
    Dataset <- TheDataset
    Configurations <- AllConfigurations
    Home = "plain"
    FollowedRules <- SomeRules
    Lasting <- LastingConfigurations
    RuleInputs <- AllRules
    Patches <- AllPatches
CHECK_DEADLOCK FALSE
INVARIANT TypeOK
INVARIANT AcceptedRulesEvaluate
INVARIANT AcceptedRulesParse
INVARIANT PreparationOnce
INVARIANT TotalsAddUp
INVARIANT PreviewAgrees
INVARIANT SelectionsKept
INVARIANT PriceStatusTruthful
