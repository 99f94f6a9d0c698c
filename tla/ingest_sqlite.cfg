SPECIFICATION Spec
CONSTANTS
    Requests = {r1, r2, r3}
    k1 = k1
    pump = pump
    None = None
    Keys = {k1}
    Assets = {pump}
    Payloads <- KeyedAndPlain
    RuleSet <- TwoRules
    SeedAssets = {pump}
    SeedRules <- OneRule
    Backend = "sqlite"
    WaitAttempts = 1
    MaxQueueBacklog = 1
    MaxClock = 2
    MaxCrashes = 1
SYMMETRY RequestSymmetry
CHECK_DEADLOCK FALSE
INVARIANTS
    TypeOK
    ExactlyOncePerKey
    HitsMatchReplays
    CooldownRespected
    BacklogBounded
PROPERTY ReplayConsistent
