SPECIFICATION FairSpec
CONSTANTS
    Requests = {r1, r2, r3}
    k1 = k1
    pump = pump
    None = None
    Keys = {k1}
    Assets = {pump}
    Payloads <- KeyedAndPlain
    RuleSet <- OneRule
    SeedAssets = {}
    SeedRules = {}
    Backend = "postgres"
    WaitAttempts = 1
    MaxQueueBacklog = 1
    MaxClock = 0
    MaxCrashes = 1
CHECK_DEADLOCK FALSE
INVARIANT WaitersFindResult
PROPERTIES
    ReplayConsistent
    ImplementsIngest
    AcceptedRequestsFinish
