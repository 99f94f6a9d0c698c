SPECIFICATION Spec
CONSTANTS
    Requests = {r1, r2, r3}
    k1 = k1
    pump = pump
    None = None
    Keys = {k1}
    Assets = {pump}
    Payloads <- Keyed
    RuleSet <- TwoRules
    SeedAssets = {}
    SeedRules = {}
    Backend = "sqlite"
    WaitAttempts = 1
    MaxQueueBacklog = 1
    MaxClock = 2
    MaxCrashes = 1
CHECK_DEADLOCK FALSE
INVARIANT ClaimHasOwner
