SPECIFICATION FairSpec
CONSTANTS
    s1 = s1
    s2 = s2
    c1 = c1
    c2 = c2
    Sessions <- MCSessions
    Checks <- MCChecks
    Traffic <- MCTraffic
    Timeouts = {1}
    Backend = "postgres"
    MaxClock = 2
    MaxAborts = 1
    MaxResets = 1
    None = None
CHECK_DEADLOCK FALSE
INVARIANTS
    TypeOK
    DeadlineOnlyWhileWaiting
    AuditTellsPhases
    TrailShowsPath
PROPERTIES
    WaitsEnd
