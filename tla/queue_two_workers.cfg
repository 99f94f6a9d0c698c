SPECIFICATION FairSpec
CONSTANTS
    Workers = {w1, w2}
    Modes = {"transient_then_success"}
    Backends = {"sqlite", "postgres"}
    MaxAttempts = 2
    RetryDelay = 0
    LeaseSeconds = 1
    BatchLimit = 2
    StaleAfter = 0
    MaxQueueBacklog = 2
    Timely = {TRUE, FALSE}
    MaxArrivals = 1
    MaxSweeps = 1
    MaxResets = 1
    MaxClock = 0
    MaxFailures = 1
    None = None
CHECK_DEADLOCK FALSE
INVARIANT TypeOK
PROPERTY EverySettles
