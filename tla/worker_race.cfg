SPECIFICATION Spec
CONSTANTS
    Workers = {w1, w2}
    Modes = {"success", "transient_then_success", "permanent_failure"}
    Backends = {"sqlite"}
    MaxAttempts = 3
    RetryDelay = 1
    LeaseSeconds = 1
    BatchLimit = 2
    StaleAfter = 1
    MaxQueueBacklog = 2
    Timely = {TRUE}
    MaxArrivals = 1
    MaxSweeps = 0
    MaxResets = 0
    MaxClock = 3
    MaxFailures = 0
    None = None
CHECK_DEADLOCK FALSE
PROPERTY SettledIsFinal
