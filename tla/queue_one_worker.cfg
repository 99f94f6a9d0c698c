SPECIFICATION Spec
CONSTANTS
    Workers = {w1}
    Modes = {"success", "transient_then_success", "permanent_failure"}
    Backends = {"postgres"}
    MaxAttempts = 3
    RetryDelay = 1
    LeaseSeconds = 1
    BatchLimit = 2
    StaleAfter = 1
    MaxQueueBacklog = 2
    Timely = {TRUE, FALSE}
    MaxArrivals = 2
    MaxSweeps = 1
    MaxResets = 1
    MaxClock = 2
    MaxFailures = 1
    None = None
CHECK_DEADLOCK FALSE
INVARIANTS
    NoCommittedLease
    CallsAccounted
    SettledAsDriven
    MetricsAccount
PROPERTIES
    SettledIsFinal
    CalledOnlyWhenDue
