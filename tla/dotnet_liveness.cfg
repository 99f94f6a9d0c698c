SPECIFICATION FairSpec
CONSTANTS
    Requests = {r1, r2}
    Payloads <- Outages
    Worker = worker
    Callers = {caller}
    Cooldown = 0
    RetryDelay = 0
    MaxAttempts = 2
    BatchLimit = 1
    CallLimit = 2
    MaxClock = 0
    MaxRestarts = 1
    MaxResets = 0
    None = None
CHECK_DEADLOCK FALSE
PROPERTIES
    PersistedActionSettles
