SPECIFICATION Spec
CONSTANTS
    Requests = {r1, r2}
    Payloads <- MixedBodies
    Worker = worker
    Callers = {}
    Cooldown = 1
    RetryDelay = 1
    MaxAttempts = 2
    BatchLimit = 1
    CallLimit = 2
    MaxClock = 2
    MaxRestarts = 1
    MaxResets = 1
    None = None
CHECK_DEADLOCK FALSE
SYMMETRY RequestSymmetry
INVARIANTS
    TypeOK
    CooldownPerCategory
    AttemptsAudited
PROPERTIES
    SettledIsFinal
