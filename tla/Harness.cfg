SPECIFICATION MCSpec
CONSTANTS
    Slots = {s1, s2}
    NoSlot = NoSlot
    Requests = {r1}
    NoRequest = NoRequest
    MaxContinuations = 2
    MaxTokens = 1
    TokenSteps = {0, 1}
    Iterations = 6
    Faults = {"boot", "loop", "config", "trip_write", "trip_commit", "idle", "request", "crash"}
INVARIANTS
    AtMostOneLoop
    OneLateCheckpoint
    BudgetRespectedWhenIntact
PROPERTIES
    StopHonoured
    OrphanMetricsReaped
