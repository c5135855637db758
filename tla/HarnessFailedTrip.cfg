SPECIFICATION Spec
CONSTANTS
    Slots = {s1, s2}
    NoSlot = NoSlot
    Requests = {r1}
    NoRequest = NoRequest
    MaxContinuations = 2
    MaxTokens = 1
    TokenSteps = {0}
    Iterations = 3
    Faults = {"trip_write"}
PROPERTY FailedTripKeepsMetrics
