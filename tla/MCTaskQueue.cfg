CONSTANTS
    Names = {n1}
    Delays = {0, 1, 3}
    MaxTime = 4
    MaxTasks = 3
SPECIFICATION FairSpec
INVARIANTS
    NoLostWakeup
PROPERTIES
    ImplementsDelayQueue
    EventuallyDispatched
    StopCompletes
