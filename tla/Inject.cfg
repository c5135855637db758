SPECIFICATION FairSpec
CONSTANTS
    Items = {a, b}
    Held = {a}
    Pods = {p}
    Handlers = {h1, h2}
    Limit = 1
    Faults = {"kill", "db", "lost", "timeout", "llm", "crash"}
INVARIANT AppliedAtMostOnce
PROPERTIES
    PendingDrains
    ReceivedIsAcked
