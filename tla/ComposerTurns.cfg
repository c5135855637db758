SPECIFICATION FairSpec
CONSTANTS
    t1 = t1
    t2 = t2
    Turns <- MCTurns
    Sockets = {s1, s2}
    Readers = {r1, r2}
    Watches <- MCWatches
    Tokens <- MCTokens
    MaxFaults = 1
INVARIANTS TurnsConsistent NoFrameLost
PROPERTIES RegistrationKept TurnEnds
CHECK_DEADLOCK FALSE
