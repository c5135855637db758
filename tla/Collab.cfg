SPECIFICATION Spec
CONSTANTS
    Seats = {1, 2}
    InstanceSeats = {2}
    Cells = {0, 1}
    Requests = {r1, r2}
    Participants = {p1, p2}
    MeetingRequests = {q1, q2}
    Schedules = {s1, s2}
    Workers = {w1, w2}
    MaxDue = 2
INVARIANTS SeatsAccounted NoDanglingPassage DeadlockNeedsCascade FiredOncePerDueTime
PROPERTIES ReopenedOnlyByRace DueFires
CHECK_DEADLOCK FALSE
