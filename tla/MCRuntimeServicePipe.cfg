\* Every part ends with its bound: states may be final.
SPECIFICATION RuntimeSpec
CONSTANTS
    Requests = {r1, r2}
    MaxTokens = 2
    MaxFaults = 2
    Readers = {q1, q2}
    Versions <- MCVersions
    ComboLimit = 2
    TTL = 2
    Timeout = 1
    MaxClock = 4
    MaxStarts = 5
    Panel = {1, 2, 3}
    FirstModel = 1
    MinPanel = 2
    Callers = {k1, k2, k3}
    Large = {k3}
    MaxWorkers = 2
    MaxGone = 1
    MaxExits = 1
    Habits <- MCHabits
    MaxTurns = 5
CHECK_DEADLOCK FALSE
INVARIANTS
    ReplyIsOwn
