\* Logging, clears, outages and restarts are bounded: the last state is final.
SPECIFICATION PathSpec
CONSTANTS
    Threads = {t1, t2}
    Capacity = 1
    MaxBatch = 2
    MaxLogged = 5
    MaxFailures = 1
    MaxLines = 2
    MaxIngested = 5
    MaxClears = 1
    MaxOutages = 1
    MaxRestarts = 1
CHECK_DEADLOCK FALSE
INVARIANTS
    LossesAreSeen
    PaneFaithful
PROPERTIES
    LinesArrive
