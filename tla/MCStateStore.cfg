SPECIFICATION FairSpec

CONSTANTS
    t1 = t1
    t2 = t2
    u1 = u1
    u2 = u2
    d1 = d1
    d2 = d2
    Flusher = Flusher
    Free = Free
    Writers <- MCWriters
    Durable <- MCDurable
    Deferred <- MCDeferred
    MaxCrashes = 2
    MaxFaults = 2
INVARIANTS
    DurableWritesSurvive
    NoAckedWriteForgotten
PROPERTIES
    ShutdownKeepsAcked
    EveryWriteSettles
    AbsSpec
