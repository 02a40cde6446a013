\* Every client gone and every caller answered: states may be final.
SPECIFICATION ChildrenSpec
CONSTANTS
    c1 = c1
    c2 = c2
    c3 = c3
    Clients <- MCClients
    Readers <- MCReaders
    MaxSpawns = 3
    Buffer = 1
    MaxPipe = 2
    s1 = s1
    s2 = s2
    x1 = x1
    NoCaller = NoCaller
    Starters <- MCStarters
    Stoppers <- MCStoppers
    Rules <- MCRules
    MaxAttempts = 2
    QueueDepth = 2
CHECK_DEADLOCK FALSE
INVARIANTS
    NoChildIsLost
    SupervisionHolds
PROPERTIES
    NobodyIsLeftWaiting
