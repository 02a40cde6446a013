\* Every client gone and every caller answered: states may be final.
SPECIFICATION ChildrenSpec
CONSTANTS
    c1 = c1
    c2 = c2
    c3 = c3
    Clients <- MCTwoClients
    Readers <- MCReaders
    MaxSpawns = 1
    Buffer = 1
    MaxPipe = 1
    s1 = s1
    s2 = s2
    x1 = x1
    NoCaller = NoCaller
    Starters = {s1}
    Stoppers = {}
    Rules = {"Line"}
    MaxAttempts = 1
    QueueDepth = 1
CHECK_DEADLOCK FALSE
PROPERTY
    NoReaderWaitsOnTheDead
