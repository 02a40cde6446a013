SPECIFICATION FairSpec

CONSTANTS
    Targets <- MCTargets
    Sources <- MCSources
    MaxEvents <- MCMaxEvents
    MaxCalls = 2
    TornBy <- MCTornBy
    Capacity = 2
INVARIANTS
    HearsWhatWasSaid
    ClientCanRead
PROPERTIES
    EveryStreamEnds
