SPECIFICATION Spec
CONSTANTS
    Tools <- MCTools
    MaxCalls = 3
    MaxFaults = 1
    MaxEdits = 2
    UserMayRace = FALSE
    UserHasOnlyKey = FALSE
INVARIANTS
    AnswerTruthful
    NothingDangles
PROPERTIES
    UserContentKept
