SPECIFICATION Spec
CONSTANTS
    a = a
    b = b
    m1 = m1
    m2 = m2
    p = p
    q = q
    r1 = r1
    r2 = r2
    Conns = {a, b}
    Models = {m1, m2}
    AllModels = AllModels
    Requests = {r1, r2}
    ProviderOf <- MCProviderOf
    TargetsOf <- MCTargetsOf
    Malformed = {}
    MaxAttempts = 2
    MaxEdits = 1
SYMMETRY AccountSymmetry
PROPERTIES
    NoAccountTwice
    CooldownHonoured
    GivesUpOnlyWhenNothingIsLeft
    LastModelOwnsTheOutcome
    EveryWalkIsBounded
