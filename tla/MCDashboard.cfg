\* A page that has settled may be left alone: states may be final.
SPECIFICATION DashboardSpec
CONSTANTS
    Rows = {r1, r2}
    NoRow = NoRow
    MaxUsed = 2
    MaxSteps = 3
    MaxTurns = 3
    MaxClears = 1
    Tabs = {t1, t2}
    Registrations = {ra, rb}
    Off = Off
    MaxFlows = 2
    MaxChanges = 1
    MaxFaults = 1
    KeyCallers = {k1, k2}
    VerdictTTL = 1
    AskTimeout = 1
CHECK_DEADLOCK FALSE
INVARIANTS
    ShowsWhatIs
    SignOnHolds
    KeysHold
PROPERTIES
    TypedIsKept
    PageSettles
