\* A request may be refused for ever and every bound be reached: states may be final.
SPECIFICATION StateSpec
CONSTANTS
    Usernames = {"root", "ann"}
    Passwords = {"p", "q"}
    SharedPassword = "p"
    Peers = {p1, p2}
    Logins = {l1, l2}
    Threshold = 2
    Window = 2
    LockDuration = 2
    Capacity = 1
    SameMillis = FALSE
    MaxRequests = 4
    MaxTime = 2
    N = 3
    Priority <- MCPriority
    StickyLimit = 2
    Ticks = {1}
    MaxPicks = 10
    Clients = {c1, c2}
    Offered <- AllImporters
    Renamed = {"openai", "gitlab", "iflow"}
    Editors = {e1, e2}
    Names = {"a", "b"}
    Legacy <- MCLegacy
    MaxEdits = 3
    MaxNodes = 2
    MaxCalls = 3
    MaxFaults = 1
SYMMETRY Symmetric
CHECK_DEADLOCK FALSE
INVARIANTS
    UsersDistinct
    SessionsEarned
    GuessesBounded
    ImportsHold
    TurnsAreFair
PROPERTIES
    RecordsHold
    AdminKept
