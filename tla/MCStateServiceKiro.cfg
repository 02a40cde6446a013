\* Kiro imports alone, and every party answers.
SPECIFICATION StateSpec
CONSTANTS
    Usernames = {"root", "ann"}
    Passwords = {"p", "q"}
    SharedPassword = "p"
    Peers = {p1, p2}
    Logins = {l1, l2}
    Threshold = 2
    Window = 2
    LockDuration = 2
    Capacity = 1
    SameMillis = FALSE
    MaxRequests = 1
    MaxTime = 3
    N = 3
    Priority <- MCPriority
    StickyLimit = 2
    Ticks = {1}
    MaxPicks = 0
    Clients = {c1, c2}
    Offered <- KiroImporters
    Renamed = {"openai", "gitlab", "iflow"}
    Editors = {e1, e2}
    Names = {"a", "b"}
    Legacy <- MCLegacy
    MaxEdits = 0
    MaxNodes = 2
    MaxCalls = 3
    MaxFaults = 0
INVARIANT RefreshedIsRecorded
CHECK_DEADLOCK FALSE
