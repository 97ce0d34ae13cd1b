SPECIFICATION Spec
CONSTANTS
    Servers = {"s1", "s2"}
    Names = {"old", "new"}
    FirstName = "old"
    FirstServer = "s1"
    Flags = {"ban", "op"}
    Requests = {1, 2}
    Asked <- MCAsked
    MaxCalls = 2
    MaxFaults = 1
    MaxMoves = 2
INVARIANTS
    BanIsKept
    OneOpenSession
    SessionsAgree
    FlagsConverge
CHECK_DEADLOCK FALSE
