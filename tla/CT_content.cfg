SPECIFICATION Spec
CONSTANTS
    Worlds = {"w1", "w2", "w 3"}
    Odd = {"w 3"}
    Boot = "w1"
    Files = {"f1", "f2"}
    FirstMod = "f1"
    FirstPlugin = "f2"
    Servers = {"s1", "s2"}
    Requests = {1, 2}
    Asked <- MCAsked
    MaxCalls = 2
    MaxFaults = 1
    MaxMoves = 1
INVARIANTS
    BootWorldExists
    PresentIsLoaded
    OneSecret
    HubKnowsGamemodes
PROPERTIES
    Settles
CHECK_DEADLOCK FALSE
