SPECIFICATION FairSpec
CONSTANTS
    Users = {"admin", "tenant"}
    Servers = {"s1"}
    Nodes = {"n1"}
    Staff = {"admin"}
    Requests = {w1, w2}
    Ticker = tick
    MaxRules = 1
    MaxEvents = 3
    MaxChanges = 1
    Shapes <- MCShapes
    Loads = {50}
INVARIANTS
    DuplicatesBounded
    NoticeHasEvent
PROPERTIES
    TenantScope
    OutageIsReported
CHECK_DEADLOCK FALSE
