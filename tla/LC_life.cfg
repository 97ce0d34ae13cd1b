SPECIFICATION FairSpec
CONSTANTS
    Nodes = {"n1", "n2"}
    Workers = {"w1", "w2"}
    None = None
    Requests = {"start", "stop", "restart", "kill", "reinstall", "delete", "migrate", "join"}
    Modes <- MCModes
INVARIANTS
    FilesKept
    RestAgrees
PROPERTIES
    DispatchReturns
CHECK_DEADLOCK FALSE
