SPECIFICATION FairSpec
CONSTANTS
    MaxNodes = 2
    MaxCsrs = 2
    MaxAttempts = 1
    MaxFaults = 3
    Workers = {w1, w2}
    Statuses = {"draining"}
    Origins = {"fresh", "noca", "restored"}
INVARIANTS
    EnrolledOnce
    OneCA
    NeverLockedOut
PROPERTIES
    TlsReached
CHECK_DEADLOCK FALSE
