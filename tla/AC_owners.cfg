SPECIFICATION FairSpec
CONSTANTS
    a = a
    b = b
    c = c
    Users = {a, b, c}
    ServerOwner = a
    Start <- MCStart
    Workers = {w1, w2}
    MaxInvs = 1
    MaxRequests = 3
    Overrides = {"manage"}
    Calm = TRUE
PROPERTIES
    OwnerRemains
    SetupIsFirst
    InvitationEndsOnce
    GrantCapped
    RequestReturns
CHECK_DEADLOCK FALSE
