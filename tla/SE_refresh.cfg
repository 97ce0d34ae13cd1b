SPECIFICATION FairSpec
CONSTANTS
    Users = {u1}
    Tabs = {c1, c2}
    None = None
    MaxTokens = 3
    MaxTries = 2
    MaxEvents = 2
    Kinds = {"login", "refresh", "logout", "password", "revokeSession", "totp", "admin", "expire"}
    Quiet = {"totp"}
    RedisFails = TRUE
    Aborts = {"refresh", "login", "logout", "password"}
INVARIANTS
    RacersAgree
    PasswordEndsSessions
    TotpNeverLocksOut
PROPERTIES
    LineageHolds
    RequestReturns
CHECK_DEADLOCK FALSE
