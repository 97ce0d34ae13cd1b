SPECIFICATION Spec
CONSTANTS
    Servers = {s1}
    Procs = {p1, p2}
    Tasks = {t1}
    None = None
    Requests = {"start", "restart"}
    Codes = {"crash"}
    MaxServers = 1
    MaxRestarts = 1
    AutoRestart = TRUE
    StartupCanTimeOut = TRUE
    WaitCanFail = FALSE
SYMMETRY Symmetry
INVARIANTS PendingIsJustified DeathIsTrue
