SPECIFICATION FairSpec
CONSTANTS
    Servers = {s1}
    Procs = {p1}
    Tasks = {t1, t2}
    None = None
    Requests = {"start", "stop", "kill", "stop_all"}
    Codes = {"zero"}
    MaxServers = 1
    MaxRestarts = 1
    AutoRestart = FALSE
    StartupCanTimeOut = FALSE
    WaitCanFail = TRUE
PROPERTIES EveryActorReturns KillDeregisters
