SPECIFICATION FairSpec
CONSTANTS
    MaxBackups = 2
    Destinations = {d1}
    Nodes = {n1}
    Workers = {w1}
    Scheduler = sched
    None = None
    Requests = {"create", "schedule", "retry", "delete_dest"}
    KeepLocal = FALSE
    RemoteRetention = 1
    RetentionCount = 1
    RetentionDays = FALSE
    Deadlines = TRUE
    MaxCrashes = 1
    d1 = d1
    n1 = n1
    w1 = w1
PROPERTIES
    NewestKept
    WorkSettles
CHECK_DEADLOCK FALSE
