SPECIFICATION Spec
CONSTANTS
    MaxBackups = 1
    Destinations = {d1}
    Nodes = {n1, n2}
    Workers = {w1, w2}
    Scheduler = sched
    None = None
    Requests = {"create", "schedule", "retry", "delete", "delete_dest", "migrate"}
    KeepLocal = FALSE
    RemoteRetention = 0
    RetentionCount = 0
    RetentionDays = TRUE
    Deadlines = TRUE
    MaxCrashes = 1
    d1 = d1
    n1 = n1
    n2 = n2
    w1 = w1
    w2 = w2
SYMMETRY Symmetry
INVARIANT CopiesKept
CHECK_DEADLOCK FALSE
