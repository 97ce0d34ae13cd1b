SPECIFICATION Spec
CONSTANTS
    CrashLimit = 0
    CrashWindow = 8
    DefaultMaxRestarts = 3
    DefaultWindow = 12
    BackoffBase = 1
    BackoffMax = 3
    MaxTime = 16
PROPERTY GivesUpExactly
CHECK_DEADLOCK FALSE
