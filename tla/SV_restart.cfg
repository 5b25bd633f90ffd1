CONSTANTS
    s = s
    d = d
    Services = {s}
    Policy <- OnFailure
    Deferred = {}
    Stable = {s}
    CrashBudget = 3
    MaxKids = 3
    MaxWrites = 3
    MaxLives = 1
    None = None
SPECIFICATION FairSpec
PROPERTIES
    ShutdownEnds
CHECK_DEADLOCK FALSE
