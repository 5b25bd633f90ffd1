CONSTANTS
    s = s
    d = d
    Services = {s}
    Policy <- Always
    Deferred = {}
    Stable = {}
    CrashBudget = 3
    MaxKids = 5
    MaxWrites = 3
    MaxLives = 0
    None = None
SPECIFICATION DyingSpec
PROPERTIES
    StormEnds
CHECK_DEADLOCK FALSE
