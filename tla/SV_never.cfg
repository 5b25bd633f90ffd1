CONSTANTS
    s = s
    d = d
    Services = {s, d}
    Policy <- Never
    Deferred = {d}
    Stable = {s}
    CrashBudget = 3
    MaxKids = 2
    MaxWrites = 5
    MaxLives = 1
    None = None
SPECIFICATION Spec
INVARIANTS
    OneChild
    QuietAgrees
CHECK_DEADLOCK FALSE
