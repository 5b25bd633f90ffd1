CONSTANTS
    p1 = p1
    p2 = p2
    Procs = {p1, p2}
    SpecsOf <- MCMixed
    Horizon = 2
    MaxWrites = 3
    MaxBoots = 1
SPECIFICATION Spec
INVARIANTS
    TypeOK
    TimerKept
    NoDoubleFire
CHECK_DEADLOCK FALSE
