CONSTANTS
    p1 = p1
    p2 = p2
    Procs = {p1, p2}
    SpecsOf <- MCReminders
    Horizon = 2
    MaxWrites = 2
    MaxBoots = 1
SPECIFICATION FairSpec
PROPERTIES
    AwakeFires
    ArmedFires
CHECK_DEADLOCK FALSE
