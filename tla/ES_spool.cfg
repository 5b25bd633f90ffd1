CONSTANTS
    e1 = e1
    e2 = e2
    e3 = e3
    PAIs = {1, 2}
    Events = {e1, e2, e3}
    Target <- MCTarget
    Wakes <- MCWakes
    Fallback = 2
    Contents <- MCContents
    Failing = {e2}
    Threshold = 1
    MaxBoots = 2
    MaxRepeats = 1
SPECIFICATION FairSpec
INVARIANTS
    ConsumedOnce
    InOrder
    SummaryTrue
PROPERTIES
    EventServed
    DeliverySpec
CHECK_DEADLOCK FALSE
