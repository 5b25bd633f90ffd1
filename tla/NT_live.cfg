CONSTANTS
    root = root
    a = a
    m1 = m1
    m2 = m2
    m3 = m3
    Root = root
    PAIs = {root, a}
    Msgs = {m1, m3}
    To <- MCTo
    Overclock = {}
    Injectable = {root, a}
    Beating = {}
    Reviewed = {a}
    Reload = Reload
    None = None
SPECIFICATION FairSpec
PROPERTIES
    InterruptEnds
    Settles
    ReloadNeverWedges
CHECK_DEADLOCK FALSE
