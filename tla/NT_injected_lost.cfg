CONSTANTS
    root = root
    a = a
    m1 = m1
    m2 = m2
    m3 = m3
    Root = root
    PAIs = {root, a}
    Msgs = {m1, m2}
    To <- MCTo
    Overclock = {}
    Injectable = {a}
    Beating = {}
    Reviewed = {}
    Reload = Reload
    None = None
SPECIFICATION Spec
PROPERTIES
    InjectedStaysInTurn
CHECK_DEADLOCK FALSE
