CONSTANTS
    root = root
    a = a
    m1 = m1
    m2 = m2
    m3 = m3
    Root = root
    PAIs = {root, a}
    Msgs = {m1, m3}
    To <- MCTo
    Overclock = {m1}
    Injectable = {root, a}
    Beating = {a}
    Reviewed = {root, a}
    Reload = Reload
    None = None
SPECIFICATION Spec
INVARIANTS
    WindowHasTurn
    NoRedelivery
    TypeOK
    OneTurnPerPAI
PROPERTIES
    OnlyInterruptWithdraws
    MailboxSpec
CHECK_DEADLOCK FALSE
