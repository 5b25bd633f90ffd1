CONSTANTS
    a = a
    w = w
    Commands = {c1}
    Tabs = {w1, w2}
    Stubborn = {c1}
    GateBoots = 3
    Calls = {s1, s2}
    SelfTest = t
    ShellKeys = 2
    Chars = {a, w, LF, CR}
    LF = LF
    CR = CR
    Wide = {w}
    FileTexts <- SmallFiles
    Edits <- SmallEdits
    MaxEdits = 2
    Limits = {1, 2, 9}
    MaxLines = 2
    MaxBytes = 3
    Kids = {k1, k2}
    Kept = {k2}
    KidLives = 2
    KidMishaps = 1
    Soft = 2
    Hard = 3
    HistoryTurns = 3
    HistoryMishaps = 1
SPECIFICATION Spec
INVARIANTS
    ToolsTypeOK
    RunsApproved
    NoGhost
    HeardOnce
    EndIsTold
    OwnAnswer
    NothingLost
    Forgotten
    ShownRight
    EditedExactly
CHECK_DEADLOCK FALSE
