CONSTANTS
    Soft = 2
    Hard = 3
    HistoryTurns = 3
    HistoryMishaps = 1
SPECIFICATION HistorySpec
INVARIANTS
    SummaryReaches
CHECK_DEADLOCK FALSE
