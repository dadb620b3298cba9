SPECIFICATION FairSpec
CONSTANTS
    Keys = {k1, k2}
    Callers = {g1, g2}
    TTLs = {0, 1, 2}
    ControlCap = 1
    MaxTime = 3
    IdlePause = 4
    DrainBeforeClose = TRUE
INVARIANTS
    FirstExpiresFirst
    NoPanic
PROPERTIES
    ImplementsPending
    OperationsReturn
    ExpiredIsCleared
    CleanerEnds
CHECK_DEADLOCK FALSE
