SPECIFICATION FairSpec
CONSTANTS
    p1 = p1
    Versions = {p1}
    StaticValid = FALSE
    MaxWrites = 3
INVARIANTS
    OneLaunch
    NoUpdateLost
    StatusTellsWhy
    ExitedClean
PROPERTIES
    UpdateApplied
    SignalEnds
CHECK_DEADLOCK FALSE
