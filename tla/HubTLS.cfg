SPECIFICATION FairSpec
CONSTANTS
    Devices = {"raw", "managed"}
    Slots = 1
    MaxLaunches = 3
INVARIANTS
    SignsUntilClosed
    OnlyLeaksRemain
PROPERTY
    LaunchEnds
CHECK_DEADLOCK FALSE
