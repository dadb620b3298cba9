SPECIFICATION Spec
CONSTANTS
    MaxLinks = 2
    MaxClouds = 1
    AuthErrRetries = 2
INVARIANTS
    TypeOK
    CloudFollowsHub
    StatusTruthful
    StoppedClean
CHECK_DEADLOCK FALSE
