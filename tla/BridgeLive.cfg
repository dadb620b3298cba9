SPECIFICATION FairSpec
CONSTANTS
    MaxLinks = 2
    MaxClouds = 0
    AuthErrRetries = 1
PROPERTIES
    StopReturns
    ReconnectGoesOn
CHECK_DEADLOCK FALSE
