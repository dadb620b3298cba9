SPECIFICATION FairSpec
CONSTANTS
    w1 = w1
    w2 = w2
    Characters <- SomeCharacters
    Messages <- SomeMessages
    Settings <- SomeSettings
    Prefix <- ThePrefix
    Limited = TRUE
    MaxEvents = 2
    MaxLosses = 1
    MaxLaunches = 2
    Workers = {w1, w2}
INVARIANTS
    AckedIsPassedOn
    InOrder
    Addressed
PROPERTY
    EventuallySettled
CHECK_DEADLOCK FALSE
