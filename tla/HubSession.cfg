SPECIFICATION SessionFairSpec
CONSTANTS
    t1 = t1
    t2 = t2
    Topics = {t1, t2}
    NoTopic = NoTopic
    MaxInfos = 3
    MaxConnects = 2
INVARIANTS
    ToldIsSubscribed
    LeftoverIsOrphan
PROPERTIES
    EventuallySubscribed
CHECK_DEADLOCK FALSE
