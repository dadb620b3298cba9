SPECIFICATION FairSpec
CONSTANTS
    c1 = c1
    c2 = c2
    own = own
    m1 = m1
    m2 = m2
    wild = wild
    Clients <- MCClients
    OwnClients <- MCOwn
    Mids <- MCMids
    WildMids <- MCWild
    Topics <- MCTopics
    Conns = 2
    MaxList = 2
INVARIANTS
    RefCount
    LiveForwarded
    StaleOnlyIfOvertaken
PROPERTIES
    EventuallyForwarded
CHECK_DEADLOCK FALSE
