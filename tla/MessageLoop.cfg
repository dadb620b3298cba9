SPECIFICATION FairSpec
CONSTANTS
    l1 = l1
    d1 = d1
    d2 = d2
    x1 = x1
    x2 = x2
    Loops = {l1}
    Dispatchers = {d1, d2}
    Closers = {x1, x2}
    Kinds = {"plain", "buffered", "dynamic"}
    BuffSize = 2
    MaxOrphans = 2
INVARIANTS
    NoSendOnClosed
    OneAtATime
PROPERTIES
    CloseReturns
    ContextEndsLoop
CHECK_DEADLOCK FALSE
