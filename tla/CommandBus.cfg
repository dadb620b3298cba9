SPECIFICATION Spec
CONSTANTS
    g = g
    w = w
    d = d
    e = e
    bare = bare
    i1 = i1
    i2 = i2
    r1 = r1
    r2 = r2
    Modes = {TRUE, FALSE}
    Characters = {g, w, d, e, ":"}
    Gateway <- TheGateway
    Segments <- Devices
    Ids = {i1, i2}
    NoId = none
    Timeouts <- Headers
    BareUnit = bare
    DefaultTimeout = 2
    TimeoutLimit = 4
    Requests = {r1, r2}
    MaxTime = 5
INVARIANTS
    AnsweredOnce
    ReturnToSender
PROPERTY InTimeAccepted
SYMMETRY Symmetry
CHECK_DEADLOCK FALSE
