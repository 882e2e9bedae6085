SPECIFICATION Spec
CONSTANTS
    o = o
    p = p
    v = v
    g = g
    a = a
    b = b
    s = s
    q1 = q1
    q2 = q2
    w = w
    Owner = o
    People = {p, v}
    Vouched = {v}
    Senders = {p}
    Group = g
    Limit = 1
    MaxUpdates = 3
    MaxEvents = 1
    Posts = {a, b}
    Sends = {s}
    Streams = {q1, q2}
    WebChats = {w}
    MaxMessages = 3
SYMMETRY Symmetry
INVARIANTS
    TypeOK
    AdmittedStaysAdmitted
    OneRefusal
    NoRowForgotten
    PrivateStaysPrivate
    IdsIdentify
    LimitHolds
    PostsReachEngine
    CaughtUp
CHECK_DEADLOCK FALSE
