SPECIFICATION Spec
CONSTANTS
    o = o
    p = p
    v = v
    g = g
    Owner = o
    People = {p, v}
    Vouched = {v}
    Senders = {p}
    Group = g
    Limit = 1
    MaxUpdates = 3
    MaxEvents = 1
PROPERTIES TrustIsForThisText
CHECK_DEADLOCK FALSE
