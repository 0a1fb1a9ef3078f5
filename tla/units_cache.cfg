CONSTANTS
    p1 = p1
    p2 = p2
    s1 = s1
    w1 = w1
    w2 = w2
    Pids = {p1, p2}
    Scopes = {s1}
    Windows = {w1, w2}
    NoPid = NoPid
    NoUnit = NoUnit
    Unseen = Unseen
SPECIFICATION Spec
PROPERTIES ProtectedSkipped
