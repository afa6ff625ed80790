CONSTANTS
    l = l
    r = r
    a = a
    b = b
    c = c
    NoId = NoId
    Node = {l, a, b}
    leader <- OneLeader
    n = 1
    f = 0
    EventCounts = {5}
    MaxLost = 0
SPECIFICATION Spec
INVARIANT InertBeforeEpoch
CHECK_DEADLOCK FALSE
