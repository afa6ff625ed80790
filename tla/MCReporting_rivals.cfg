CONSTANTS
    l = l
    r = r
    a = a
    b = b
    c = c
    NoId = NoId
    Node = {l, r, a, b, c}
    leader <- Rivals
    n = 1
    f = 0
    EventCounts = {5}
    MaxLost = 0
SPECIFICATION Spec
SYMMETRY RivalsSymmetry
INVARIANTS
    LeadersDoNotMix
    ContributorsServe
CHECK_DEADLOCK FALSE
