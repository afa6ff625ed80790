CONSTANTS
    l = l
    r = r
    a = a
    b = b
    c = c
    NoId = NoId
    Node = {l, a, b, c}
    leader <- OneLeader
    n = 1
    f = 0
    EventCounts = {5, 20}
    MaxLost = 1
SPECIFICATION FairSpec
INVARIANTS
    TypeOK
    DistinctObservers
    ReportedOverQuorum
    ReportsPerRequest
    RestsComplete
PROPERTIES
    RoundReports
CHECK_DEADLOCK FALSE
