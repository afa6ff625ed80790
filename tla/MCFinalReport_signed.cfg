CONSTANTS
    Peer = {p1, p2}
    NoPeer = NoPeer
    Job = {j1, j2}
    Value = {u, v}
    None = None
    f = 0
    MaxReports = 2
SPECIFICATION Spec
SYMMETRY Interchangeable
INVARIANTS
    SignedByItsReporters
CHECK_DEADLOCK FALSE
