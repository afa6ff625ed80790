CONSTANTS
    Peer = {p1, p2, p3}
    NoPeer = NoPeer
    Job = {j1, j2}
    Value = {u, v}
    None = None
    f = 1
    MaxReports = 3
SPECIFICATION Spec
SYMMETRY Interchangeable
INVARIANTS
    DecidesSupportedJobs
    ConsensusIffSupport
    SignatoriesReported
CHECK_DEADLOCK FALSE
