CONSTANTS
    s1 = s1
    s2 = s2
    NoId = NoId
    running = running
    nil = nil
    s3 = s3
    Id = {s1, s2, s3}
    hashPeer <- Hashes
    Peer = {p1, p2, p3}
    j1 = j1
    j2 = j2
    JobId = {j1, j2}
    Dirs <- SmallDirs
    f = 1
    EpochIds = {0, 1, 2, 3, 6}
    Word = 8
    MAX_ROUNDS = 2
    MaxEpochMsgs = 3
SPECIFICATION Spec
INVARIANT
    SwitchesEpoch
CHECK_DEADLOCK FALSE
