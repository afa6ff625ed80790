CONSTANTS
    a = a
    b = b
    c = c
    NoId = NoId
    Id = {a, b}
    hashPeer <- Hashes
    MaxFound <- Often
    PeerCountCap = 1
    MaxLost = 1
    Electing = {a, b}
SPECIFICATION FairSpec
INVARIANTS
    TypeOK
    RoleMatchesLeader
    CompleteViewsAgree
    ElectedLeaderReachable
    HandshakesAccounted
PROPERTIES
    HandshakeCompletes
    
CHECK_DEADLOCK FALSE
