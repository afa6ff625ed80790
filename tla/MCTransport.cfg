CONSTANTS
    a = a
    b = b
    req = req
    res = res
    status = status
    again = again
    None = None
    Node = {a, b}
    Message = {req, res, status, again}
    from <- FromMap
    to <- ToMap
    size <- SizeMap
    next <- NextMap
    reply <- ReplyMap
    Buffer = 2
    Window = 2
    MsgChCap = 1
    MaxFaults = 1
SPECIFICATION FairSpec
INVARIANTS
    TypeOK
    HandledOnce
    LongNeverArrives
PROPERTIES
    ImplementsLinks
    CutOffForGood
    SendReturns
    LinksDrain
CHECK_DEADLOCK FALSE
