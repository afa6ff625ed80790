CONSTANTS
    fetch = fetch
    parse = parse
    multiply = multiply
    Name = {fetch, parse, multiply}
    Requests <- SmallRequests
    MaxJobs = 2
SPECIFICATION FairSpec
INVARIANTS
    TypeOK
    AnswerComplete
    MathAnswersNumber
PROPERTIES
    HandlerReturns
CHECK_DEADLOCK FALSE
