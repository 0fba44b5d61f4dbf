CONSTANTS
    Base              = 4
    SizeMax           = 1000
    Lead             <- MCLead
    Cont             <- MCCont
    Documents        <- MCDocuments
    InitialSize       = 2
    MaxBuffer         = 4
    Pipe              = 3
    MaxInput          = 7
    Keys             <- MCKeys
    MaxHash           = 15
    Mantissa          = 16
    Powers           <- MCPowers
    HaveBuiltinClzll  = TRUE
    MaxCount          = 7
    MaxSize           = 31
SPECIFICATION MCSpec
CHECK_DEADLOCK FALSE
INVARIANTS
    OutputCorrect
    ValuesInside
    TypeOK
    NothingLost
    SuccessIsComplete
    RefusedOnce
    OutputsComplete
    AnswerCorrect
    Bracket
    GuessesBounded
    RangeCorrect
PROPERTIES
    EveryOutputEnds
    RangeAnswered
