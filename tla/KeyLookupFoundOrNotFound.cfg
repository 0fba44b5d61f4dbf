CONSTANTS
    Keys            <- MCKeys
    MaxHash          = 15
    Mantissa         = 16
    Powers          <- MCPowers
    HaveBuiltinClzll = TRUE
    MaxCount         = 7
    MaxSize          = 31
SPECIFICATION RangeSpec
CHECK_DEADLOCK FALSE
INVARIANTS
    FoundOrNotFound
