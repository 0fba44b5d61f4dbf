CONSTANTS
    Mini      = 2
    Small     = 3
    Medium    = 4
    Large     = 5
    Extension = 9
    OffMax    = 18
    MaxSize   = 24
    Byte     <- MCByte
    Pieces   <- MCPieces
    Patches   = {0}
    Junk      = Junk
    Memories <- MCMemories
    Base          = 4
    Nibble        = 2
    SizeMax       = 1000
    WordDigits    = 3
    LoopTexts    <- MCTexts
    LoopNumbers  <- MCNumbers
    MaxZeros      = 2
    DecimalTexts <- MCDecimals
    MaxAdjustment = 2
    DecimalValues <- MCValues
    JsonCalls    <- MCJsonCalls
    JsonStrings  <- MCJsonStrings
SPECIFICATION MCSpec
CHECK_DEADLOCK FALSE
INVARIANTS
    TypeOK
    NothingLeaked
    KilledOnlyByFullDisk
    AcceptsUtf8
    BetweenCharacters
    PackedRight
    AsInDecimalForm
    EncodesText
    SizeCounted
    ShortestForm
    PartsInside
    PrintsReadme
    PrintsWhatWasAdded
    DocumentSaysText
    AcceptsJson
    OnlyAddsItsValue
    StringComesBack
PROPERTIES
    IsAStack
    EveryCallReturns
