CONSTANTS
    Base      = 2
    Hash     <- MCHash
    SizeMax   = 1000
    Texts    <- HalfTexts
    Lead     <- MCLead
    Cont     <- MCCont
    Constants = {1}
    Decimals <- MCDecimals
    MaxSpool  = 9
    MaxStack  = 5
SPECIFICATION Spec
INVARIANTS
    TypeOK
    ContainersNested
    AssertionsHold
    WritesCompleteOnly
PROPERTIES
    BuildsDocument
    FollowsDocument
