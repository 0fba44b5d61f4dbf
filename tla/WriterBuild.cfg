CONSTANTS
    Base      = 2
    Hash     <- MCHash
    SizeMax   = 1000
    Texts    <- WholeTexts
    Lead     <- MCLead
    Cont     <- MCCont
    Constants = {1}
    Decimals <- MCDecimals
    MaxSpool  = 20
    MaxStack  = 5
SPECIFICATION BuildSpec
INVARIANTS
    SizePredicted
    ReadsBack
