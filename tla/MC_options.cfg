CONSTANTS
    Options <- MCOptions
    Lists <- MCLists
    MaxCount = 2
    OROCap = 3
    NULL = NULL
    MaxTry = 5
SPECIFICATION TSpec
INVARIANTS
    OptionIsOKMatchesList
    RetransmitWithinLimits
PROPERTY
    BackoffGrows
