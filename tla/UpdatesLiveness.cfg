SPECIFICATION FairSpec
CONSTANTS
    InitialPts = 1
    MaxEvents = 3
    Counts <- MCOne
    SeqKinds <- MCSeqKinds
    PlainKinds <- MCPlainKinds
    Results = 0
    MaxLosses = 1
    SilentLosses = FALSE
    MaxFails = 1
    Ordered = TRUE
PROPERTIES CatchesUp
CHECK_DEADLOCK FALSE
