SPECIFICATION Spec
CONSTANTS
    InitialPts = 1
    MaxEvents = 3
    Counts <- MCCounts
    SeqKinds <- MCSeqKinds
    PlainKinds <- MCPlainKinds
    Results = 1
    MaxLosses = 1
    SilentLosses = TRUE
    MaxFails = 1
    Ordered = FALSE
INVARIANTS GapWaits NoLostContainer
PROPERTIES KeepsLog ContainersInOrder SkippedStaysAhead
CHECK_DEADLOCK FALSE
