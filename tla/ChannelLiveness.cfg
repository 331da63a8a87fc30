SPECIFICATION FairSpec
CONSTANTS
    InitialPts = 1
    MaxPts = 4
    Counts <- MCCounts
    MaxLosses = 2
    SilentLosses = FALSE
    MaxFails = 1
    MaxViews = 1
    Ordered = TRUE

PROPERTIES CatchesUp GapCloses
CHECK_DEADLOCK FALSE
