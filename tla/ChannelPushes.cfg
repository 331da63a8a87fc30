SPECIFICATION Spec
CONSTANTS
    InitialPts = 0
    MaxPts = 4
    Counts <- MCCounts
    MaxLosses = 1
    SilentLosses = TRUE
    MaxFails = 1
    MaxViews = 1
    Ordered = FALSE
INVARIANTS NoLostUpdate NeverOvercounted QueueWaitsForGap
PROPERTIES GapWaits PushedInOrder PollGoesOn KeepsLog
CHECK_DEADLOCK FALSE
