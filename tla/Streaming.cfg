SPECIFICATION FairSpec
CONSTANTS
    Slices = 3
    PartsInSlice = 2
    SlicesInMemory = 2
    PreloadAhead = 1
    LoadMax = 2
    MaxPartsInHeader = 3
    GoodOutside = 1
    Reads <- MCReads
    Caches <- MCCaches
    MaxEvents = 4
INVARIANTS Asserted LoadingIsComing LoadsOnlyMissing
PROPERTIES EntriesGrow ReadEnds
CHECK_DEADLOCK FALSE
