SPECIFICATION FairSpec
CONSTANTS
    BufferSize = 3
    Requests = 1
    WithHandler <- MCAll
    Kinds <- MCNotFatal
    MaxFaults = 1
    MaxUpdates = 1
    Cutting = FALSE
PROPERTIES Answered Drains
CHECK_DEADLOCK FALSE
