SPECIFICATION Spec
CONSTANTS
    BufferSize = 3
    Requests = 2
    WithHandler <- MCAll
    Kinds <- MCEverything
    MaxFaults = 1
    MaxUpdates = 0
    Cutting = FALSE
INVARIANTS RequestIsKept RunsOnce HandledOnce FreshIds NumberedIsForced
CHECK_DEADLOCK FALSE
