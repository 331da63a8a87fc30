SPECIFICATION Spec
CONSTANTS
    user = user
    channel = channel
    Scenes <- MCReads
    Out <- MCNone
    UserTypes <- MCSlice
    MaxRequests = 1
INVARIANTS ReadsInOrder ShownReadIsTold CountSettles
CHECK_DEADLOCK FALSE
