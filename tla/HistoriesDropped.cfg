SPECIFICATION Spec
CONSTANTS
    user = user
    channel = channel
    Scenes <- MCGhost
    Out <- MCNone
    UserTypes <- MCSlice
    MaxRequests = 2
INVARIANTS DroppedReadIsGone
CHECK_DEADLOCK FALSE
