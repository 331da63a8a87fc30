SPECIFICATION FairSpec
CONSTANTS
    user = user
    channel = channel
    Scenes <- MCOneChat
    Out <- MCNone
    UserTypes <- MCTypes
    MaxRequests = 3
INVARIANTS TableIsTheNet EntryIsComing DeletionsExcludeSlices
PROPERTIES EntryWaitsForRequests EntryArrives SliceEnds
CHECK_DEADLOCK FALSE
