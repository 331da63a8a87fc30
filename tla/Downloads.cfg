SPECIFICATION Spec
CONSTANTS
    file = file
    stream = stream
    Files <- MCFiles
    Streams <- MCStreams
    Size = 2
    Asked <- MCAsked
    StartWaited = 2
    MaxWaited = 2
    MaxSessions = 2
    RemoveAfter = 1
    Successes = 1
    MaxRemoves = 1
    Levels <- MCLevels
    MaxCalls = 2
    MaxFaults = 1
INVARIANTS Asserted AmountsAdd PartIsComing NoneStuck
CHECK_DEADLOCK FALSE
