SPECIFICATION FairSpec
CONSTANTS
    MaxMessages = 2
    Faults = {"age", "notification", "interrupt"}
    MaxFrames = 4
    MaxNotes = 1
    MaxTimeouts = 0
    MaxLong = 0
    RecursionLimit = 2
CHECK_DEADLOCK FALSE
INVARIANTS TypeOK KeyUsageBound
PROPERTIES EveryWaitEnds SessionsDestroyed
