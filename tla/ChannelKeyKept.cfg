SPECIFICATION Spec
CONSTANTS
    MaxMessages = 3
    Faults = {}
    MaxFrames = 2
    MaxNotes = 0
    MaxTimeouts = 0
    MaxLong = 0
    RecursionLimit = 1
CHECK_DEADLOCK FALSE
INVARIANTS KeysDestroyed
