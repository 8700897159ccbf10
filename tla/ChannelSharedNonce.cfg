SPECIFICATION Spec
CONSTANTS
    MaxMessages = 3
    Faults = {}
    MaxFrames = 4
    MaxNotes = 0
    MaxTimeouts = 0
    MaxLong = 0
    RecursionLimit = 1
CHECK_DEADLOCK FALSE
INVARIANTS NonceNeverRepeats
