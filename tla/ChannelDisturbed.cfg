SPECIFICATION Spec
CONSTANTS
    MaxMessages = 2
    Faults = {"long", "timeout", "notification", "interrupt"}
    MaxFrames = 4
    MaxNotes = 2
    MaxTimeouts = 2
    MaxLong = 2
    RecursionLimit = 2
CHECK_DEADLOCK FALSE
INVARIANTS NonceUnique LagBounded KeysAgree ServerNeverAtLimit NoWaitInVain
