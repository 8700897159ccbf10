SPECIFICATION Spec
CONSTANTS
    hafsa = hafsa
    amna = amna
    t1 = t1
    t2 = t2
    Demo <- MCDemo
    Threads <- TwoThreads
    Base = 2
    DiskFails = FALSE
    MaxLogins = 2
    MaxCrashes = 0
CHECK_DEADLOCK FALSE
INVARIANTS SavedUsersReadable
