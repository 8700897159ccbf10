SPECIFICATION Spec
CONSTANTS
    hafsa = hafsa
    amna = amna
    t1 = t1
    t2 = t2
    Demo <- MCDemo
    Threads <- TwoThreads
    Base = 2
    DiskFails = TRUE
    MaxLogins = 3
    MaxCrashes = 1
CHECK_DEADLOCK FALSE
INVARIANTS TypeOK QuietServerSaved DigestCurrentUntilCrash CountsRealLogins FirstUserServed
