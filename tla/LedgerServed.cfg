SPECIFICATION FairSpec
CONSTANTS
    t1 = t1
    t2 = t2
    Threads <- MCThreads
    Hash <- MCHash
    MaxSends = 4
    MaxCrashes = 2
    DiskFails = TRUE
CHECK_DEADLOCK FALSE
INVARIANTS TypeOK ChainValid RestartLosesNothing
PROPERTIES ImplementsLog EverySendAnswered
