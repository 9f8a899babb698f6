CONSTANTS
    Sales = {u1, u2}
    Corruptible = {u2}
    MaxAttempts = 2
    MaxFaults = 3
    ShiftCloses = TRUE

SPECIFICATION FairSpec
CHECK_DEADLOCK FALSE

INVARIANTS
    TypeOK
    ShownNumberIsOfficial
    CycleOwnsItsBatch
PROPERTIES
    KeptUntilNumbered
    EveryQueuedBillCommits
