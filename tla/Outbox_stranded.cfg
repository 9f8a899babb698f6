CONSTANTS
    Sales = {u1}
    Corruptible = {}
    MaxAttempts = 5
    MaxFaults = 1
    ShiftCloses = FALSE

SPECIFICATION FairSpec
CHECK_DEADLOCK FALSE

PROPERTIES
    SyncingResolves
