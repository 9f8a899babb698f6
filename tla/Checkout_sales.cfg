CONSTANTS
    None = None
    MaxSales = 2
    MaxItems = 2
    MaxTasks = 2
    MaxFaults = 2

SPECIFICATION FairSpec
CHECK_DEADLOCK FALSE

INVARIANTS
    TypeOK
    SettledIsInTheBooks
    UnpaidIsOnScreen
PROPERTIES
    EverySaleSettles
