CONSTANTS
    None = None
    Branch = b
    MaxCalls = 5
    Desks <- MCDesks
    MaxDay = 2
    MaxMinute = 2
    Weekends = {2}
    Vnd = {0, 1, 2}
    Quota = 1
    PoolSize = 3

SPECIFICATION FairPriceSpec
CHECK_DEADLOCK FALSE

INVARIANTS
    PriceTypeOK
    PricesAgree
    QuotaAddsUp
PROPERTIES
    PastStands
    EveryCallEnds
