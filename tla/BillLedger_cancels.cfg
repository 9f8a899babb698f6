CONSTANTS
    NoSale = NoSale
    None = None
    Calls = {c1, c2}
    Cancels = {x1, x2}
    Branches = {b1, b2}
    Shifts = {s1}
    ShiftBranch <- ShiftsAtHome
    LastDay = 1
    Sales = {u1}
    Orders = {o1}

SPECIFICATION FairSpec

INVARIANTS
    StockFollowsBill
PROPERTIES
    LedgerOnlyGrows
    ImplementsBook
    EveryCallAnswered
