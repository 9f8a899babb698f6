CONSTANTS
    NoSale = NoSale
    None = None
    Calls = {c1, c2, c3}
    Cancels = {}
    Branches = {b1}
    Shifts = {s1}
    ShiftBranch <- ShiftsAtHome
    LastDay = 2
    Sales = {u1}
    Orders = {o1, o2}

SPECIFICATION Spec
SYMMETRY Symmetry

INVARIANTS
    TypeOK
    Gapless
    OneBillPerSale
    AnswersAreTrue
