CONSTANTS
    None = None
    Shift = Shift
    Calls = {c1, c2}
    Bills = {b1}
    Transfers = {t1}
    TotalVnd <- SameTotal
    AmountVnd <- SameAmount
    Memo <- Memos
    CashPart = {0, 1}
    RefundAmounts = {1, 2}

SPECIFICATION Spec
SYMMETRY CallSymmetry

INVARIANTS
    PaidOnce
