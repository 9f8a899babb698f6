CONSTANTS
    None = None
    Shift = Shift
    Calls = {c1, c2, c3}
    Bills = {b1, b2}
    Transfers = {t1, t2}
    TotalVnd <- SameTotal
    AmountVnd <- SameAmount
    Memo <- Memos
    CashPart = {0, 1}
    RefundAmounts = {1, 2}

SPECIFICATION Spec
SYMMETRY CallSymmetry

INVARIANTS
    TypeOK
    OneBillPerTransfer
    MoneyAddsUp
PROPERTIES
    DecidedStaysDecided
    CloseCountsTheCash
