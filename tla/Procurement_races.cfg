CONSTANTS
    None = None
    Calls = {c1, c2, c3, c4}
    FirstOrder = o0
    FirstPayable = p0
    FirstEdit = e0
    LineVnd = {1, 3}
    PayVnd = {1, 2}
    ThresholdVnd = 2
    FirstVnd = 2
    MaxAttempts = 3

SPECIFICATION Spec
SYMMETRY CallSymmetry

INVARIANTS
    TypeOK
    BooksAddUp
    OrderKept
