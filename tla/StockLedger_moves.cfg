CONSTANTS
    None = None
    rice = rice
    beef = beef
    IdOrder <- Ids
    Calls = {c1, c2, c3}
    Branches = {b1, b2}
    Kinds = {"sale", "cancel", "adjust", "receive", "transfer"}
    Recipes <- BothOrBeef
    Counts = {1}
    Lots <- DearAndCheap

SPECIFICATION Spec
SYMMETRY Symmetry

INVARIANTS
    TypeOK
    BalancesAddUp
    ReturnsWhatItTook
    BillsNeverCircle
