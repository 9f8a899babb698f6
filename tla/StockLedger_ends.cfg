CONSTANTS
    None = None
    rice = rice
    beef = beef
    IdOrder <- Ids
    Calls = {c1, c2, c3}
    Branches = {b1}
    Kinds = {"sale", "cancel", "issue", "receive"}
    Recipes <- Both
    Counts = {1}
    Lots <- OneLot

SPECIFICATION FairSpec

PROPERTIES
    EveryTransactionEnds
