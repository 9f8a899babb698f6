--------------------------- MODULE MCStockLedger ---------------------------
(* Constants for model checking StockLedger. *)
EXTENDS StockLedger, TLC

CONSTANTS rice, beef

Ids == <<rice, beef>>

\* A bill takes beef and rice, or beef only once the recipe is edited.
BothOrBeef == {[i \in {rice, beef} |-> 1],
               [i \in {rice, beef} |-> IF i = beef THEN 2 ELSE 0]}
Both == {[i \in {rice, beef} |-> 1]}

\* A dear lot and a cheap one, so that averages are rounded.
DearAndCheap == {[qty |-> 1, cost |-> 7], [qty |-> 2, cost |-> 2]}
OneLot == {[qty |-> 2, cost |-> 5]}

Symmetry == Permutations(Calls) \cup Permutations(Branches)
=============================================================================
