---------------------------- MODULE MCBillLedger ----------------------------
(* Constants for model checking BillLedger. *)
EXTENDS BillLedger, TLC

\* Every shift belongs to one branch; the other branches of an instance are
\* those a request may name by mistake.
HomeBranch == CHOOSE b \in Branches : TRUE
ShiftsAtHome == [s \in Shifts |-> HomeBranch]

Symmetry == Permutations(Calls) \cup Permutations(Cancels)
=============================================================================
