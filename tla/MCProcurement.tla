--------------------------- MODULE MCProcurement ---------------------------
(* Constants for model checking Procurement. *)
EXTENDS Procurement, TLC

CallSymmetry == Permutations(Calls)
=============================================================================
