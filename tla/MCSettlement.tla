---------------------------- MODULE MCSettlement ----------------------------
(* Constants for model checking Settlement. *)
EXTENDS Settlement, TLC

\* Every bill costs the same and every transfer pays one: the memo decides.
SameTotal == [b \in Bills |-> 2]
SameAmount == [t \in Transfers |-> 2]

\* The first transfer names one bill, the others every bill.
FirstTransfer == CHOOSE t \in Transfers : TRUE
FirstBill == CHOOSE b \in Bills : TRUE
Memos == [t \in Transfers |-> IF t = FirstTransfer THEN {FirstBill} ELSE Bills]

CallSymmetry == Permutations(Calls)
=============================================================================
