------------------------------ MODULE MCOutbox ------------------------------
(* Constants for model checking Outbox. *)
EXTENDS Outbox
=============================================================================
