----------------------------- MODULE MCCheckout -----------------------------
(* Constants for model checking Checkout. *)
EXTENDS Checkout
=============================================================================
