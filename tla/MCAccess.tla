------------------------------ MODULE MCAccess ------------------------------
(* Constants for model checking Access. *)
EXTENDS Access

\* The account's row with its Redis entry, and the PINs.
MCDesks ==
    {{"login", "request", "refresh", "revoke", "lock", "unlock", "resetPassword"},
     {"pinLogin", "approve", "resetPin", "setPin", "lock"}}
=============================================================================
