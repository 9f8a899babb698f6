----------------------------- MODULE MCPricing -----------------------------
(* Constants for model checking Pricing. *)
EXTENDS Pricing

MCDesks ==
    {[createWindow |-> 2, updateWindow |-> 1, sell |-> 1],
     [createVersion |-> 2, upsertCell |-> 1],
     [createVersion |-> 1, upsertCell |-> 1, sell |-> 1],
     [createVersion |-> 1, upsertCell |-> 2],
     [createVersion |-> 1, refresh |-> 1, sync |-> 1],
     [createWindow |-> 1, refresh |-> 1, sync |-> 1],
     [setHolidays |-> 2, sell |-> 1],
     [setHolidays |-> 1, sync |-> 2],
     [redeem |-> 2, deactivate |-> 1, sell |-> 1],
     [redeem |-> 1, sell |-> 2]}
=============================================================================
