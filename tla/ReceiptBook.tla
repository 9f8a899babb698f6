---------------------------- MODULE ReceiptBook ----------------------------
(***************************************************************************)
(* What the ledger promises the accountants: one book of receipts for each *)
(* (branch, business date), written one page after another.  Pages are     *)
(* never torn out, reordered or shared; a receipt may be stamped void, and *)
(* then it keeps its page.                                                 *)
(***************************************************************************)
EXTENDS Naturals, Sequences

CONSTANTS Books, Receipts

VARIABLES
    pages,      \* pages[k] : the receipts of book k, in the order issued
    voided      \* the receipts stamped void

Written(k) == {pages[k][n] : n \in 1..Len(pages[k])}

Init ==
    /\ pages = [k \in Books |-> << >>]
    /\ voided = {}

Issue(k, r) ==
    /\ \A other \in Books : r \notin Written(other)
    /\ pages' = [pages EXCEPT ![k] = Append(@, r)]
    /\ UNCHANGED voided

Void(k, r) ==
    /\ r \in Written(k) \ voided
    /\ voided' = voided \cup {r}
    /\ UNCHANGED pages

Next == \E k \in Books, r \in Receipts : Issue(k, r) \/ Void(k, r)

Spec == Init /\ [][Next]_<<pages, voided>>
=============================================================================
