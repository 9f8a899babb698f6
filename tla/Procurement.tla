---------------------------- MODULE Procurement ----------------------------
(***************************************************************************)
(* From a purchase order to the money paid for it: the order's life cycle, *)
(* the receipt that turns it into a debt, the payments of that debt and    *)
(* the income/expense entries they book, all of one branch.                *)
(*                                                                         *)
(* Every handler reads the row, checks it, and only then opens the         *)
(* transaction that writes it by id.  A call is in flight from that first  *)
(* read to its commit; raced remembers the rows on which two calls were in *)
(* flight together, so that properties can say what overlap can break.     *)
(***************************************************************************)
EXTENDS Integers, FiniteSets, FiniteSetsExt

CONSTANTS
    Calls,
    LineVnd,        \* what an order's lines, or a delivery, may be worth
    PayVnd,         \* what a payment request may ask
    ThresholdVnd,   \* branch.poApprovalThresholdVnd
    MaxAttempts,    \* tries of a code allocation: 5 in the code
    FirstOrder, FirstPayable, FirstEdit,    \* what is there at the start
    FirstVnd,       \* the first payable's amount
    None

ASSUME AmountsType ==
    /\ LineVnd \subseteq Nat /\ PayVnd \subseteq Nat \ {0}
    /\ ThresholdVnd \in Nat /\ FirstVnd \in Nat
ASSUME AttemptsType == MaxAttempts \in Nat \ {0}
ASSUME NamesDiffer == {FirstOrder, FirstPayable, FirstEdit, None} \cap Calls = {}

Orders   == Calls \cup {FirstOrder}        \* an order is named by its createCall
Payables == Calls \cup {FirstPayable}      \* a payable by the receipt

VARIABLES
    order,      \* order[o] : the row, or None
    payable,    \* payable[p] : the row, or None
    entries,    \* financial_transaction rows
    at, req,    \* the calls: where they are and what they were asked
    seen,       \* what a call read and will use later
    attempt,    \* tries of its code allocation so far
    raced       \* history: rows on which two calls were in flight together

rows == <<order, payable, entries>>
vars == <<rows, at, req, seen, attempt, raced>>

-----------------------------------------------------------------------------
Line(c, v) == [by |-> c, vnd |-> v]
Total(o) == FoldSet(LAMBDA l, sum : l.vnd + sum, 0, order[o].lines)
NeedsApproval(o) == Total(o) > ThresholdVnd

Filed == {o \in Orders : order[o] # None}
Owed  == {p \in Payables : payable[p] # None}
PayablesOf(o) == {p \in Owed : payable[p].order = o}
Booked(p) ==
    FoldSet(LAMBDA e, sum : e.vnd + sum, 0, {e \in entries : e.payable = p})

Requests ==
    [op : {"createOrder"}, vnd : LineVnd]
      \cup [op : {"update"}, row : Orders, vnd : LineVnd]
      \cup [op : {"approve", "reject", "send", "cancel"}, row : Orders]
      \cup [op : {"receive"}, row : Orders, vnd : LineVnd \cup {None}]
      \cup [op : {"pay"}, row : Payables, vnd : PayVnd]
      \cup [op : {"createEntry"}]

\* The branch has one order and, from an earlier one, an unpaid payable.
FirstOrders ==
    {r \in [status : {"DRAFT", "APPROVED", "SENT"}, approved : BOOLEAN, code : {1},
            lines : {{Line(FirstEdit, v)} : v \in LineVnd}] :
        /\ r.status = "DRAFT" => ~r.approved
        /\ r.status = "APPROVED" => r.approved
        /\ r.status = "SENT" =>
              r.approved \/ \A l \in r.lines : l.vnd <= ThresholdVnd}

Init ==
    /\ \E r \in FirstOrders :
          order = [o \in Orders |-> IF o = FirstOrder THEN r ELSE None]
    /\ payable = [p \in Payables |-> IF p # FirstPayable THEN None ELSE
          [order |-> None, vnd |-> FirstVnd, paid |-> 0, status |-> "OPEN"]]
    /\ entries = {}
    /\ at = [c \in Calls |-> "idle"]
    /\ req = [c \in Calls |-> None]
    /\ seen = [c \in Calls |-> None]
    /\ attempt = [c \in Calls |-> 0]
    /\ raced = {}

-----------------------------------------------------------------------------
(***************************************************************************)
(* Steps shared by the handlers.                                           *)
(***************************************************************************)
InFlight(row) ==
    {c \in Calls : at[c] \notin {"idle", "done"} /\ "row" \in DOMAIN req[c]
                      /\ req[c].row = row}

Goto(c, where) == at' = [at EXCEPT ![c] = where]

\* A request passed the checks of its handler on the row as it is now.
Begin(c, r, where, read) ==
    /\ at[c] = "idle"
    /\ Goto(c, where)
    /\ req' = [req EXCEPT ![c] = r]
    /\ seen' = [seen EXCEPT ![c] = read]
    /\ raced' = IF "row" \in DOMAIN r /\ InFlight(r.row) # {}
                THEN raced \cup {r.row} ELSE raced
    /\ UNCHANGED <<rows, attempt>>

At(c, op, where) == at[c] = where /\ req[c].op = op

\* The call is over; a name of a row stays with it only while it is in flight.
End(c) ==
    /\ Goto(c, "done")
    /\ req' = [req EXCEPT ![c] = None]
    /\ seen' = [seen EXCEPT ![c] = None]
    /\ attempt' = [attempt EXCEPT ![c] = 0]
    /\ UNCHANGED raced

\* A wrong PIN, a refusal inside the transaction, a failure or a crash.
Fail(c) ==
    /\ at[c] \notin {"idle", "done"}
    /\ End(c)
    /\ UNCHANGED rows

-----------------------------------------------------------------------------
(***************************************************************************)
(* create: the code is the count of the branch's orders plus one, and the  *)
(* unique index decides.                                                   *)
(***************************************************************************)
CreateOrder(c, v) ==
    Begin(c, [op |-> "createOrder", vnd |-> v], "counting", None)

CountOrders(c) ==
    /\ At(c, "createOrder", "counting")
    /\ seen' = [seen EXCEPT ![c] = Cardinality(Filed)]
    /\ Goto(c, "counted")
    /\ UNCHANGED <<rows, req, attempt, raced>>

\* The code is taken: P2002.
CollideOrders(c) == \E o \in Filed : order[o].code = seen[c] + 1

RetryOneMore(c) ==
    /\ attempt' = [attempt EXCEPT ![c] = @ + 1]
    /\ Goto(c, "counting")
    /\ UNCHANGED <<rows, req, seen, raced>>

\* After a taken code: the next attempt, or the error after the last one.
Retry(c) ==
    \/ /\ attempt[c] + 1 < MaxAttempts
       /\ attempt' = [attempt EXCEPT ![c] = @ + 1]
       /\ Goto(c, "counting")
       /\ UNCHANGED <<rows, req, seen, raced>>
    \/ /\ attempt[c] + 1 = MaxAttempts
       /\ End(c)
       /\ UNCHANGED rows

\* Mutated form: there is no unique index on code.
InsertOrderAnyCode(c) ==
    /\ At(c, "createOrder", "counted")
    /\ order' = [order EXCEPT ![c] =
          [status |-> "DRAFT", approved |-> FALSE, code |-> seen[c] + 1,
           lines |-> {Line(c, req[c].vnd)}]]
    /\ End(c)
    /\ UNCHANGED <<payable, entries>>

InsertOrder(c) ==
    /\ At(c, "createOrder", "counted")
    /\ \/ CollideOrders(c) /\ Retry(c)
       \/ /\ ~CollideOrders(c)
          /\ order' = [order EXCEPT ![c] =
                [status |-> "DRAFT", approved |-> FALSE, code |-> seen[c] + 1,
                 lines |-> {Line(c, req[c].vnd)}]]
          /\ End(c)
          /\ UNCHANGED <<payable, entries>>

(***************************************************************************)
(* The transitions: a check of the status read, then an UPDATE by id.      *)
(***************************************************************************)
Is(o, statuses) == o \in Filed /\ order[o].status \in statuses
Ask(op, o) == [op |-> op, row |-> o]

CheckApprove(c, o) ==
    /\ Is(o, {"DRAFT"})
    /\ Begin(c, Ask("approve", o), "checked", None)

CheckReject(c, o) ==
    /\ Is(o, {"APPROVED"})
    /\ Begin(c, Ask("reject", o), "checked", None)

\* Mutated form: the total is not compared with the threshold.
CheckSendAny(c, o) ==
    /\ Is(o, {"DRAFT", "APPROVED"})
    /\ Begin(c, Ask("send", o), "checked", None)

CheckSend(c, o) ==
    /\ Is(o, {"DRAFT", "APPROVED"})
    /\ NeedsApproval(o) => order[o].status = "APPROVED"
    /\ Begin(c, Ask("send", o), "checked", None)

\* Mutated form: any order may be cancelled.
CheckCancelAny(c, o) ==
    /\ o \in Filed
    /\ Begin(c, Ask("cancel", o), "checked", None)

CheckCancel(c, o) ==
    /\ Is(o, {"DRAFT", "APPROVED", "SENT"})
    /\ Begin(c, Ask("cancel", o), "checked", None)

Becomes(op, row) ==
    CASE op = "approve" -> [row EXCEPT !.status = "APPROVED", !.approved = TRUE]
      [] op = "reject"  -> [row EXCEPT !.status = "DRAFT", !.approved = FALSE]
      [] op = "send"    -> [row EXCEPT !.status = "SENT"]
      [] op = "cancel"  -> [row EXCEPT !.status = "CANCELLED"]

CommitStatus(c) ==
    /\ at[c] = "checked" /\ req[c].op \in {"approve", "reject", "send", "cancel"}
    /\ order' = [order EXCEPT ![req[c].row] = Becomes(req[c].op, @)]
    /\ End(c)
    /\ UNCHANGED <<payable, entries>>

(***************************************************************************)
(* update with new lines.  Its DELETE removes the lines its statement      *)
(* could see: those of an edit that commits while it waits stay.           *)
(***************************************************************************)
CheckUpdate(c, o, v) ==
    /\ Is(o, {"DRAFT"})
    /\ Begin(c, [op |-> "update", row |-> o, vnd |-> v], "checked", None)

DeleteLines(c) ==
    /\ At(c, "update", "checked")
    /\ seen' = [seen EXCEPT ![c] = order[req[c].row].lines]
    /\ Goto(c, "deleted")
    /\ UNCHANGED <<rows, req, attempt, raced>>

\* Mutated form: the old lines are kept.
CommitUpdateAdding(c) ==
    /\ At(c, "update", "deleted")
    /\ order' = [order EXCEPT ![req[c].row].lines = @ \cup {Line(c, req[c].vnd)}]
    /\ End(c)
    /\ UNCHANGED <<payable, entries>>

\* Two edits that deleted the same lines commit in the order of their row
\* locks; either order leaves the lines of both.
CommitUpdate(c) ==
    /\ At(c, "update", "deleted")
    /\ order' = [order EXCEPT ![req[c].row].lines =
                    (@ \ seen[c]) \cup {Line(c, req[c].vnd)}]
    /\ End(c)
    /\ UNCHANGED <<payable, entries>>

(***************************************************************************)
(* receive: the value is that of the lines read with the status, or what   *)
(* the delivery said.  The stock it books is StockLedger.                  *)
(***************************************************************************)
\* Mutated form: a received order may be received again.
CheckReceiveAgain(c, o, v) ==
    /\ Is(o, {"SENT", "RECEIVED"})
    /\ Begin(c, [op |-> "receive", row |-> o, vnd |-> v], "checked",
             IF v = None THEN Total(o) ELSE v)

CheckReceive(c, o, v) ==
    /\ Is(o, {"SENT"})
    /\ Begin(c, [op |-> "receive", row |-> o, vnd |-> v], "checked",
             IF v = None THEN Total(o) ELSE v)

CommitReceive(c) ==
    /\ At(c, "receive", "checked")
    /\ order' = [order EXCEPT ![req[c].row].status = "RECEIVED"]
    /\ payable' = [payable EXCEPT ![c] =
          [order |-> req[c].row, vnd |-> seen[c], paid |-> 0, status |-> "OPEN"]]
    /\ End(c)
    /\ UNCHANGED entries

-----------------------------------------------------------------------------
(***************************************************************************)
(* Finance: thu-chi entries, and paySupplier, which books one and adds it  *)
(* to the paidVnd it read before its transaction.                          *)
(***************************************************************************)
CreateEntry(c) == Begin(c, [op |-> "createEntry"], "counting", None)

\* Mutated form: the amount is not compared with what is still owed.
CheckPayAny(c, p, v) ==
    /\ p \in Owed /\ payable[p].status # "PAID"
    /\ Begin(c, [op |-> "pay", row |-> p, vnd |-> v], "counting",
             [paid |-> payable[p].paid])

CheckPay(c, p, v) ==
    /\ p \in Owed /\ payable[p].status # "PAID"
    /\ v <= payable[p].vnd - payable[p].paid
    /\ Begin(c, [op |-> "pay", row |-> p, vnd |-> v], "counting",
             [paid |-> payable[p].paid])

CountEntries(c) ==
    /\ at[c] = "counting" /\ req[c].op \in {"createEntry", "pay"}
    /\ seen' = [seen EXCEPT ![c] =
          [count |-> Cardinality(entries),
           paid |-> IF req[c].op = "pay" THEN seen[c].paid ELSE 0]]
    /\ Goto(c, "counted")
    /\ UNCHANGED <<rows, req, attempt, raced>>

CollideEntries(c) == \E e \in entries : e.code = seen[c].count + 1

InsertEntry(c) ==
    /\ At(c, "createEntry", "counted")
    /\ \/ CollideEntries(c) /\ Retry(c)
       \/ /\ ~CollideEntries(c)
          /\ entries' = entries \cup {[by |-> c, code |-> seen[c].count + 1,
                                       payable |-> None, vnd |-> 0]}
          /\ End(c)
          /\ UNCHANGED <<order, payable>>

PaidUpTo(row, paid) ==
    [row EXCEPT !.paid = paid,
                !.status = IF paid >= row.vnd THEN "PAID" ELSE "OPEN"]

\* Mutated form: the UPDATE survives when the entry's code is taken.
CommitPayUnbooked(c) ==
    /\ At(c, "pay", "counted")
    /\ payable' = [payable EXCEPT ![req[c].row] = PaidUpTo(@, seen[c].paid + req[c].vnd)]
    /\ entries' = IF CollideEntries(c) THEN entries
                  ELSE entries \cup {[by |-> c, code |-> seen[c].count + 1,
                                      payable |-> req[c].row, vnd |-> req[c].vnd]}
    /\ End(c)
    /\ UNCHANGED order

CommitPay(c) ==
    /\ At(c, "pay", "counted")
    /\ ~CollideEntries(c)
    /\ entries' = entries \cup {[by |-> c, code |-> seen[c].count + 1,
                                 payable |-> req[c].row, vnd |-> req[c].vnd]}
    /\ payable' = [payable EXCEPT ![req[c].row] = PaidUpTo(@, seen[c].paid + req[c].vnd)]
    /\ End(c)
    /\ UNCHANGED order

\* A taken code is an error here: paySupplier does not retry.
RefusePay(c) ==
    /\ At(c, "pay", "counted")
    /\ CollideEntries(c)
    /\ End(c)
    /\ UNCHANGED rows

-----------------------------------------------------------------------------
Idle ==
    /\ \A c \in Calls : at[c] = "done"
    /\ UNCHANGED vars

Arrive(c) ==
    \/ \E v \in LineVnd : CreateOrder(c, v)
    \/ CreateEntry(c)
    \/ \E o \in Orders :
          \/ CheckApprove(c, o) \/ CheckReject(c, o)
          \/ CheckSend(c, o) \/ CheckCancel(c, o)
          \/ \E v \in LineVnd : CheckUpdate(c, o, v)
          \/ \E v \in LineVnd \cup {None} : CheckReceive(c, o, v)
    \/ \E p \in Payables, v \in PayVnd : CheckPay(c, p, v)

Serve(c) ==
    \/ CountOrders(c) \/ InsertOrder(c)
    \/ CommitStatus(c) \/ DeleteLines(c) \/ CommitUpdate(c) \/ CommitReceive(c)
    \/ CountEntries(c) \/ InsertEntry(c)
    \/ CommitPay(c) \/ RefusePay(c)

Next == (\E c \in Calls : Arrive(c) \/ Serve(c) \/ Fail(c)) \/ Idle

Spec == Init /\ [][Next]_vars

-----------------------------------------------------------------------------
OrderRows ==
    [status : {"DRAFT", "APPROVED", "SENT", "RECEIVED", "CANCELLED"},
     approved : BOOLEAN, code : Nat,
     lines : SUBSET [by : Calls \cup {FirstEdit}, vnd : LineVnd]]

PayableRows ==
    [order : Orders \cup {None}, vnd : Nat, paid : Nat, status : {"OPEN", "PAID"}]

\* A row that is not there is no row, and a payable of no order has none.
ASSUME NoneIsNoRow == None \notin OrderRows \cup PayableRows /\ None # FirstOrder

TypeOK ==
    /\ order \in [Orders -> OrderRows \cup {None}]
    /\ payable \in [Payables -> PayableRows \cup {None}]
    /\ entries \subseteq [by : Calls, code : Nat, vnd : Nat,
                          payable : Payables \cup {None}]
    /\ at \in [Calls -> {"idle", "checked", "deleted", "counting", "counted", "done"}]
    /\ req \in [Calls -> Requests \cup {None}]
    /\ attempt \in [Calls -> 0 .. MaxAttempts - 1]
    /\ raced \subseteq Orders \cup Payables

\* The codes of a branch's orders, and those of its entries, run from 1 without
\* a gap or a duplicate, although they are counted without a lock and a taken
\* one is found out by the unique index only (nextCode, isCodeCollision).
CodesGapless ==
    /\ {order[o].code : o \in Filed} = 1 .. Cardinality(Filed)
    /\ {e.code : e \in entries} = 1 .. Cardinality(entries)

\* A payable never claims more than was booked for it: two payments in flight
\* together can lose one from paidVnd, never invent one (paySupplier).
PaidIsBooked == \A p \in Owed : payable[p].paid <= Booked(p)

\* Payments never run past the debt in paidVnd, and PAID means exactly settled,
\* in whatever order stale amounts are written (paySupplier).
PaidWithinDebt ==
    \A p \in Owed :
        /\ payable[p].paid <= payable[p].vnd
        /\ payable[p].status = "PAID" <=>
              payable[p].paid = payable[p].vnd /\ payable[p].paid > 0

\* Payments of a payable that never overlapped add up ("increments paidVnd").
PaymentsAddUp ==
    \A p \in Owed \ raced : payable[p].paid = Booked(p)

\* The codes, the entries and the payables of a branch fit together.
BooksAddUp == CodesGapless /\ PaidIsBooked /\ PaidWithinDebt /\ PaymentsAddUp

\* An order over the branch's limit leaves for the supplier only with an
\* approval, and what was approved is what is sent, unless two calls on the order
\* overlapped (send: "An over-threshold PO must be APPROVED first").
LimitKept ==
    \A o \in Filed \ raced :
        order[o].status \in {"SENT", "RECEIVED"} /\ NeedsApproval(o)
            => order[o].approved

\* Goods of an order are owed for once, and exactly when it is RECEIVED, unless
\* two calls on the order overlapped (receive requires SENT).
OwedOnce ==
    \A o \in Filed \ raced :
        Cardinality(PayablesOf(o)) = IF order[o].status = "RECEIVED" THEN 1 ELSE 0

\* An order holds the lines of one edit (update deletes the old ones first);
\* two edits in flight together leave both.
LinesOfOneEdit ==
    \A o \in Filed \ raced : Cardinality(order[o].lines) = 1

\* An order leaves for the supplier as it was approved and is owed for as it was
\* received, neither twice nor after it was cancelled.
OrderKept == LimitKept /\ OwedOnce /\ LinesOfOneEdit
=============================================================================
