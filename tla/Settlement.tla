----------------------------- MODULE Settlement -----------------------------
(***************************************************************************)
(* The money of bills that are already in the ledger: manual payments,     *)
(* refunds, cancels, bank transfers that confirm a bill, and the close of  *)
(* the shift that counts the cash.                                         *)
(*                                                                         *)
(* Every service call reads outside its transaction, opens a transaction   *)
(* at READ COMMITTED, reads again, writes (an UPDATE takes the row's lock  *)
(* and waits for it) and commits.  Each of those is an action, so calls    *)
(* interleave as the API lets them; raced remembers the bills on which     *)
(* they did, so that properties can say what overlap can break.            *)
(***************************************************************************)
EXTENDS Integers, FiniteSets, FiniteSetsExt

CONSTANTS
    Bills,          \* bills of one shift, COMPLETED and unpaid at the start
    Transfers,      \* bank transfers, by provider transaction id
    Calls,
    TotalVnd,       \* [Bills -> amount]
    AmountVnd,      \* [Transfers -> amount]
    Memo,           \* [Transfers -> the bills whose number the content holds]
    CashPart,       \* the cash amounts a payment request may split off
    RefundAmounts,
    Shift,          \* the shift, as a row that calls can clash on
    None

ASSUME AmountsType ==
    /\ TotalVnd \in [Bills -> Nat \ {0}]
    /\ AmountVnd \in [Transfers -> Nat \ {0}]
    /\ Memo \in [Transfers -> SUBSET Bills]
    /\ CashPart \subseteq Nat /\ RefundAmounts \subseteq Nat \ {0}
ASSUME NoneDistinct == None \notin Calls \cup Transfers

VARIABLES
    bill,       \* bill[b] : [status, paid]
    payments,   \* payment rows, one record per confirming call
    refunds,    \* refund rows
    bank,       \* bank[t] : [status, bill]
    shift,      \* [status, expected] of the shift all bills belong to
    lock,       \* row locks on bills and bank transactions
    pc, arg,    \* the calls: where they are and what they were asked
    seen,       \* what a call read in its transaction and uses later
    raced       \* history: rows on which two calls were in flight together

rows  == <<bill, payments, refunds, bank, shift>>
vars  == <<rows, lock, pc, arg, seen, raced>>

-----------------------------------------------------------------------------
Requests ==
    [op : {"pay"}, bill : Bills, cash : CashPart]
      \cup [op : {"refund"}, bill : Bills, amount : RefundAmounts]
      \cup [op : {"cancel"}, bill : Bills]
      \cup [op : {"ingest", "ignore"}, transfer : Transfers]
      \cup [op : {"match"}, transfer : Transfers, bill : Bills]
      \cup [op : {"close", "forceClose"}]

Busy == {c \in Calls : pc[c] \notin {"idle", "done"}}

\* The rows two requests meet on: a bill both name, or the shift when one of
\* them ends it and the other ends it or moves its money too.
Named(r) ==
    IF "bill" \in DOMAIN r THEN {r.bill}
    ELSE IF r.op = "ingest" THEN Memo[r.transfer] ELSE {}
Ends(r) == r.op \in {"close", "forceClose"}
Counted(r) == Ends(r) \/ r.op \in {"pay", "cancel"}
Clash(r, q) ==
    (Named(r) \cap Named(q))
      \cup {s \in {Shift} : (Ends(r) /\ Counted(q)) \/ (Counted(r) /\ Ends(q))}

PaymentsOf(b) == {p \in payments : p.bill = b}
Refunded(b) ==
    FoldSet(LAMBDA r, sum : r.amount + sum, 0, {r \in refunds : r.bill = b})

\* The close's aggregate: CASH rows of COMPLETED bills of the shift.
CashTaken ==
    FoldSet(LAMBDA p, sum : p.cash + sum, 0,
            {p \in payments : bill[p.bill].status = "COMPLETED"})

Init ==
    /\ bill = [b \in Bills |-> [status |-> "COMPLETED", paid |-> FALSE]]
    /\ payments = {}
    /\ refunds = {}
    /\ bank = [t \in Transfers |-> [status |-> "absent", bill |-> None]]
    /\ shift = [status |-> "OPEN", expected |-> None]
    /\ lock = [r \in Bills \cup Transfers |-> None]
    /\ pc = [c \in Calls |-> "idle"]
    /\ arg = [c \in Calls |-> None]
    /\ seen = [c \in Calls |-> None]
    /\ raced = {}

-----------------------------------------------------------------------------
(***************************************************************************)
(* Steps shared by the handlers.                                           *)
(***************************************************************************)
At(c, op, where) == pc[c] = where /\ arg[c].op = op
Goto(c, where) == pc' = [pc EXCEPT ![c] = where]

Free(c, row) == lock[row] \in {None, c}
Take(c, row) == lock' = [lock EXCEPT ![row] = c]
Release(c) == lock' = [r \in DOMAIN lock |-> IF lock[r] = c THEN None ELSE lock[r]]

\* A request arrives; guards on its own fields are those of the DTO checks.
Receive(c, r) ==
    /\ pc[c] = "idle"
    /\ r.op = "pay" => r.cash <= TotalVnd[r.bill]
    /\ Goto(c, "received")
    /\ arg' = [arg EXCEPT ![c] = r]
    /\ raced' = raced \cup UNION {Clash(r, arg[d]) : d \in Busy}
    /\ UNCHANGED <<rows, lock, seen>>

\* An HTTP error before the transaction, a rollback or a crash inside it.
Fail(c) ==
    /\ pc[c] \notin {"idle", "done"}
    /\ Release(c)
    /\ Goto(c, "done")
    /\ UNCHANGED <<rows, arg, seen, raced>>

\* Commit: the writes given by the handler become visible, locks are free.
End(c) == Release(c) /\ Goto(c, "done") /\ UNCHANGED <<arg, seen, raced>>

\* Mutated forms: each looks at one of the two conditions only.
PayableByStatus(b) == bill[b].status = "COMPLETED"
PayableUnpaid(b) == ~bill[b].paid
Payable(b) == bill[b].status = "COMPLETED" /\ ~bill[b].paid

-----------------------------------------------------------------------------
(***************************************************************************)
(* addPayments                                                             *)
(***************************************************************************)
CheckPay(c) ==
    /\ At(c, "pay", "received")
    /\ Payable(arg[c].bill)
    /\ Goto(c, "checked")
    /\ UNCHANGED <<rows, lock, arg, seen, raced>>

\* The re-read inside the transaction looks at paidAt only and locks nothing.
RereadPay(c) ==
    /\ At(c, "pay", "checked")
    /\ ~bill[arg[c].bill].paid
    /\ Goto(c, "reread")
    /\ UNCHANGED <<rows, lock, arg, seen, raced>>

\* INSERT the rows, then UPDATE bill.paidAt, which takes the row lock.
WritePay(c) ==
    /\ At(c, "pay", "reread")
    /\ Free(c, arg[c].bill)
    /\ Take(c, arg[c].bill)
    /\ Goto(c, "written")
    /\ UNCHANGED <<rows, arg, seen, raced>>

\* Mutated form: paidAt is not set.
CommitPayUnmarked(c) ==
    /\ At(c, "pay", "written")
    /\ payments' = payments \cup
          {[by |-> c, bill |-> arg[c].bill, transfer |-> None,
            cash |-> arg[c].cash, amount |-> TotalVnd[arg[c].bill]]}
    /\ End(c)
    /\ UNCHANGED <<bill, refunds, bank, shift>>

CommitPay(c) ==
    /\ At(c, "pay", "written")
    /\ payments' = payments \cup
          {[by |-> c, bill |-> arg[c].bill, transfer |-> None,
            cash |-> arg[c].cash, amount |-> TotalVnd[arg[c].bill]]}
    /\ bill' = [bill EXCEPT ![arg[c].bill].paid = TRUE]
    /\ End(c)
    /\ UNCHANGED <<refunds, bank, shift>>

(***************************************************************************)
(* refundBill                                                              *)
(***************************************************************************)
CheckRefund(c) ==
    /\ At(c, "refund", "received")
    /\ bill[arg[c].bill] = [status |-> "COMPLETED", paid |-> TRUE]
    /\ Goto(c, "checked")
    /\ UNCHANGED <<rows, lock, arg, seen, raced>>

\* Mutated form: every refund is compared with the total on its own.
SumRefundsAlone(c) ==
    /\ At(c, "refund", "checked")
    /\ arg[c].amount <= TotalVnd[arg[c].bill]
    /\ Goto(c, "summed")
    /\ UNCHANGED <<rows, lock, arg, seen, raced>>

\* findMany of the committed refunds and the comparison with the total; the
\* manager's PIN is verified after it.
SumRefunds(c) ==
    /\ At(c, "refund", "checked")
    /\ Refunded(arg[c].bill) + arg[c].amount <= TotalVnd[arg[c].bill]
    /\ Goto(c, "summed")
    /\ UNCHANGED <<rows, lock, arg, seen, raced>>

CommitRefund(c) ==
    /\ At(c, "refund", "summed")
    /\ refunds' = refunds \cup
          {[by |-> c, bill |-> arg[c].bill, amount |-> arg[c].amount]}
    /\ End(c)
    /\ UNCHANGED <<bill, payments, bank, shift>>

(***************************************************************************)
(* cancelBill, without the stock it returns (see BillLedger).              *)
(***************************************************************************)
CheckCancel(c) ==
    /\ At(c, "cancel", "received")
    /\ bill[arg[c].bill].status = "COMPLETED"
    /\ shift.status = "OPEN"
    /\ Goto(c, "checked")
    /\ UNCHANGED <<rows, lock, arg, seen, raced>>

WriteCancel(c) ==
    /\ At(c, "cancel", "checked")
    /\ Free(c, arg[c].bill)
    /\ Take(c, arg[c].bill)
    /\ Goto(c, "written")
    /\ UNCHANGED <<rows, arg, seen, raced>>

CommitCancel(c) ==
    /\ At(c, "cancel", "written")
    /\ bill' = [bill EXCEPT ![arg[c].bill].status = "CANCELLED"]
    /\ End(c)
    /\ UNCHANGED <<payments, refunds, bank, shift>>

-----------------------------------------------------------------------------
(***************************************************************************)
(* Bank transfers.                                                         *)
(***************************************************************************)
Candidates(t) ==
    {b \in Memo[t] : Payable(b) /\ TotalVnd[b] = AmountVnd[t]}

\* ingest: a delivery of a transfer already stored is answered at once.
LookupTransfer(c) ==
    /\ At(c, "ingest", "received")
    /\ IF bank[arg[c].transfer].status = "absent" THEN Goto(c, "checked")
                                                  ELSE Goto(c, "done")
    /\ UNCHANGED <<rows, lock, arg, seen, raced>>

\* INSERT of the UNMATCHED row, waiting for a concurrent delivery of the same
\* (provider, providerTxId) and giving up (P2002) when that one committed; then
\* tryAutoMatch reads the candidates.
StoreTransfer(c) ==
    /\ At(c, "ingest", "checked")
    /\ Free(c, arg[c].transfer)
    /\ IF bank[arg[c].transfer].status # "absent"
       THEN Goto(c, "done") /\ UNCHANGED <<lock, seen>>
       ELSE /\ Take(c, arg[c].transfer)
            /\ \/ /\ Cardinality(Candidates(arg[c].transfer)) = 1
                  /\ seen' = [seen EXCEPT ![c] =
                        CHOOSE b \in Candidates(arg[c].transfer) : TRUE]
                  /\ Goto(c, "locked")
               \/ /\ Cardinality(Candidates(arg[c].transfer)) # 1
                  /\ Goto(c, "unmatched")
                  /\ UNCHANGED seen
    /\ UNCHANGED <<rows, arg, raced>>

\* No single candidate, or applyPayment returned false: kept for review.
CommitUnmatched(c) ==
    /\ At(c, "ingest", "unmatched")
    /\ bank' = [bank EXCEPT ![arg[c].transfer].status = "UNMATCHED"]
    /\ End(c)
    /\ UNCHANGED <<bill, payments, refunds, shift>>

\* matchToBill: the checks before its transaction.
CheckMatch(c) ==
    /\ At(c, "match", "received")
    /\ bank[arg[c].transfer].status \in {"UNMATCHED", "IGNORED"}
    /\ Payable(arg[c].bill)
    /\ TotalVnd[arg[c].bill] = AmountVnd[arg[c].transfer]
    /\ Goto(c, "checked")
    /\ UNCHANGED <<rows, lock, arg, seen, raced>>

\* Mutated form: the status is not looked at again under the lock.
LockTransferOnly(c) ==
    /\ At(c, "match", "checked")
    /\ Free(c, arg[c].transfer)
    /\ Take(c, arg[c].transfer)
    /\ seen' = [seen EXCEPT ![c] = arg[c].bill]
    /\ Goto(c, "locked")
    /\ UNCHANGED <<rows, arg, raced>>

\* applyPayment: SELECT ... FOR UPDATE of the transfer, still UNMATCHED.
LockTransfer(c) ==
    /\ At(c, "match", "checked")
    /\ Free(c, arg[c].transfer)
    /\ bank[arg[c].transfer].status = "UNMATCHED"
    /\ Take(c, arg[c].transfer)
    /\ seen' = [seen EXCEPT ![c] = arg[c].bill]
    /\ Goto(c, "locked")
    /\ UNCHANGED <<rows, arg, raced>>

\* applyPayment re-reads the bill, without a lock; false ends an automatic
\* match UNMATCHED and makes a manual one a conflict (Fail).
RereadBill(c) ==
    /\ pc[c] = "locked"
    /\ \/ Payable(seen[c]) /\ Goto(c, "reread")
       \/ ~Payable(seen[c]) /\ arg[c].op = "ingest" /\ Goto(c, "unmatched")
    /\ UNCHANGED <<rows, lock, arg, seen, raced>>

WriteMatch(c) ==
    /\ pc[c] = "reread" /\ arg[c].op \in {"ingest", "match"}
    /\ Free(c, seen[c])
    /\ Take(c, seen[c])
    /\ Goto(c, "written")
    /\ UNCHANGED <<rows, arg, seen, raced>>

CommitMatch(c) ==
    /\ pc[c] = "written" /\ arg[c].op \in {"ingest", "match"}
    /\ payments' = payments \cup
          {[by |-> c, bill |-> seen[c], transfer |-> arg[c].transfer,
            cash |-> 0, amount |-> TotalVnd[seen[c]]]}
    /\ bill' = [bill EXCEPT ![seen[c]].paid = TRUE]
    /\ bank' = [bank EXCEPT ![arg[c].transfer] =
                    [status |-> "MATCHED", bill |-> seen[c]]]
    /\ End(c)
    /\ UNCHANGED <<refunds, shift>>

\* Mutated form: the UPDATE is by id only.
IgnoreAny(c) ==
    /\ At(c, "ignore", "received")
    /\ Free(c, arg[c].transfer)
    /\ bank' = [bank EXCEPT ![arg[c].transfer].status = "IGNORED"]
    /\ End(c)
    /\ UNCHANGED <<bill, payments, refunds, shift>>

\* ignore: one conditional UPDATE, re-evaluated once the row's lock is free.
Ignore(c) ==
    /\ At(c, "ignore", "received")
    /\ Free(c, arg[c].transfer)
    /\ bank[arg[c].transfer].status = "UNMATCHED"
    /\ bank' = [bank EXCEPT ![arg[c].transfer].status = "IGNORED"]
    /\ End(c)
    /\ UNCHANGED <<bill, payments, refunds, shift>>

-----------------------------------------------------------------------------
(***************************************************************************)
(* Closing the shift.  Neither way locks it; the UPDATE is by id only.     *)
(***************************************************************************)
\* Mutated form: any shift may be closed.
CheckCloseAny(c) ==
    /\ pc[c] = "received" /\ arg[c].op \in {"close", "forceClose"}
    /\ Goto(c, "checked")
    /\ UNCHANGED <<rows, lock, arg, seen, raced>>

CheckClose(c) ==
    /\ pc[c] = "received" /\ arg[c].op \in {"close", "forceClose"}
    /\ shift.status = "OPEN"
    /\ Goto(c, "checked")
    /\ UNCHANGED <<rows, lock, arg, seen, raced>>

\* Mutated form: the cash of cancelled bills is counted too.
SumAllCash(c) ==
    /\ At(c, "close", "checked")
    /\ seen' = [seen EXCEPT ![c] =
                    FoldSet(LAMBDA p, sum : p.cash + sum, 0, payments)]
    /\ Goto(c, "summed")
    /\ UNCHANGED <<rows, lock, arg, raced>>

\* The opening float is left out: expected is the cash taken.
SumCash(c) ==
    /\ At(c, "close", "checked")
    /\ seen' = [seen EXCEPT ![c] = CashTaken]
    /\ Goto(c, "summed")
    /\ UNCHANGED <<rows, lock, arg, raced>>

\* Mutated form: the expected cash is not stored.
CommitCloseUncounted(c) ==
    /\ At(c, "close", "summed")
    /\ shift' = [shift EXCEPT !.status = "CLOSED"]
    /\ End(c)
    /\ UNCHANGED <<bill, payments, refunds, bank>>

CommitClose(c) ==
    /\ At(c, "close", "summed")
    /\ shift' = [status |-> "CLOSED", expected |-> seen[c]]
    /\ End(c)
    /\ UNCHANGED <<bill, payments, refunds, bank>>

CommitForceClose(c) ==
    /\ At(c, "forceClose", "checked")
    /\ shift' = [shift EXCEPT !.status = "FORCE_CLOSED"]
    /\ End(c)
    /\ UNCHANGED <<bill, payments, refunds, bank>>

-----------------------------------------------------------------------------
Idle ==
    /\ \A c \in Calls : pc[c] = "done"
    /\ UNCHANGED vars

Serve(c) ==
    \/ CheckPay(c) \/ RereadPay(c) \/ WritePay(c) \/ CommitPay(c)
    \/ CheckRefund(c) \/ SumRefunds(c) \/ CommitRefund(c)
    \/ CheckCancel(c) \/ WriteCancel(c) \/ CommitCancel(c)
    \/ LookupTransfer(c) \/ StoreTransfer(c) \/ CommitUnmatched(c)
    \/ CheckMatch(c) \/ LockTransfer(c) \/ RereadBill(c)
    \/ WriteMatch(c) \/ CommitMatch(c) \/ Ignore(c)
    \/ CheckClose(c) \/ SumCash(c) \/ CommitClose(c) \/ CommitForceClose(c)

Next ==
    \/ \E c \in Calls : (\E r \in Requests : Receive(c, r)) \/ Serve(c) \/ Fail(c)
    \/ Idle

Spec == Init /\ [][Next]_vars

-----------------------------------------------------------------------------
TypeOK ==
    /\ bill \in [Bills -> [status : {"COMPLETED", "CANCELLED"}, paid : BOOLEAN]]
    /\ payments \subseteq
          [by : Calls, bill : Bills, transfer : Transfers \cup {None},
           cash : Nat, amount : Nat]
    /\ refunds \subseteq [by : Calls, bill : Bills, amount : Nat]
    /\ bank \in [Transfers ->
          [status : {"absent", "UNMATCHED", "MATCHED", "IGNORED"},
           bill : Bills \cup {None}]]
    /\ shift \in [status : {"OPEN", "FORCE_CLOSED"}, expected : Nat \cup {None}]
                  \cup [status : {"CLOSED"}, expected : Nat]
    /\ lock \in [Bills \cup Transfers -> Calls \cup {None}]
    /\ pc \in [Calls -> {"idle", "received", "checked", "reread", "summed",
                         "locked", "unmatched", "written", "done"}]
    /\ arg \in [Calls -> Requests \cup {None}]
    /\ seen \in [Calls -> Nat \cup Bills \cup {None}]
    /\ raced \subseteq Bills \cup {Shift}

\* A transfer confirms one bill or none, and says so: MATCHED exactly when one
\* payment row carries it, on the bill it names, and never otherwise, although
\* webhooks are delivered twice and matched by hand at the same time
\* (bank-reconcile.service.ts applyPayment, "can't confirm two bills").
OneBillPerTransfer ==
    \A t \in Transfers :
        LET by == {p \in payments : p.transfer = t}
        IN  /\ bank[t].status = "MATCHED" => \E p \in by : p.bill = bank[t].bill
            /\ bank[t].status # "MATCHED" => by = {}
            /\ Cardinality(by) <= 1

\* A transfer that was decided (MATCHED to a bill, or IGNORED) stays decided:
\* the conditional UPDATE and the FOR UPDATE re-check exclude each other.
TransferDecidedOnce ==
    [][\A t \in Transfers :
          bank[t].status \in {"MATCHED", "IGNORED"} => bank'[t] = bank[t]]_vars

\* paidAt and the payment rows never part: a bill is marked paid exactly when
\* rows for its whole total exist, whatever rolls back half way, and only such
\* a bill is ever refunded.
PaidMeansPaid ==
    \A b \in Bills :
        /\ bill[b].paid <=> PaymentsOf(b) # {}
        /\ \A p \in PaymentsOf(b) : p.amount = TotalVnd[b]
        /\ Refunded(b) > 0 => bill[b].paid

\* A bill is paid once (payments.service.ts: "not already paid", "guard against
\* concurrent payment").
PaidOnce == \A b \in Bills : Cardinality(PaymentsOf(b)) <= 1

\* A bill is paid once, by hand or by a transfer, when no two calls on it were in
\* flight together, whatever the payments, transfers and cancels before: both
\* guards ask for paidAt (bank-reconcile.service.ts: "a concurrent manual payment
\* can't be doubled" is what the overlap breaks).
PaidOnceUnlessRaced == \A b \in Bills \ raced : Cardinality(PaymentsOf(b)) <= 1

\* Money is only taken for a COMPLETED bill, unless a cancel overlapped
\* (payments.service.ts: "Bill must be COMPLETED (not CANCELLED ...)").
PaidWhileCompleted ==
    [][\A p \in payments' \ payments :
          bill[p.bill].status = "COMPLETED" \/ p.bill \in raced]_vars

\* The refunds of a bill never exceed its total, unless two overlapped: the sum
\* is re-read in the transaction but nothing is locked (bills.service.ts: "two
\* concurrent refunds can't jointly exceed the total").
RefundsWithinTotal == \A b \in Bills \ raced : Refunded(b) <= TotalVnd[b]

\* What is in the payment and refund tables is what the bill says and costs.
MoneyAddsUp == PaidMeansPaid /\ PaidOnceUnlessRaced /\ RefundsWithinTotal

\* The cash a closed shift expects is the cash taken on its COMPLETED bills at
\* that moment, unless a payment, a cancel or another close overlapped the close
\* (shifts.service.ts: expectedCashVnd = opening + SUM(CASH ...)).
CloseCountsTheCash ==
    [][shift' # shift /\ shift'.status = "CLOSED" /\ Shift \notin raced =>
          shift'.expected = CashTaken]_vars

\* A shift is closed or force-closed once, unless two of them overlapped
\* (shifts.service.ts refuses a shift that is not OPEN).
ShiftEndsOnce ==
    [][shift.status # "OPEN" /\ Shift \notin raced => shift' = shift]_vars

\* What was decided stands: a transfer's match, a bill's cancellation and a
\* shift's end are not worked on as if they had not been.
DecidedStaysDecided == TransferDecidedOnce /\ PaidWhileCompleted /\ ShiftEndsOnce
=============================================================================
