-------------------------- MODULE Settlement_proofs --------------------------
(***************************************************************************)
(* Machine-checked proofs about Settlement, for every number of bills,     *)
(* transfers and calls, every total, memo, cash part and refund amount.    *)
(***************************************************************************)
EXTENDS Settlement, Sums

\* What each kind of request carries, and the bills it names.
LEMMA RequestFields ==
    ASSUME NEW r \in Requests
    PROVE  /\ r.op \in {"pay", "refund", "cancel", "ingest", "ignore", "match", "close",
                        "forceClose"}
           /\ r.op \in {"pay", "refund", "cancel", "match"} =>
                 r.bill \in Bills /\ Named(r) = {r.bill}
           /\ r.op = "pay" => r.cash \in Nat
           /\ r.op = "refund" => r.amount \in Nat \ {0}
           /\ r.op \in {"ingest", "ignore", "match"} => r.transfer \in Transfers
           /\ r.op = "ingest" => Named(r) = Memo[r.transfer] /\ Named(r) \subseteq Bills
<1>1. CASE r \in [op : {"pay"}, bill : Bills, cash : CashPart]
  BY <1>1, AmountsType DEF Named
<1>2. CASE r \in [op : {"refund"}, bill : Bills, amount : RefundAmounts]
  BY <1>2, AmountsType DEF Named
<1>3. CASE r \in [op : {"cancel"}, bill : Bills]
  BY <1>3 DEF Named
<1>4. CASE r \in [op : {"ingest", "ignore"}, transfer : Transfers]
  BY <1>4, AmountsType DEF Named
<1>5. CASE r \in [op : {"match"}, transfer : Transfers, bill : Bills]
  BY <1>5 DEF Named
<1>6. CASE r \in [op : {"close", "forceClose"}]
  BY <1>6
<1> QED
  BY <1>1, <1>2, <1>3, <1>4, <1>5, <1>6 DEF Requests

\* A call past "idle" has a request; a matching call past its lock has read a
\* bill its request names, and a close past its aggregate an amount.
ArgKnown == \A c \in Calls : pc[c] # "idle" => arg[c] \in Requests
SeenFits ==
    \A c \in Calls :
        /\ pc[c] = "locked" => arg[c].op \in {"ingest", "match"}
        /\ pc[c] \in {"locked", "reread", "written"} /\ arg[c].op \in {"ingest", "match"} =>
              seen[c] \in Bills /\ seen[c] \in Named(arg[c])
        /\ pc[c] = "summed" /\ arg[c].op = "close" => seen[c] \in Nat
Finite == IsFiniteSet(payments) /\ IsFiniteSet(refunds)

Typed == TypeOK /\ ArgKnown /\ SeenFits /\ Finite

\* The cash a close adds up is an amount.
LEMMA CashType == ASSUME Typed PROVE CashTaken \in Nat
<1> DEFINE rs == {p \in payments : bill[p.bill].status = "COMPLETED"}
<1>1. CashTaken = Cash(rs)
  BY DEF CashTaken, Cash
<1>2. IsFiniteSet(rs) /\ \A p \in rs : p.cash \in Nat
  BY FS_Subset DEF Typed, TypeOK, Finite
<1> HIDE DEF rs
<1>3. Cash(rs) = Sum([p \in rs |-> p.cash], rs)
  BY CashSum
<1> QED
  BY <1>1, <1>2, <1>3, SumType

\* The initial tables are well typed.
LEMMA TypedInit == Init => Typed
  BY FS_EmptySet DEF Init, Typed, TypeOK, ArgKnown, SeenFits, Finite

\* Committing a call releases its locks and ends it.
LEMMA EndTyped ==
    ASSUME Typed, NEW c \in Calls, pc[c] # "idle", End(c)
    PROVE  /\ lock' \in [Bills \cup Transfers -> Calls \cup {None}]
           /\ pc' \in [Calls -> {"idle", "received", "checked", "reread", "summed",
                                 "locked", "unmatched", "written", "done"}]
           /\ UNCHANGED <<arg, seen, raced>>
           /\ ArgKnown' /\ SeenFits'
           /\ pc'[c] = "done" /\ \A d \in Calls \ {c} : pc'[d] = pc[d]
           /\ \A r \in Bills \cup Transfers :
                 lock'[r] = IF lock[r] = c THEN None ELSE lock[r]
  BY DEF End, Release, Goto, Typed, TypeOK, ArgKnown, SeenFits

\* A request arrives at a call.
LEMMA ReceiveTyped ==
    ASSUME Typed, NEW c \in Calls, NEW r \in Requests, Receive(c, r)
    PROVE  Typed'
<1>1. Named(r) \subseteq Bills
  BY RequestFields DEF Named, Requests
<1>2. raced' \subseteq Bills \cup {Shift}
  BY <1>1 DEF Receive, Clash, Typed, TypeOK
<1> QED
  BY <1>2 DEF Receive, Goto, rows, Typed, TypeOK, ArgKnown, SeenFits, Finite

\* The steps of a call that only look, wait or take a lock.
LEMMA StepTyped ==
    ASSUME Typed, NEW c \in Calls,
           \/ CheckPay(c) \/ RereadPay(c) \/ WritePay(c)
           \/ CheckRefund(c) \/ SumRefunds(c)
           \/ CheckCancel(c) \/ WriteCancel(c)
           \/ LookupTransfer(c) \/ StoreTransfer(c)
           \/ CheckMatch(c) \/ LockTransfer(c) \/ RereadBill(c) \/ WriteMatch(c)
           \/ CheckClose(c) \/ SumCash(c) \/ Fail(c)
    PROVE  Typed' /\ UNCHANGED <<rows, arg, raced>>
<1>0. pc[c] # "idle" /\ arg[c] \in Requests
  BY DEF CheckPay, RereadPay, WritePay, CheckRefund, SumRefunds, CheckCancel, WriteCancel,
         LookupTransfer, StoreTransfer, CheckMatch, LockTransfer, RereadBill, WriteMatch,
         CheckClose, SumCash, Fail, At, Typed, ArgKnown
<1> USE DEF At, Goto, Take, rows, Typed, TypeOK, ArgKnown, SeenFits, Finite
<1>1. CASE CheckPay(c) \/ RereadPay(c)
  BY <1>1 DEF CheckPay, RereadPay
<1>2. CASE CheckRefund(c) \/ SumRefunds(c)
  BY <1>2 DEF CheckRefund, SumRefunds
<1>3. CASE CheckCancel(c)
  BY <1>3 DEF CheckCancel
<1>4. CASE LookupTransfer(c) \/ CheckMatch(c) \/ CheckClose(c)
  BY <1>4 DEF LookupTransfer, CheckMatch, CheckClose
<1>5. CASE WritePay(c) \/ WriteCancel(c)
  BY <1>0, <1>5, RequestFields DEF WritePay, WriteCancel
<1>6. CASE StoreTransfer(c)
  <2>1. arg[c].transfer \in Transfers /\ Named(arg[c]) = Memo[arg[c].transfer]
        /\ Named(arg[c]) \subseteq Bills /\ arg[c].op = "ingest"
    BY <1>0, <1>6, RequestFields DEF StoreTransfer
  <2>2. Candidates(arg[c].transfer) \subseteq Named(arg[c])
    BY <2>1 DEF Candidates
  <2>3. Cardinality(Candidates(arg[c].transfer)) = 1 =>
           (CHOOSE b \in Candidates(arg[c].transfer) : TRUE) \in Named(arg[c])
    <3>1. Cardinality({}) = 0
      BY FS_EmptySet
    <3>2. Cardinality({}) # 1
      BY <3>1
    <3>3. \A S : Cardinality(S) = 1 => S # {}
      BY <3>2, Zenon
    <3> QED
      BY <2>2, <3>3
  <2> QED
    <3>1. CASE bank[arg[c].transfer].status # "absent"
      BY <1>6, <3>1 DEF StoreTransfer
    <3>2. CASE Cardinality(Candidates(arg[c].transfer)) # 1
      BY <1>6, <2>1, <3>2 DEF StoreTransfer
    <3>3. CASE /\ bank[arg[c].transfer].status = "absent"
               /\ Cardinality(Candidates(arg[c].transfer)) = 1
      <4>1. PICK b \in Named(arg[c]) : seen' = [seen EXCEPT ![c] = b]
        BY <1>6, <2>3, <3>3 DEF StoreTransfer
      <4>2. pc' = [pc EXCEPT ![c] = "locked"]
            /\ lock' = [lock EXCEPT ![arg[c].transfer] = c]
        BY <1>6, <3>3 DEF StoreTransfer
      <4> QED
        BY <1>6, <2>1, <4>1, <4>2 DEF StoreTransfer
    <3> QED
      BY <3>1, <3>2, <3>3
<1>7. CASE LockTransfer(c)
  BY <1>0, <1>7, RequestFields DEF LockTransfer
<1>8. CASE RereadBill(c)
  BY <1>8 DEF RereadBill
<1>9. CASE WriteMatch(c)
  BY <1>9 DEF WriteMatch
<1>10. CASE SumCash(c)
  BY <1>10, CashType DEF SumCash
<1>11. CASE Fail(c)
  BY <1>11 DEF Fail, Release
<1> QED
  BY <1>1, <1>2, <1>3, <1>4, <1>5, <1>6, <1>7, <1>8, <1>9, <1>10, <1>11

\* The rows of the tables.
BillRows == [status : {"COMPLETED", "CANCELLED"}, paid : BOOLEAN]
PaymentRows ==
    [by : Calls, bill : Bills, transfer : Transfers \cup {None}, cash : Nat, amount : Nat]
RefundRecords == [by : Calls, bill : Bills, amount : Nat]
BankRows ==
    [status : {"absent", "UNMATCHED", "MATCHED", "IGNORED"}, bill : Bills \cup {None}]
ShiftRows ==
    [status : {"OPEN", "FORCE_CLOSED"}, expected : Nat \cup {None}]
      \cup [status : {"CLOSED"}, expected : Nat]

\* The commits of a call.
LEMMA CommitTyped ==
    ASSUME Typed, NEW c \in Calls,
           \/ CommitPay(c) \/ CommitRefund(c) \/ CommitCancel(c) \/ CommitUnmatched(c)
           \/ CommitMatch(c) \/ Ignore(c) \/ CommitClose(c) \/ CommitForceClose(c)
    PROVE  Typed' /\ End(c) /\ pc[c] # "idle" /\ arg[c] \in Requests
<1>1. End(c) /\ pc[c] # "idle" /\ arg[c] \in Requests
  BY DEF CommitPay, CommitRefund, CommitCancel, CommitUnmatched, CommitMatch, Ignore,
         CommitClose, CommitForceClose, At, Typed, ArgKnown
<1>2. /\ lock' \in [Bills \cup Transfers -> Calls \cup {None}]
      /\ pc' \in [Calls -> {"idle", "received", "checked", "reread", "summed",
                            "locked", "unmatched", "written", "done"}]
      /\ UNCHANGED <<arg, seen, raced>>
      /\ ArgKnown' /\ SeenFits'
  BY <1>1, EndTyped
<1>3. /\ bill \in [Bills -> BillRows] /\ bank \in [Transfers -> BankRows]
      /\ payments \subseteq PaymentRows /\ refunds \subseteq RefundRecords
      /\ shift \in ShiftRows /\ IsFiniteSet(payments) /\ IsFiniteSet(refunds)
      /\ raced \subseteq Bills \cup {Shift} /\ SeenFits
  BY DEF Typed, TypeOK, Finite, BillRows, BankRows, PaymentRows, RefundRecords, ShiftRows
<1>4. ASSUME bill' \in [Bills -> BillRows], bank' \in [Transfers -> BankRows],
             payments' \subseteq PaymentRows, refunds' \subseteq RefundRecords,
             shift' \in ShiftRows, IsFiniteSet(payments'), IsFiniteSet(refunds')
      PROVE  Typed'
  <2>1. arg \in [Calls -> Requests \cup {None}] /\ seen \in [Calls -> Nat \cup Bills \cup {None}]
    BY DEF Typed, TypeOK
  <2> QED
    BY <1>2, <1>3, <1>4, <2>1
    DEF Typed, TypeOK, Finite, BillRows, BankRows, PaymentRows, RefundRecords, ShiftRows
<1>5. \A b \in Bills : [bill EXCEPT ![b].paid = TRUE] \in [Bills -> BillRows]
  BY <1>3 DEF BillRows
<1>6. \A b \in Bills : [bill EXCEPT ![b].status = "CANCELLED"] \in [Bills -> BillRows]
  BY <1>3 DEF BillRows
<1>7. CASE CommitPay(c)
  <2>1. arg[c].bill \in Bills /\ arg[c].cash \in Nat /\ TotalVnd[arg[c].bill] \in Nat
    BY <1>1, <1>7, RequestFields, AmountsType DEF CommitPay, At
  <2> DEFINE p == [by |-> c, bill |-> arg[c].bill, transfer |-> None,
                   cash |-> arg[c].cash, amount |-> TotalVnd[arg[c].bill]]
  <2>2. p \in PaymentRows
    BY <2>1 DEF PaymentRows
  <2>3. /\ payments' = payments \cup {p} /\ bill' = [bill EXCEPT ![arg[c].bill].paid = TRUE]
        /\ UNCHANGED <<refunds, bank, shift>>
    BY <1>7 DEF CommitPay
  <2> HIDE DEF p
  <2>4. IsFiniteSet(payments')
    BY <1>3, <2>3, FS_AddElement
  <2>5. bill' \in [Bills -> BillRows]
    BY <1>5, <2>1, <2>3
  <2> QED
    BY <1>1, <1>3, <1>4, <2>2, <2>3, <2>4, <2>5
<1>8. CASE CommitRefund(c)
  <2>1. arg[c].bill \in Bills /\ arg[c].amount \in Nat
    BY <1>1, <1>8, RequestFields DEF CommitRefund, At
  <2> DEFINE r == [by |-> c, bill |-> arg[c].bill, amount |-> arg[c].amount]
  <2>2. r \in RefundRecords
    BY <2>1 DEF RefundRecords
  <2>3. refunds' = refunds \cup {r} /\ UNCHANGED <<bill, payments, bank, shift>>
    BY <1>8 DEF CommitRefund
  <2> HIDE DEF r
  <2>4. IsFiniteSet(refunds')
    BY <1>3, <2>3, FS_AddElement
  <2> QED
    BY <1>1, <1>3, <1>4, <2>2, <2>3, <2>4
<1>9. CASE CommitCancel(c)
  <2>1. arg[c].bill \in Bills
    BY <1>1, <1>9, RequestFields DEF CommitCancel, At
  <2>2. /\ bill' = [bill EXCEPT ![arg[c].bill].status = "CANCELLED"]
        /\ UNCHANGED <<payments, refunds, bank, shift>>
    BY <1>9 DEF CommitCancel
  <2>3. bill' \in [Bills -> BillRows]
    BY <1>6, <2>1, <2>2
  <2> QED
    BY <1>1, <1>3, <1>4, <2>2, <2>3
<1>10. CASE CommitUnmatched(c)
  <2>1. bank' \in [Transfers -> BankRows] /\ UNCHANGED <<bill, payments, refunds, shift>>
    BY <1>3, <1>10 DEF CommitUnmatched, BankRows
  <2> QED
    BY <1>1, <1>3, <1>4, <2>1
<1>11. CASE CommitMatch(c)
  <2>1. arg[c].transfer \in Transfers /\ seen[c] \in Bills /\ TotalVnd[seen[c]] \in Nat
    BY <1>1, <1>3, <1>11, RequestFields, AmountsType DEF CommitMatch, SeenFits
  <2> DEFINE p == [by |-> c, bill |-> seen[c], transfer |-> arg[c].transfer,
                   cash |-> 0, amount |-> TotalVnd[seen[c]]]
  <2>2. p \in PaymentRows
    BY <2>1 DEF PaymentRows
  <2>3. /\ payments' = payments \cup {p} /\ bill' = [bill EXCEPT ![seen[c]].paid = TRUE]
        /\ bank' = [bank EXCEPT ![arg[c].transfer] = [status |-> "MATCHED", bill |-> seen[c]]]
        /\ UNCHANGED <<refunds, shift>>
    BY <1>11 DEF CommitMatch
  <2> HIDE DEF p
  <2>4. IsFiniteSet(payments')
    BY <1>3, <2>3, FS_AddElement
  <2>5. bill' \in [Bills -> BillRows]
    BY <1>5, <2>1, <2>3
  <2>6. bank' \in [Transfers -> BankRows]
    <3>1. [status |-> "MATCHED", bill |-> seen[c]] \in BankRows
      BY <2>1 DEF BankRows
    <3> QED
      BY <1>3, <2>3, <3>1
  <2> QED
    BY <1>1, <1>3, <1>4, <2>2, <2>3, <2>4, <2>5, <2>6
<1>12. CASE Ignore(c)
  <2>1. bank' \in [Transfers -> BankRows]
    BY <1>3, <1>12 DEF Ignore, BankRows
  <2>2. UNCHANGED <<bill, payments, refunds, shift>>
    BY <1>12 DEF Ignore
  <2> QED
    BY <1>1, <1>3, <1>4, <2>1, <2>2
<1>13. CASE CommitClose(c)
  <2>1. shift' \in ShiftRows
    BY <1>3, <1>13 DEF CommitClose, SeenFits, At, ShiftRows
  <2>2. UNCHANGED <<bill, payments, refunds, bank>>
    BY <1>13 DEF CommitClose
  <2> QED
    BY <1>1, <1>3, <1>4, <2>1, <2>2
<1>14. CASE CommitForceClose(c)
  <2>1. shift' \in ShiftRows
    BY <1>3, <1>14 DEF CommitForceClose, ShiftRows
  <2>2. UNCHANGED <<bill, payments, refunds, bank>>
    BY <1>14 DEF CommitForceClose
  <2> QED
    BY <1>1, <1>3, <1>4, <2>1, <2>2
<1> QED
  BY <1>1, <1>7, <1>8, <1>9, <1>10, <1>11, <1>12, <1>13, <1>14

\* A step is a request's arrival, a look, a commit or nothing.
LEMMA Steps ==
    ASSUME [Next]_vars
    PROVE  \/ UNCHANGED vars
           \/ \E c \in Calls, r \in Requests : Receive(c, r)
           \/ \E c \in Calls :
                \/ CheckPay(c) \/ RereadPay(c) \/ WritePay(c)
                \/ CheckRefund(c) \/ SumRefunds(c)
                \/ CheckCancel(c) \/ WriteCancel(c)
                \/ LookupTransfer(c) \/ StoreTransfer(c)
                \/ CheckMatch(c) \/ LockTransfer(c) \/ RereadBill(c) \/ WriteMatch(c)
                \/ CheckClose(c) \/ SumCash(c) \/ Fail(c)
           \/ \E c \in Calls :
                \/ CommitPay(c) \/ CommitRefund(c) \/ CommitCancel(c) \/ CommitUnmatched(c)
                \/ CommitMatch(c) \/ Ignore(c) \/ CommitClose(c) \/ CommitForceClose(c)
  BY DEF Next, Serve, Idle

\* Every step keeps the types.
LEMMA TypedNext == Typed /\ [Next]_vars => Typed'
<1> SUFFICES ASSUME Typed, [Next]_vars PROVE Typed'
  OBVIOUS
<1>1. CASE UNCHANGED vars
  BY <1>1 DEF vars, rows, Typed, TypeOK, ArgKnown, SeenFits, Finite
<1> QED
  BY <1>1, ReceiveTyped, StepTyped, CommitTyped, Steps

\* Every variable keeps its type, whatever calls overlap (payments.service.ts,
\* bills.service.ts, bank-reconcile.service.ts, shifts.service.ts).
THEOREM SettlementTyped == Spec => []TypeOK
<1>1. Typed => TypeOK
  BY DEF Typed
<1> QED
  BY <1>1, TypedInit, TypedNext, PTL DEF Spec

-----------------------------------------------------------------------------
(***************************************************************************)
(* Overlap.  raced holds every row on which two calls in flight meet       *)
(* (RacedKnown), so on any other row a call finds at its commit what it    *)
(* read before (Unraced).                                                  *)
(***************************************************************************)
RacedKnown == \A c, d \in Busy : c # d => Clash(arg[c], arg[d]) \subseteq raced

Unraced ==
    \A c \in Calls :
        /\ arg[c].op = "pay" /\ pc[c] \in {"checked", "reread", "written"} =>
              Payable(arg[c].bill) \/ arg[c].bill \in raced
        /\ arg[c].op \in {"ingest", "match"} /\ pc[c] \in {"reread", "written"} =>
              Payable(seen[c]) \/ seen[c] \in raced
        /\ arg[c].op = "refund" /\ pc[c] \in {"checked", "summed"} => bill[arg[c].bill].paid
        /\ arg[c].op = "refund" /\ pc[c] = "summed" =>
              \/ Refunded(arg[c].bill) + arg[c].amount <= TotalVnd[arg[c].bill]
              \/ arg[c].bill \in raced
        /\ Ends(arg[c]) /\ pc[c] \in {"checked", "summed"} =>
              shift.status = "OPEN" \/ Shift \in raced
        /\ arg[c].op = "close" /\ pc[c] = "summed" =>
              seen[c] = CashTaken \/ Shift \in raced

\* Two requests meet on the same rows whichever is looked at first.
LEMMA ClashSymmetric == \A r, q : Clash(r, q) = Clash(q, r)
  BY DEF Clash

\* Two calls in flight that name one bill, or that end and count one shift.
LEMMA MeetIsRaced ==
    ASSUME RacedKnown, NEW c \in Busy, NEW d \in Busy, c # d
    PROVE  /\ \A b : b \in Named(arg[c]) /\ b \in Named(arg[d]) => b \in raced
           /\ Ends(arg[c]) /\ Counted(arg[d]) => Shift \in raced
  BY DEF RacedKnown, Clash

\* What a look leaves behind: the other calls as they were, and the caller
\* with what it has just read.
LEMMA StepEffect ==
    ASSUME Typed, NEW c \in Calls,
           \/ CheckPay(c) \/ RereadPay(c) \/ WritePay(c)
           \/ CheckRefund(c) \/ SumRefunds(c)
           \/ CheckCancel(c) \/ WriteCancel(c)
           \/ LookupTransfer(c) \/ StoreTransfer(c)
           \/ CheckMatch(c) \/ LockTransfer(c) \/ RereadBill(c) \/ WriteMatch(c)
           \/ CheckClose(c) \/ SumCash(c) \/ Fail(c)
    PROVE  /\ c \in Busy /\ UNCHANGED <<rows, arg, raced>>
           /\ pc'[c] # "idle"
           /\ \A d \in Calls \ {c} : pc'[d] = pc[d] /\ seen'[d] = seen[d]
           /\ arg[c].op = "pay" /\ pc'[c] \in {"checked", "reread", "written"} =>
                 Payable(arg[c].bill) \/ pc[c] \in {"checked", "reread"}
           /\ arg[c].op \in {"ingest", "match"} /\ pc'[c] \in {"reread", "written"} =>
                 seen'[c] = seen[c] /\ (Payable(seen[c]) \/ pc[c] = "reread")
           /\ arg[c].op = "refund" /\ pc'[c] \in {"checked", "summed"} =>
                 bill[arg[c].bill].paid \/ pc[c] = "checked"
           /\ arg[c].op = "refund" /\ pc'[c] = "summed" =>
                 Refunded(arg[c].bill) + arg[c].amount <= TotalVnd[arg[c].bill]
           /\ Ends(arg[c]) /\ pc'[c] \in {"checked", "summed"} =>
                 shift.status = "OPEN" \/ pc[c] = "checked"
           /\ arg[c].op = "close" /\ pc'[c] = "summed" => seen'[c] = CashTaken
<1>0. UNCHANGED <<rows, arg, raced>>
  BY StepTyped
<1> USE DEF At, Goto, Typed, TypeOK, Busy, Ends
<1>1. CASE CheckPay(c)
  BY <1>0, <1>1 DEF CheckPay
<1>2. CASE RereadPay(c) \/ WritePay(c)
  BY <1>0, <1>2 DEF RereadPay, WritePay
<1>3. CASE CheckRefund(c)
  BY <1>0, <1>3 DEF CheckRefund
<1>4. CASE SumRefunds(c)
  BY <1>0, <1>4 DEF SumRefunds
<1>5. CASE CheckCancel(c) \/ WriteCancel(c)
  BY <1>0, <1>5 DEF CheckCancel, WriteCancel
<1>6. CASE LookupTransfer(c) \/ StoreTransfer(c)
  BY <1>0, <1>6 DEF LookupTransfer, StoreTransfer
<1>7. CASE CheckMatch(c) \/ LockTransfer(c)
  BY <1>0, <1>7 DEF CheckMatch, LockTransfer
<1>8. CASE RereadBill(c)
  BY <1>0, <1>8 DEF RereadBill, SeenFits
<1>9. CASE WriteMatch(c)
  BY <1>0, <1>9 DEF WriteMatch
<1>10. CASE CheckClose(c)
  BY <1>0, <1>10 DEF CheckClose
<1>11. CASE SumCash(c)
  BY <1>0, <1>11 DEF SumCash
<1>12. CASE Fail(c)
  BY <1>0, <1>12 DEF Fail
<1> QED
  BY <1>1, <1>2, <1>3, <1>4, <1>5, <1>6, <1>7, <1>8, <1>9, <1>10, <1>11, <1>12

\* Overlap is recorded when the second of two calls arrives.
LEMMA RacedNext == Typed /\ RacedKnown /\ [Next]_vars => RacedKnown'
<1> SUFFICES ASSUME Typed, RacedKnown, [Next]_vars PROVE RacedKnown'
  OBVIOUS
<1>1. CASE UNCHANGED vars
  BY <1>1 DEF vars, RacedKnown, Busy
<1>2. ASSUME NEW c \in Calls, NEW r \in Requests, Receive(c, r) PROVE RacedKnown'
  <2>1. /\ Busy' = Busy \cup {c} /\ c \notin Busy
        /\ arg'[c] = r /\ \A d \in Calls \ {c} : arg'[d] = arg[d]
        /\ raced' = raced \cup UNION {Clash(r, arg[d]) : d \in Busy}
        /\ Busy \subseteq Calls
    BY <1>2 DEF Receive, Busy, Goto, Typed, TypeOK
  <2>2. ASSUME NEW d \in Busy', NEW e \in Busy', d # e
        PROVE  Clash(arg'[d], arg'[e]) \subseteq raced'
    <3>1. CASE d = c
      BY <2>1, <2>2, <3>1
    <3>2. CASE e = c
      BY <2>1, <2>2, <3>2, ClashSymmetric
    <3>3. CASE d # c /\ e # c
      BY <2>1, <2>2, <3>3 DEF RacedKnown
    <3> QED
      BY <3>1, <3>2, <3>3
  <2> QED
    BY <2>2 DEF RacedKnown, Clash, Named, Ends, Counted
<1>3. ASSUME NEW c \in Calls, UNCHANGED <<arg, raced>>, c \in Busy,
             \A d \in Calls \ {c} : pc'[d] = pc[d]
      PROVE  RacedKnown'
  <2> Busy' \subseteq Busy
    BY <1>3 DEF Busy
  <2> QED
    BY <1>3 DEF RacedKnown
<1>4. ASSUME NEW c \in Calls,
           \/ CommitPay(c) \/ CommitRefund(c) \/ CommitCancel(c) \/ CommitUnmatched(c)
           \/ CommitMatch(c) \/ Ignore(c) \/ CommitClose(c) \/ CommitForceClose(c)
      PROVE  RacedKnown'
  <2>1. c \in Busy
    BY <1>4 DEF CommitPay, CommitRefund, CommitCancel, CommitUnmatched, CommitMatch, Ignore,
                CommitClose, CommitForceClose, At, Busy
  <2> QED
    BY <1>3, <1>4, <2>1, CommitTyped, EndTyped
<1> QED
  BY <1>1, <1>2, <1>3, <1>4, StepEffect, Steps

-----------------------------------------------------------------------------
(***************************************************************************)
(* What a commit does to the tables.                                       *)
(***************************************************************************)

\* The cash of a set of rows is that of the rows of COMPLETED bills.
LEMMA CashTakenIs ==
    CashTaken = Cash({p \in payments : bill[p.bill].status = "COMPLETED"})
  BY DEF CashTaken, Cash

\* The same, after a step.
LEMMA CashTakenIsNext ==
    CashTaken' = Cash({p \in payments' : bill'[p.bill].status = "COMPLETED"})
<1>1. (CashTaken = Cash({p \in payments : bill[p.bill].status = "COMPLETED"}))'
  BY CashTakenIs, PTL
<1> QED
  BY <1>1

\* A row without cash does not move the sum.
LEMMA CashSkip ==
    ASSUME NEW rs, IsFiniteSet(rs), \A p \in rs : p.cash \in Nat, NEW q, q.cash = 0
    PROVE  Cash(rs \cup {q}) = Cash(rs)
<1> DEFINE val == [p \in rs \cup {q} |-> p.cash]
<1>1. \A p \in rs \cup {q} : val[p] = p.cash /\ val[p] \in Int
  OBVIOUS
<1>2. val[q] = 0
  OBVIOUS
<1> HIDE DEF val
<1>3. Cash(rs) = Sum(val, rs) /\ Cash(rs \cup {q}) = Sum(val, rs \cup {q})
  BY <1>1, CashSum
<1> QED
  BY <1>1, <1>2, <1>3, SumSkip

\* The refunds of a bill.
LEMMA RefundedIs == \A b \in Bills : Refunded(b) = Amounts({r \in refunds : r.bill = b})
  BY DEF Refunded, Amounts

\* The same, after a step.
LEMMA RefundedIsNext ==
    \A b \in Bills : Refunded(b)' = Amounts({r \in refunds' : r.bill = b})
<1>1. (\A b \in Bills : Refunded(b) = Amounts({r \in refunds : r.bill = b}))'
  BY RefundedIs, PTL
<1> QED
  BY <1>1

\* What a commit changes of a bill and of the shift, and who is counted.
LEMMA CommitEffect ==
    ASSUME Typed, NEW c \in Calls,
           \/ CommitPay(c) \/ CommitRefund(c) \/ CommitCancel(c) \/ CommitUnmatched(c)
           \/ CommitMatch(c) \/ Ignore(c) \/ CommitClose(c) \/ CommitForceClose(c)
    PROVE  /\ c \in Busy /\ arg[c] \in Requests /\ UNCHANGED <<arg, seen, raced>>
           /\ pc'[c] = "done" /\ \A d \in Calls \ {c} : pc'[d] = pc[d]
           /\ \A b \in Bills : bill'[b] = bill[b] \/ b \in Named(arg[c])
           /\ \A b \in Bills : bill[b].paid => bill'[b].paid
           /\ refunds' = refunds \/ CommitRefund(c)
           /\ shift' = shift \/ CommitClose(c) \/ CommitForceClose(c)
           /\ CashTaken' = CashTaken \/ Counted(arg[c])
<1>1. /\ End(c) /\ pc[c] # "idle" /\ arg[c] \in Requests /\ Typed' /\ c \in Busy
      /\ UNCHANGED <<arg, seen, raced>>
      /\ pc'[c] = "done" /\ \A d \in Calls \ {c} : pc'[d] = pc[d]
  <2>1. c \in Busy
    BY DEF CommitPay, CommitRefund, CommitCancel, CommitUnmatched, CommitMatch, Ignore,
           CommitClose, CommitForceClose, At, Busy
  <2> QED
    BY <2>1, CommitTyped, EndTyped
<1>2. ASSUME UNCHANGED <<bill, payments>> PROVE CashTaken' = CashTaken
  BY <1>2, CashTakenIs, CashTakenIsNext
<1>3. CASE CommitPay(c)
  <2>1. Named(arg[c]) = {arg[c].bill} /\ arg[c].op = "pay"
    BY <1>1, <1>3, RequestFields DEF CommitPay, At
  <2> QED
    BY <1>1, <1>3, <2>1 DEF CommitPay, Counted, Typed, TypeOK
<1>4. CASE CommitRefund(c)
  BY <1>1, <1>2, <1>4 DEF CommitRefund
<1>5. CASE CommitCancel(c)
  <2>1. Named(arg[c]) = {arg[c].bill} /\ arg[c].op = "cancel"
    BY <1>1, <1>5, RequestFields DEF CommitCancel, At
  <2> QED
    BY <1>1, <1>5, <2>1 DEF CommitCancel, Counted, Typed, TypeOK
<1>6. CASE CommitUnmatched(c) \/ Ignore(c)
  BY <1>1, <1>2, <1>6 DEF CommitUnmatched, Ignore
<1>7. CASE CommitMatch(c)
  <2>1. seen[c] \in Bills /\ seen[c] \in Named(arg[c])
    BY <1>7 DEF CommitMatch, Typed, SeenFits
  <2>2. /\ \A b \in Bills : bill'[b] = bill[b] \/ b = seen[c]
        /\ \A b \in Bills : bill[b].paid => bill'[b].paid
        /\ \A b \in Bills : bill'[b].status = bill[b].status
    BY <1>7, <2>1 DEF CommitMatch, Typed, TypeOK
  <2> DEFINE q == [by |-> c, bill |-> seen[c], transfer |-> arg[c].transfer,
                   cash |-> 0, amount |-> TotalVnd[seen[c]]]
  <2> DEFINE rs == {p \in payments : bill[p.bill].status = "COMPLETED"}
  <2>3. /\ payments' = payments \cup {q} /\ q.cash = 0 /\ q.bill = seen[c]
        /\ UNCHANGED <<refunds, shift>>
    BY <1>7 DEF CommitMatch
  <2>4. IsFiniteSet(rs) /\ \A p \in rs : p.cash \in Nat
    BY FS_Subset DEF Typed, TypeOK, Finite
  <2>5. \A p \in payments : p.bill \in Bills
    BY DEF Typed, TypeOK
  <2> HIDE DEF q
  <2>6. \/ {p \in payments' : bill'[p.bill].status = "COMPLETED"} = rs
        \/ {p \in payments' : bill'[p.bill].status = "COMPLETED"} = rs \cup {q}
    BY <2>1, <2>2, <2>3, <2>5
  <2> HIDE DEF rs
  <2>7. CashTaken' = CashTaken
    BY <2>3, <2>4, <2>6, CashSkip, CashTakenIs, CashTakenIsNext DEF rs
  <2> QED
    BY <1>1, <2>1, <2>2, <2>3, <2>7
<1>8. CASE CommitClose(c) \/ CommitForceClose(c)
  BY <1>1, <1>2, <1>8 DEF CommitClose, CommitForceClose
<1> QED
  BY <1>3, <1>4, <1>5, <1>6, <1>7, <1>8

-----------------------------------------------------------------------------
(***************************************************************************)
(* Money.  The rows of the two tables and the marks on the bills.          *)
(***************************************************************************)
RefundRows ==
    /\ \A r \in refunds : pc[r.by] = "done" /\ bill[r.bill].paid
    /\ \A b \in Bills : Refunded(b) <= TotalVnd[b] \/ b \in raced

PaidRows ==
    /\ \A p \in payments : p.amount = TotalVnd[p.bill] /\ bill[p.bill].paid
    /\ \A b \in Bills : bill[b].paid => \E p \in payments : p.bill = b
    /\ \A p, q \in payments : p.bill = q.bill => p = q \/ p.bill \in raced

Kept == RacedKnown /\ Unraced /\ RefundRows /\ PaidRows

\* The refunds of a bill are an amount, 0 when there are none.
LEMMA RefundedType ==
    ASSUME Typed, NEW b \in Bills
    PROVE  /\ Refunded(b) \in Nat
           /\ Refunded(b) > 0 => \E r \in refunds : r.bill = b
<1> DEFINE rs == {r \in refunds : r.bill = b}
<1>1. IsFiniteSet(rs) /\ \A r \in rs : r.amount \in Nat
  BY FS_Subset DEF Typed, TypeOK, Finite
<1>2. Refunded(b) = Amounts(rs)
  BY RefundedIs
<1>3. rs = {} => Amounts(rs) = 0
  <2> DEFINE val == [r \in {} |-> 0]
  <2>1. Amounts({}) = Sum(val, {})
    BY AmountsSum
  <2> QED
    BY <2>1, SumEmpty
<1>4. Amounts(rs) \in Nat
  <2> DEFINE val == [r \in rs |-> r.amount]
  <2>1. \A r \in rs : val[r] = r.amount /\ val[r] \in Nat
    BY <1>1
  <2> HIDE DEF rs, val
  <2>2. Amounts(rs) = Sum(val, rs)
    BY <2>1, AmountsSum
  <2>3. Sum(val, rs) \in Nat
    BY <1>1, <2>1, SumType
  <2> QED
    BY <2>2, <2>3
<1> QED
  BY <1>2, <1>3, <1>4

\* A refund adds its amount to its bill's, and to no other's.
LEMMA RefundAdds ==
    ASSUME Typed, RefundRows, NEW c \in Calls, CommitRefund(c), NEW b \in Bills
    PROVE  Refunded(b)' = Refunded(b) + (IF b = arg[c].bill THEN arg[c].amount ELSE 0)
<1> DEFINE q == [by |-> c, bill |-> arg[c].bill, amount |-> arg[c].amount]
<1> DEFINE rs == {r \in refunds : r.bill = b}
<1>1. refunds' = refunds \cup {q} /\ pc[c] # "done" /\ arg[c].amount \in Nat
  <2>1. arg[c] \in Requests /\ arg[c].op = "refund"
    BY DEF CommitRefund, At, Typed, ArgKnown
  <2> QED
    BY <2>1, RequestFields DEF CommitRefund, At
<1>2. q.by = c /\ q.bill = arg[c].bill /\ q.amount = arg[c].amount
  OBVIOUS
<1>3. q \notin refunds
  BY <1>1, <1>2 DEF RefundRows
<1> HIDE DEF q
<1>4. IsFiniteSet(rs) /\ (\A r \in rs : r.amount \in Nat) /\ q \notin rs
  BY <1>3, FS_Subset DEF Typed, TypeOK, Finite
<1>5. {r \in refunds' : r.bill = b} = IF b = arg[c].bill THEN rs \cup {q} ELSE rs
  BY <1>1, <1>2
<1>6. Refunded(b) = Amounts(rs)
      /\ Refunded(b)' = Amounts(IF b = arg[c].bill THEN rs \cup {q} ELSE rs)
  BY <1>5, RefundedIs, RefundedIsNext
<1> DEFINE val == [r \in rs \cup {q} |-> r.amount]
<1>7. \A r \in rs \cup {q} : val[r] = r.amount /\ val[r] \in Nat
  BY <1>1, <1>2, <1>4
<1> HIDE DEF rs, val
<1>8. Amounts(rs) = Sum(val, rs) /\ Amounts(rs \cup {q}) = Sum(val, rs \cup {q})
  BY <1>7, AmountsSum
<1>9. Sum(val, rs \cup {q}) = val[q] + Sum(val, rs) /\ Sum(val, rs) \in Nat
  <2>1. \A r \in rs \cup {q} : val[r] \in Int
    BY <1>7
  <2> QED
    BY <1>4, <1>7, <2>1, SumAdd, SumType
<1> QED
  BY <1>2, <1>6, <1>7, <1>8, <1>9

\* On a row nobody else was on, a call finds what it read.
LEMMA UnracedNext == Typed /\ Kept /\ [Next]_vars => Unraced'
<1> SUFFICES ASSUME Typed, Kept, [Next]_vars PROVE Unraced'
  OBVIOUS
<1> USE DEF Kept
<1>0. ASSUME UNCHANGED <<bill, payments, refunds, shift>>
      PROVE  /\ CashTaken' = CashTaken
             /\ \A b : Payable(b)' = Payable(b)
             /\ \A b \in Bills : Refunded(b)' = Refunded(b)
  BY <1>0, CashTakenIs, CashTakenIsNext, RefundedIs, RefundedIsNext DEF Payable
<1>1. CASE UNCHANGED vars
  BY <1>0, <1>1, RequestFields DEF vars, rows, Unraced, Ends, Payable, Typed, ArgKnown
<1>2. ASSUME NEW c \in Calls, NEW r \in Requests, Receive(c, r) PROVE Unraced'
  <2>1. /\ UNCHANGED <<bill, payments, refunds, shift, seen>> /\ raced \subseteq raced'
        /\ pc'[c] = "received"
        /\ \A d \in Calls \ {c} : arg'[d] = arg[d] /\ pc'[d] = pc[d]
    BY <1>2 DEF Receive, Goto, rows, Typed, TypeOK
  <2> QED
    BY <1>0, <2>1, RequestFields DEF Unraced, Ends, Payable, Typed, ArgKnown
<1>3. ASSUME NEW c \in Calls,
           \/ CheckPay(c) \/ RereadPay(c) \/ WritePay(c)
           \/ CheckRefund(c) \/ SumRefunds(c)
           \/ CheckCancel(c) \/ WriteCancel(c)
           \/ LookupTransfer(c) \/ StoreTransfer(c)
           \/ CheckMatch(c) \/ LockTransfer(c) \/ RereadBill(c) \/ WriteMatch(c)
           \/ CheckClose(c) \/ SumCash(c) \/ Fail(c)
      PROVE  Unraced'
  <2>1. UNCHANGED <<bill, payments, refunds, shift, arg, raced>>
    BY <1>3, StepEffect DEF rows
  <2>2. /\ CashTaken' = CashTaken
        /\ \A b : Payable(b)' = Payable(b)
        /\ \A b \in Bills : Refunded(b)' = Refunded(b)
    BY <1>0, <2>1
  <2>3. c \in Busy /\ arg[c] \in Requests /\ (arg[c].op = "refund" => arg[c].bill \in Bills)
    BY <1>3, StepEffect, RequestFields DEF Busy, Typed, ArgKnown
  <2> SUFFICES ASSUME NEW d \in Calls PROVE
        /\ arg[d].op = "pay" /\ pc'[d] \in {"checked", "reread", "written"} =>
              Payable(arg[d].bill) \/ arg[d].bill \in raced
        /\ arg[d].op \in {"ingest", "match"} /\ pc'[d] \in {"reread", "written"} =>
              Payable(seen'[d]) \/ seen'[d] \in raced
        /\ arg[d].op = "refund" /\ pc'[d] \in {"checked", "summed"} => bill[arg[d].bill].paid
        /\ arg[d].op = "refund" /\ pc'[d] = "summed" =>
              \/ Refunded(arg[d].bill) + arg[d].amount <= TotalVnd[arg[d].bill]
              \/ arg[d].bill \in raced
        /\ Ends(arg[d]) /\ pc'[d] \in {"checked", "summed"} =>
              shift.status = "OPEN" \/ Shift \in raced
        /\ arg[d].op = "close" /\ pc'[d] = "summed" =>
              seen'[d] = CashTaken \/ Shift \in raced
    <3>1. \A d \in Calls : arg[d].op = "refund" /\ pc'[d] = "summed" => arg[d].bill \in Bills
      <4> SUFFICES ASSUME NEW d \in Calls, arg[d].op = "refund", pc'[d] = "summed"
                   PROVE  arg[d].bill \in Bills
        OBVIOUS
      <4>1. pc[d] # "idle"
        BY <1>3, <2>3, StepEffect DEF Busy
      <4> QED
        BY <4>1, RequestFields DEF Typed, ArgKnown
    <3> QED
      BY <2>1, <2>2, <3>1 DEF Unraced, Ends, Payable
  <2>4. CASE d = c
    BY <1>3, <2>4, StepEffect DEF Unraced, Ends
  <2>5. CASE d # c
    BY <1>3, <2>5, StepEffect DEF Unraced, Ends
  <2> QED
    BY <2>4, <2>5
<1>4. ASSUME NEW c \in Calls,
           \/ CommitPay(c) \/ CommitRefund(c) \/ CommitCancel(c) \/ CommitUnmatched(c)
           \/ CommitMatch(c) \/ Ignore(c) \/ CommitClose(c) \/ CommitForceClose(c)
      PROVE  Unraced'
  <2>1. /\ c \in Busy /\ UNCHANGED <<arg, seen, raced>>
        /\ pc'[c] = "done" /\ \A d \in Calls \ {c} : pc'[d] = pc[d]
    BY <1>4, CommitEffect
  <2> SUFFICES ASSUME NEW d \in Calls \ {c}, pc[d] \in {"checked", "reread", "written", "summed"}
      PROVE
        /\ arg[d].op = "pay" /\ pc[d] \in {"checked", "reread", "written"} =>
              Payable(arg[d].bill)' \/ arg[d].bill \in raced
        /\ arg[d].op \in {"ingest", "match"} /\ pc[d] \in {"reread", "written"} =>
              Payable(seen[d])' \/ seen[d] \in raced
        /\ arg[d].op = "refund" /\ pc[d] \in {"checked", "summed"} => bill'[arg[d].bill].paid
        /\ arg[d].op = "refund" /\ pc[d] = "summed" =>
              \/ Refunded(arg[d].bill)' + arg[d].amount <= TotalVnd[arg[d].bill]
              \/ arg[d].bill \in raced
        /\ Ends(arg[d]) /\ pc[d] \in {"checked", "summed"} =>
              shift'.status = "OPEN" \/ Shift \in raced
        /\ arg[d].op = "close" /\ pc[d] = "summed" =>
              seen[d] = CashTaken' \/ Shift \in raced
    BY <2>1 DEF Unraced, Ends, Payable
  <2>2. d \in Busy /\ arg[d] \in Requests /\ d # c
    BY DEF Busy, Typed, ArgKnown
  <2>3. \A b \in Bills : b \in Named(arg[d]) => bill'[b] = bill[b] \/ b \in raced
    BY <1>4, <2>1, <2>2, CommitEffect, MeetIsRaced
  <2>4. \A b \in Bills : Payable(b) /\ b \in Named(arg[d]) => Payable(b)' \/ b \in raced
    BY <2>3 DEF Payable
  <2>5. CASE arg[d].op = "pay"
    BY <2>1, <2>2, <2>4, <2>5, RequestFields DEF Unraced, Ends
  <2>6. CASE arg[d].op \in {"ingest", "match"}
    BY <2>1, <2>2, <2>4, <2>6 DEF Unraced, Ends, Typed, SeenFits
  <2>7. CASE arg[d].op = "refund"
    <3>1. arg[d].bill \in Bills /\ arg[d].bill \in Named(arg[d])
      BY <2>2, <2>7, RequestFields
    <3>2. pc[d] \in {"checked", "summed"} => bill'[arg[d].bill].paid
      BY <1>4, <2>7, <3>1, CommitEffect DEF Unraced
    <3>3. Refunded(arg[d].bill)' = Refunded(arg[d].bill) \/ arg[d].bill \in raced
      <4>1. CASE refunds' = refunds
        BY <2>1, <3>1, <4>1, RefundedIs, RefundedIsNext
      <4>2. CASE CommitRefund(c)
        <5>1. arg[c].bill \in Named(arg[c])
          BY <1>4, <4>2, CommitEffect, RequestFields DEF CommitRefund, At
        <5>2. arg[c].bill = arg[d].bill => arg[d].bill \in raced
          BY <2>1, <2>2, <3>1, <5>1, MeetIsRaced
        <5> QED
          BY <2>1, <3>1, <4>2, <5>2, RefundAdds, RefundedType
      <4> QED
        BY <1>4, <4>1, <4>2, CommitEffect
    <3> QED
      BY <2>7, <3>2, <3>3 DEF Unraced, Ends
  <2>8. CASE Ends(arg[d])
    <3>1. Ends(arg[c]) => Counted(arg[c])
      BY DEF Counted
    <3>2. Counted(arg[c]) => Shift \in raced
      BY <2>1, <2>2, <2>8, MeetIsRaced
    <3>3. shift' = shift \/ Shift \in raced
      BY <1>4, <3>1, <3>2, CommitEffect DEF CommitClose, CommitForceClose, At, Ends
    <3>4. CashTaken' = CashTaken \/ Shift \in raced
      BY <1>4, <3>2, CommitEffect
    <3> QED
      BY <2>8, <3>3, <3>4 DEF Unraced, Ends
  <2> QED
    BY <2>2, <2>5, <2>6, <2>7, <2>8, RequestFields DEF Ends
<1> QED
  BY <1>1, <1>2, <1>3, <1>4, Steps

\* A refund is filed against a paid bill and within its total.
LEMMA RefundRowsNext == Typed /\ Kept /\ [Next]_vars => RefundRows'
<1> SUFFICES ASSUME Typed, Kept, [Next]_vars PROVE RefundRows'
  OBVIOUS
<1> USE DEF Kept
<1>0. \A r \in refunds : r.bill \in Bills /\ r.by \in Calls
  BY DEF Typed, TypeOK
<1>1. ASSUME UNCHANGED refunds, raced \subseteq raced',
             \A r \in refunds : pc'[r.by] = "done" /\ bill'[r.bill].paid
      PROVE  RefundRows'
  <2>1. \A b \in Bills : Refunded(b)' = Refunded(b)
    BY <1>1, RefundedIs, RefundedIsNext
  <2> QED
    BY <1>1, <2>1 DEF RefundRows
<1>2. CASE UNCHANGED vars
  BY <1>1, <1>2 DEF vars, rows, RefundRows
<1>3. ASSUME NEW c \in Calls, NEW r \in Requests, Receive(c, r) PROVE RefundRows'
  <2>1. UNCHANGED <<refunds, bill>> /\ raced \subseteq raced' /\ pc[c] = "idle"
        /\ \A d \in Calls \ {c} : pc'[d] = pc[d]
    BY <1>3 DEF Receive, Goto, rows, Typed, TypeOK
  <2> QED
    BY <1>0, <1>1, <2>1 DEF RefundRows
<1>4. ASSUME NEW c \in Calls, UNCHANGED <<rows, raced>>, c \in Busy,
             \A d \in Calls \ {c} : pc'[d] = pc[d]
      PROVE  RefundRows'
  <2>1. UNCHANGED <<refunds, bill, raced>> /\ pc[c] # "done"
    BY <1>4 DEF rows, Busy
  <2> QED
    BY <1>0, <1>1, <1>4, <2>1 DEF RefundRows
<1>5. ASSUME NEW c \in Calls,
           \/ CommitPay(c) \/ CommitRefund(c) \/ CommitCancel(c) \/ CommitUnmatched(c)
           \/ CommitMatch(c) \/ Ignore(c) \/ CommitClose(c) \/ CommitForceClose(c)
      PROVE  RefundRows'
  <2>1. /\ c \in Busy /\ arg[c] \in Requests /\ UNCHANGED raced
        /\ pc'[c] = "done" /\ \A d \in Calls \ {c} : pc'[d] = pc[d]
        /\ \A b \in Bills : bill[b].paid => bill'[b].paid
    BY <1>5, CommitEffect
  <2>2. CASE refunds' = refunds
    BY <1>0, <1>1, <2>1, <2>2 DEF RefundRows
  <2>3. CASE CommitRefund(c)
    <3>1. /\ arg[c].op = "refund" /\ arg[c].bill \in Bills /\ pc[c] = "summed"
          /\ arg[c].amount \in Nat /\ bill' = bill
      BY <2>1, <2>3, RequestFields DEF CommitRefund, At
    <3>2. \/ Refunded(arg[c].bill) + arg[c].amount <= TotalVnd[arg[c].bill]
          \/ arg[c].bill \in raced
      BY <3>1 DEF Unraced
    <3>3. bill[arg[c].bill].paid
      BY <3>1 DEF Unraced
    <3>4. ASSUME NEW b \in Bills PROVE Refunded(b)' <= TotalVnd[b] \/ b \in raced
      <4>1. CASE b = arg[c].bill
        BY <2>3, <3>1, <3>2, <4>1, RefundAdds
      <4>2. CASE b # arg[c].bill
        <5>1. Refunded(b)' = Refunded(b)
          BY <2>3, <4>2, RefundAdds, RefundedType
        <5> QED
          BY <5>1 DEF RefundRows
      <4> QED
        BY <4>1, <4>2
    <3>5. \A r \in refunds' : r \in refunds \/ (r.by = c /\ r.bill = arg[c].bill)
      BY <2>3 DEF CommitRefund
    <3>6. \A r \in refunds' : pc'[r.by] = "done" /\ bill'[r.bill].paid
      BY <1>0, <2>1, <3>1, <3>3, <3>5 DEF RefundRows
    <3> QED
      BY <2>1, <3>4, <3>6 DEF RefundRows
  <2> QED
    BY <1>5, <2>2, <2>3, CommitEffect
<1> QED
  BY <1>2, <1>3, <1>4, <1>5, StepEffect, Steps

\* paidAt and the payment rows are written together, once unless calls raced.
LEMMA PaidRowsNext == Typed /\ Kept /\ [Next]_vars => PaidRows'
<1> SUFFICES ASSUME Typed, Kept, [Next]_vars PROVE PaidRows'
  OBVIOUS
<1> USE DEF Kept
<1>0. \A p \in payments : p.bill \in Bills
  BY DEF Typed, TypeOK
<1>1. ASSUME UNCHANGED payments, raced \subseteq raced',
             \A b \in Bills : bill'[b].paid = bill[b].paid
      PROVE  PaidRows'
  BY <1>0, <1>1 DEF PaidRows
<1>2. CASE UNCHANGED vars
  BY <1>1, <1>2 DEF vars, rows
<1>3. ASSUME NEW c \in Calls, NEW r \in Requests, Receive(c, r) PROVE PaidRows'
  BY <1>1, <1>3 DEF Receive, rows
<1>4. ASSUME UNCHANGED <<rows, raced>> PROVE PaidRows'
  BY <1>1, <1>4 DEF rows
<1>5. ASSUME NEW b \in Bills, NEW q, q.bill = b, q.amount = TotalVnd[b],
             payments' = payments \cup {q}, bill' = [bill EXCEPT ![b].paid = TRUE],
             UNCHANGED raced, Payable(b) \/ b \in raced
      PROVE  PaidRows'
  <2>1. /\ bill'[b].paid /\ \A e \in Bills : bill[e].paid => bill'[e].paid
        /\ \A e \in Bills \ {b} : bill'[e].paid = bill[e].paid
    BY <1>5 DEF Typed, TypeOK
  <2>2. \A p \in payments' : p.amount = TotalVnd[p.bill] /\ bill'[p.bill].paid
    BY <1>0, <1>5, <2>1 DEF PaidRows
  <2>3. \A e \in Bills : bill'[e].paid => \E p \in payments' : p.bill = e
    BY <1>5, <2>1 DEF PaidRows
  <2>4. b \notin raced => \A p \in payments : p.bill # b
    BY <1>5 DEF PaidRows, Payable
  <2>5. \A p, r \in payments' : p.bill = r.bill => p = r \/ p.bill \in raced
    BY <1>5, <2>4 DEF PaidRows
  <2> QED
    BY <1>5, <2>2, <2>3, <2>5 DEF PaidRows
<1>6. ASSUME NEW c \in Calls, CommitPay(c) PROVE PaidRows'
  <2>1. arg[c].bill \in Bills /\ (Payable(arg[c].bill) \/ arg[c].bill \in raced)
    BY <1>6, RequestFields DEF CommitPay, At, Typed, ArgKnown, Unraced
  <2> DEFINE q == [by |-> c, bill |-> arg[c].bill, transfer |-> None,
                   cash |-> arg[c].cash, amount |-> TotalVnd[arg[c].bill]]
  <2>2. q.bill = arg[c].bill /\ q.amount = TotalVnd[arg[c].bill]
    OBVIOUS
  <2>3. /\ payments' = payments \cup {q} /\ bill' = [bill EXCEPT ![arg[c].bill].paid = TRUE]
        /\ UNCHANGED raced
    BY <1>6 DEF CommitPay, End
  <2> HIDE DEF q
  <2> QED
    BY <1>5, <2>1, <2>2, <2>3
<1>7. ASSUME NEW c \in Calls, CommitMatch(c) PROVE PaidRows'
  <2>1. seen[c] \in Bills /\ (Payable(seen[c]) \/ seen[c] \in raced)
    BY <1>7 DEF CommitMatch, Typed, SeenFits, Unraced
  <2> DEFINE q == [by |-> c, bill |-> seen[c], transfer |-> arg[c].transfer,
                   cash |-> 0, amount |-> TotalVnd[seen[c]]]
  <2>2. q.bill = seen[c] /\ q.amount = TotalVnd[seen[c]]
    OBVIOUS
  <2>3. /\ payments' = payments \cup {q} /\ bill' = [bill EXCEPT ![seen[c]].paid = TRUE]
        /\ UNCHANGED raced
    BY <1>7 DEF CommitMatch, End
  <2> HIDE DEF q
  <2> QED
    BY <1>5, <2>1, <2>2, <2>3
<1>8. ASSUME NEW c \in Calls, CommitCancel(c) PROVE PaidRows'
  <2>1. \A b \in Bills : bill'[b].paid = bill[b].paid
    BY <1>8 DEF CommitCancel, Typed, TypeOK
  <2> QED
    BY <1>1, <1>8, <2>1 DEF CommitCancel, End
<1>9. ASSUME NEW c \in Calls,
             \/ CommitRefund(c) \/ CommitUnmatched(c) \/ Ignore(c) \/ CommitClose(c)
             \/ CommitForceClose(c)
      PROVE  PaidRows'
  BY <1>1, <1>9
  DEF CommitRefund, CommitUnmatched, Ignore, CommitClose, CommitForceClose, End
<1> QED
  BY <1>2, <1>3, <1>4, <1>6, <1>7, <1>8, <1>9, StepTyped, Steps

\* The tables and marks when the system starts.
LEMMA KeptInit == Init => Kept
<1> SUFFICES ASSUME Init PROVE Kept
  OBVIOUS
<1>1. Typed
  BY TypedInit
<1>2. RacedKnown /\ PaidRows
  BY DEF Init, RacedKnown, Busy, PaidRows
<1>3. Unraced
  BY DEF Init, Unraced
<1>4. \A b \in Bills : Refunded(b) = 0
  BY <1>1, RefundedType DEF Init
<1>5. RefundRows
  BY <1>4, AmountsType DEF Init, RefundRows
<1> QED
  BY <1>2, <1>3, <1>5 DEF Kept

\* A bill is marked paid exactly when payments of its whole total are on file,
\* is paid once and refunded within its total unless two calls on it were in
\* flight together (payments.service.ts, bills.service.ts,
\* bank-reconcile.service.ts).
THEOREM MoneyIsRight == Spec => []MoneyAddsUp
<1>1. Init => Typed /\ Kept
  BY TypedInit, KeptInit
<1>2. Typed /\ Kept /\ [Next]_vars => (Typed /\ Kept)'
  BY TypedNext, RacedNext, UnracedNext, RefundRowsNext, PaidRowsNext DEF Kept
<1>3. Typed /\ Kept => MoneyAddsUp
  <2> SUFFICES ASSUME Typed, Kept PROVE MoneyAddsUp
    OBVIOUS
  <2>1. \A b \in Bills : Refunded(b) \in Nat /\ (Refunded(b) > 0 => \E r \in refunds : r.bill = b)
    BY RefundedType
  <2>2. PaidMeansPaid
    BY <2>1 DEF PaidMeansPaid, PaymentsOf, Kept, PaidRows, RefundRows, Typed, TypeOK
  <2>3. RefundsWithinTotal
    BY DEF RefundsWithinTotal, Kept, RefundRows
  <2>4. ASSUME NEW b \in Bills \ raced PROVE Cardinality(PaymentsOf(b)) <= 1
    <3>1. CASE PaymentsOf(b) = {}
      BY <3>1, FS_EmptySet
    <3>2. ASSUME NEW p \in PaymentsOf(b) PROVE Cardinality(PaymentsOf(b)) <= 1
      <4>1. PaymentsOf(b) = {p}
        BY <2>4, <3>2 DEF PaymentsOf, Kept, PaidRows
      <4> QED
        BY <4>1, FS_Singleton
    <3> QED
      BY <3>1, <3>2
  <2> QED
    BY <2>2, <2>3, <2>4 DEF MoneyAddsUp, PaidOnceUnlessRaced
<1> QED
  BY <1>1, <1>2, <1>3, PTL DEF Spec

-----------------------------------------------------------------------------
(***************************************************************************)
(* Transfers.  A call that works on a transfer holds its row from the      *)
(* moment it stores or locks it (Working), and finds it undecided.         *)
(***************************************************************************)
Working(c) ==
    pc[c] \in {"locked", "unmatched", "reread", "written"} /\ arg[c].op \in {"ingest", "match"}

RowHeld ==
    \A c \in Calls : Working(c) =>
        /\ lock[arg[c].transfer] = c
        /\ bank[arg[c].transfer].status \in {"absent", "UNMATCHED"}

TransferRows ==
    /\ \A p \in payments : p.transfer # None =>
          bank[p.transfer].status = "MATCHED" /\ bank[p.transfer].bill = p.bill
    /\ \A p, q \in payments : p.transfer = q.transfer /\ p.transfer # None => p = q
    /\ \A t \in Transfers : bank[t].status = "MATCHED" =>
          \E p \in payments : p.transfer = t /\ p.bill = bank[t].bill

Decided == RowHeld /\ TransferRows

\* A look takes no row another call holds, and starts to work on a transfer
\* only with its row.
LEMMA StepLocks ==
    ASSUME Typed, RowHeld, NEW c \in Calls,
           \/ CheckPay(c) \/ RereadPay(c) \/ WritePay(c)
           \/ CheckRefund(c) \/ SumRefunds(c)
           \/ CheckCancel(c) \/ WriteCancel(c)
           \/ LookupTransfer(c) \/ StoreTransfer(c)
           \/ CheckMatch(c) \/ LockTransfer(c) \/ RereadBill(c) \/ WriteMatch(c)
           \/ CheckClose(c) \/ SumCash(c) \/ Fail(c)
    PROVE  /\ \A d \in Calls \ {c}, r \in Bills \cup Transfers : lock[r] = d => lock'[r] = d
           /\ (Working(c)' =>
                 /\ lock'[arg[c].transfer] = c
                 /\ bank[arg[c].transfer].status \in {"absent", "UNMATCHED"})
<1>0. UNCHANGED <<rows, arg, raced>> /\ pc[c] # "idle" /\ arg[c] \in Requests
  BY StepTyped, StepEffect DEF Busy, Typed, ArgKnown
<1>1. arg[c].op \in {"ingest", "match"} => arg[c].transfer \in Transfers
  BY <1>0, RequestFields
<1> USE NoneDistinct DEF At, Goto, Take, Free, rows, Working, RowHeld, Typed, TypeOK
<1>2. CASE CheckPay(c) \/ RereadPay(c)
  BY <1>0, <1>2 DEF CheckPay, RereadPay
<1>3. CASE CheckRefund(c) \/ SumRefunds(c)
  BY <1>0, <1>3 DEF CheckRefund, SumRefunds
<1>4. CASE CheckCancel(c) \/ LookupTransfer(c) \/ CheckMatch(c)
  BY <1>0, <1>4 DEF CheckCancel, LookupTransfer, CheckMatch
<1>5. CASE WritePay(c) \/ WriteCancel(c)
  BY <1>0, <1>5 DEF WritePay, WriteCancel
<1>6. CASE StoreTransfer(c)
  BY <1>0, <1>1, <1>6 DEF StoreTransfer
<1>7. CASE LockTransfer(c)
  BY <1>0, <1>1, <1>7 DEF LockTransfer
<1>8. CASE RereadBill(c)
  BY <1>0, <1>8 DEF RereadBill, SeenFits
<1>9. CASE WriteMatch(c)
  BY <1>0, <1>1, <1>9 DEF WriteMatch, SeenFits
<1>10. CASE CheckClose(c) \/ SumCash(c)
  BY <1>0, <1>10 DEF CheckClose, SumCash
<1>11. CASE Fail(c)
  BY <1>0, <1>11 DEF Fail, Release
<1> QED
  BY <1>2, <1>3, <1>4, <1>5, <1>6, <1>7, <1>8, <1>9, <1>10, <1>11

\* Only the holder of a transfer's row, or an ignore that finds it free and
\* UNMATCHED, writes it.
LEMMA BankSteps ==
    ASSUME Typed, RowHeld, NEW c \in Calls,
           \/ CommitPay(c) \/ CommitRefund(c) \/ CommitCancel(c) \/ CommitUnmatched(c)
           \/ CommitMatch(c) \/ Ignore(c) \/ CommitClose(c) \/ CommitForceClose(c)
    PROVE  \/ bank' = bank
           \/ /\ arg[c].transfer \in Transfers
              /\ lock[arg[c].transfer] \in {None, c}
              /\ bank[arg[c].transfer].status \in {"absent", "UNMATCHED"}
              /\ \A t \in Transfers \ {arg[c].transfer} : bank'[t] = bank[t]
              /\ \/ CommitMatch(c)
                 \/ bank'[arg[c].transfer].status # "MATCHED" /\ UNCHANGED payments
<1>1. CASE CommitUnmatched(c)
  <2>1. arg[c].transfer \in Transfers /\ Working(c)
    BY <1>1, RequestFields DEF CommitUnmatched, At, Working, Typed, ArgKnown
  <2> QED
    BY <1>1, <2>1 DEF CommitUnmatched, RowHeld, Typed, TypeOK
<1>2. CASE CommitMatch(c)
  <2>1. arg[c].transfer \in Transfers /\ Working(c)
    BY <1>2, RequestFields DEF CommitMatch, At, Working, Typed, ArgKnown
  <2> QED
    BY <1>2, <2>1 DEF CommitMatch, RowHeld, Typed, TypeOK
<1>3. CASE Ignore(c)
  <2>1. arg[c].transfer \in Transfers
    BY <1>3, RequestFields DEF Ignore, At, Typed, ArgKnown
  <2> QED
    BY <1>3, <2>1 DEF Ignore, Free, Typed, TypeOK
<1> QED
  BY <1>1, <1>2, <1>3 DEF CommitPay, CommitRefund, CommitCancel, CommitClose, CommitForceClose

\* A transfer's row stays with the call that works on it.
LEMMA RowHeldNext == Typed /\ Decided /\ [Next]_vars => RowHeld'
<1> SUFFICES ASSUME Typed, Decided, [Next]_vars PROVE RowHeld'
  OBVIOUS
<1> USE DEF Decided
<1>0. \A d \in Calls : Working(d) => arg[d].transfer \in Transfers /\ pc[d] # "idle"
  BY RequestFields DEF Working, Typed, ArgKnown
<1>1. CASE UNCHANGED vars
  BY <1>1 DEF vars, rows, RowHeld, Working
<1>2. ASSUME NEW c \in Calls, NEW r \in Requests, Receive(c, r) PROVE RowHeld'
  <2>1. /\ UNCHANGED <<bank, lock>> /\ pc'[c] = "received"
        /\ \A d \in Calls \ {c} : arg'[d] = arg[d] /\ pc'[d] = pc[d]
    BY <1>2 DEF Receive, Goto, rows, Typed, TypeOK
  <2> QED
    BY <2>1 DEF RowHeld, Working
<1>3. ASSUME NEW c \in Calls,
           \/ CheckPay(c) \/ RereadPay(c) \/ WritePay(c)
           \/ CheckRefund(c) \/ SumRefunds(c)
           \/ CheckCancel(c) \/ WriteCancel(c)
           \/ LookupTransfer(c) \/ StoreTransfer(c)
           \/ CheckMatch(c) \/ LockTransfer(c) \/ RereadBill(c) \/ WriteMatch(c)
           \/ CheckClose(c) \/ SumCash(c) \/ Fail(c)
      PROVE  RowHeld'
  <2>1. UNCHANGED <<bank, arg>> /\ \A d \in Calls \ {c} : pc'[d] = pc[d]
    BY <1>3, StepEffect DEF rows
  <2>2. /\ \A d \in Calls \ {c}, r \in Bills \cup Transfers : lock[r] = d => lock'[r] = d
        /\ (Working(c)' =>
              /\ lock'[arg[c].transfer] = c
              /\ bank[arg[c].transfer].status \in {"absent", "UNMATCHED"})
    BY <1>3, StepLocks
  <2> QED
    BY <1>0, <2>1, <2>2 DEF RowHeld, Working
<1>4. ASSUME NEW c \in Calls,
           \/ CommitPay(c) \/ CommitRefund(c) \/ CommitCancel(c) \/ CommitUnmatched(c)
           \/ CommitMatch(c) \/ Ignore(c) \/ CommitClose(c) \/ CommitForceClose(c)
      PROVE  RowHeld'
  <2>1. /\ UNCHANGED arg /\ pc'[c] = "done" /\ \A d \in Calls \ {c} : pc'[d] = pc[d]
        /\ \A r \in Bills \cup Transfers : lock'[r] = IF lock[r] = c THEN None ELSE lock[r]
    BY <1>4, CommitTyped, EndTyped
  <2> SUFFICES ASSUME NEW d \in Calls \ {c}, Working(d)
               PROVE  /\ lock'[arg[d].transfer] = d
                      /\ bank'[arg[d].transfer].status \in {"absent", "UNMATCHED"}
    BY <2>1 DEF RowHeld, Working
  <2>2. /\ lock[arg[d].transfer] = d /\ arg[d].transfer \in Transfers
        /\ bank[arg[d].transfer].status \in {"absent", "UNMATCHED"}
    BY <1>0 DEF RowHeld
  <2>3. bank'[arg[d].transfer] = bank[arg[d].transfer]
    BY <1>4, <2>2, BankSteps, NoneDistinct
  <2> QED
    BY <2>1, <2>2, <2>3
<1> QED
  BY <1>1, <1>2, <1>3, <1>4, Steps

\* A transfer is matched by the one commit that files its payment.
LEMMA TransferRowsNext == Typed /\ Decided /\ [Next]_vars => TransferRows'
<1> SUFFICES ASSUME Typed, Decided, [Next]_vars PROVE TransferRows'
  OBVIOUS
<1> USE DEF Decided
<1>0. \A p \in payments : p.transfer \in Transfers \cup {None}
  BY DEF Typed, TypeOK
<1>1. CASE UNCHANGED <<payments, bank>>
  BY <1>1 DEF TransferRows
<1>2. ASSUME NEW c \in Calls, CommitMatch(c) PROVE TransferRows'
  <2>1. arg[c].transfer \in Transfers /\ Working(c)
    BY <1>2, RequestFields DEF CommitMatch, Working, Typed, ArgKnown
  <2>2. bank[arg[c].transfer].status # "MATCHED"
    BY <2>1 DEF RowHeld
  <2>3. \A p \in payments : p.transfer # arg[c].transfer
    BY <2>1, <2>2, NoneDistinct DEF TransferRows
  <2> DEFINE q == [by |-> c, bill |-> seen[c], transfer |-> arg[c].transfer,
                   cash |-> 0, amount |-> TotalVnd[seen[c]]]
  <2>4. q.transfer = arg[c].transfer /\ q.bill = seen[c]
    OBVIOUS
  <2>5. /\ payments' = payments \cup {q}
        /\ bank'[arg[c].transfer] = [status |-> "MATCHED", bill |-> seen[c]]
        /\ \A t \in Transfers \ {arg[c].transfer} : bank'[t] = bank[t]
    BY <1>2, <2>1 DEF CommitMatch, Typed, TypeOK
  <2> HIDE DEF q
  <2>6. bank'[arg[c].transfer].status = "MATCHED" /\ bank'[arg[c].transfer].bill = seen[c]
    BY <2>5
  <2>7. \A p \in payments' : p.transfer # None =>
           bank'[p.transfer].status = "MATCHED" /\ bank'[p.transfer].bill = p.bill
    BY <1>0, <2>3, <2>4, <2>5, <2>6 DEF TransferRows
  <2>8. \A p, r \in payments' : p.transfer = r.transfer /\ p.transfer # None => p = r
    BY <2>3, <2>4, <2>5 DEF TransferRows
  <2>9. \A t \in Transfers : bank'[t].status = "MATCHED" =>
           \E p \in payments' : p.transfer = t /\ p.bill = bank'[t].bill
    BY <2>4, <2>5, <2>6 DEF TransferRows
  <2> QED
    BY <2>7, <2>8, <2>9 DEF TransferRows
<1>3. ASSUME NEW c \in Calls, arg[c].transfer \in Transfers, UNCHANGED payments,
             bank[arg[c].transfer].status # "MATCHED",
             bank'[arg[c].transfer].status # "MATCHED",
             \A t \in Transfers \ {arg[c].transfer} : bank'[t] = bank[t]
      PROVE  TransferRows'
  BY <1>0, <1>3 DEF TransferRows
<1>4. ASSUME NEW c \in Calls, CommitPay(c) PROVE TransferRows'
  <2> DEFINE q == [by |-> c, bill |-> arg[c].bill, transfer |-> None,
                   cash |-> arg[c].cash, amount |-> TotalVnd[arg[c].bill]]
  <2>1. q.transfer = None
    OBVIOUS
  <2>2. payments' = payments \cup {q} /\ bank' = bank
    BY <1>4 DEF CommitPay
  <2> HIDE DEF q
  <2> QED
    BY <2>1, <2>2 DEF TransferRows
<1>5. ASSUME NEW c \in Calls,
           \/ CommitRefund(c) \/ CommitCancel(c) \/ CommitUnmatched(c)
           \/ Ignore(c) \/ CommitClose(c) \/ CommitForceClose(c)
      PROVE  TransferRows'
  <2>1. UNCHANGED payments /\ ~CommitMatch(c)
    BY <1>5 DEF CommitRefund, CommitCancel, CommitUnmatched, Ignore, CommitClose,
                CommitForceClose, CommitMatch, At
  <2> QED
    BY <1>1, <1>3, <1>5, <2>1, BankSteps
<1>6. ASSUME NEW c \in Calls, NEW r \in Requests, Receive(c, r)
      PROVE  UNCHANGED <<payments, bank>>
  BY <1>6 DEF Receive, rows
<1>7. ASSUME UNCHANGED vars \/ UNCHANGED rows PROVE UNCHANGED <<payments, bank>>
  BY <1>7 DEF vars, rows
<1> QED
  BY <1>1, <1>2, <1>4, <1>5, <1>6, <1>7, StepTyped, Steps

\* Nothing is matched when the system starts.
LEMMA DecidedInit == Init => Decided
  BY DEF Init, Decided, RowHeld, Working, TransferRows

\* Both lemmas on transfers at once.
LEMMA DecidedNext == Typed /\ Decided /\ [Next]_vars => Decided'
  BY RowHeldNext, TransferRowsNext DEF Decided

\* A transfer confirms one bill or none, and says so, however webhooks repeat
\* and staff match by hand at the same time (bank-reconcile.service.ts).
THEOREM TransfersConfirmOnce == Spec => []OneBillPerTransfer
<1>1. Init => Typed /\ Decided
  BY TypedInit, DecidedInit
<1>2. Typed /\ Decided /\ [Next]_vars => (Typed /\ Decided)'
  BY TypedNext, DecidedNext
<1>3. Typed /\ Decided => OneBillPerTransfer
  <2> SUFFICES ASSUME Typed, Decided, NEW t \in Transfers,
                      NEW by, by = {p \in payments : p.transfer = t}
               PROVE  /\ bank[t].status = "MATCHED" => \E p \in by : p.bill = bank[t].bill
                      /\ bank[t].status # "MATCHED" => by = {}
                      /\ Cardinality(by) <= 1
    BY DEF OneBillPerTransfer
  <2>1. t # None
    BY NoneDistinct
  <2>2. CASE by = {}
    <3>1. Cardinality(by) <= 1
      BY <2>2, FS_EmptySet
    <3> QED
      BY <2>2, <3>1 DEF Decided, TransferRows
  <2>3. ASSUME NEW p \in by
        PROVE  Cardinality(by) <= 1 /\ bank[t].status = "MATCHED" /\ bank[t].bill = p.bill
    <3>1. by = {p}
      <4>1. \A q \in by : q = p
        BY <2>1, <2>3 DEF Decided, TransferRows
      <4> QED
        BY <2>3, <4>1
    <3>2. Cardinality(by) <= 1
      <4>1. Cardinality({p}) = 1
        BY FS_Singleton
      <4> QED
        BY <3>1, <4>1
    <3> QED
      BY <2>1, <2>3, <3>2 DEF Decided, TransferRows
  <2> QED
    BY <2>2, <2>3
<1> QED
  BY <1>1, <1>2, <1>3, PTL DEF Spec

\* What was decided is not worked on again: a MATCHED or IGNORED transfer never
\* changes, money is taken for a COMPLETED bill and a shift ends once, unless
\* two calls that meet were in flight together (bank-reconcile.service.ts,
\* payments.service.ts, shifts.service.ts).
THEOREM DecidedStays == Spec => DecidedStaysDecided
<1> DEFINE Stays ==
      /\ \A t \in Transfers : bank[t].status \in {"MATCHED", "IGNORED"} => bank'[t] = bank[t]
      /\ \A p \in payments' \ payments : bill[p.bill].status = "COMPLETED" \/ p.bill \in raced
      /\ shift.status # "OPEN" /\ Shift \notin raced => shift' = shift
<1>1. Typed /\ Kept /\ Decided /\ [Next]_vars => Stays
  <2> SUFFICES ASSUME Typed, Kept, Decided, [Next]_vars PROVE Stays
    OBVIOUS
  <2>1. ASSUME UNCHANGED <<bank, payments, shift>> PROVE Stays
    BY <2>1
  <2>2. CASE UNCHANGED vars
    BY <2>1, <2>2 DEF vars, rows
  <2>3. ASSUME NEW c \in Calls, NEW r \in Requests, Receive(c, r) PROVE Stays
    BY <2>1, <2>3 DEF Receive, rows
  <2>4. CASE UNCHANGED rows
    BY <2>1, <2>4 DEF rows
  <2>5. ASSUME NEW c \in Calls,
           \/ CommitPay(c) \/ CommitRefund(c) \/ CommitCancel(c) \/ CommitUnmatched(c)
           \/ CommitMatch(c) \/ Ignore(c) \/ CommitClose(c) \/ CommitForceClose(c)
        PROVE  Stays
    <3>1. \A t \in Transfers : bank[t].status \in {"MATCHED", "IGNORED"} => bank'[t] = bank[t]
      BY <2>5, BankSteps DEF Decided
    <3>2. ASSUME NEW p \in payments' \ payments
          PROVE  bill[p.bill].status = "COMPLETED" \/ p.bill \in raced
      <4>1. CASE CommitPay(c)
        <5>1. p.bill = arg[c].bill
          BY <3>2, <4>1 DEF CommitPay
        <5> QED
          BY <4>1, <5>1 DEF CommitPay, At, Kept, Unraced, Payable
      <4>2. CASE CommitMatch(c)
        <5>1. p.bill = seen[c]
          BY <3>2, <4>2 DEF CommitMatch
        <5> QED
          BY <4>2, <5>1 DEF CommitMatch, Kept, Unraced, Payable
      <4> QED
        BY <2>5, <3>2, <4>1, <4>2
        DEF CommitRefund, CommitCancel, CommitUnmatched, Ignore, CommitClose, CommitForceClose
    <3>3. shift.status # "OPEN" /\ Shift \notin raced => shift' = shift
      BY <2>5, CommitEffect DEF CommitClose, CommitForceClose, At, Ends, Kept, Unraced
    <3> QED
      BY <3>1, <3>2, <3>3
  <2> QED
    BY <2>2, <2>3, <2>4, <2>5, StepTyped, Steps
<1>2. Init => Typed /\ Kept /\ Decided
  BY TypedInit, KeptInit, DecidedInit
<1>3. Typed /\ Kept /\ Decided /\ [Next]_vars => (Typed /\ Kept /\ Decided)'
  BY TypedNext, RacedNext, UnracedNext, RefundRowsNext, PaidRowsNext, DecidedNext DEF Kept
<1>4. Typed /\ Kept /\ Decided /\ [Next]_vars =>
         [\A t \in Transfers :
             bank[t].status \in {"MATCHED", "IGNORED"} => bank'[t] = bank[t]]_vars
  BY <1>1
<1>5. Typed /\ Kept /\ Decided /\ [Next]_vars =>
         [\A p \in payments' \ payments :
             bill[p.bill].status = "COMPLETED" \/ p.bill \in raced]_vars
  BY <1>1
<1>6. Typed /\ Kept /\ Decided /\ [Next]_vars =>
         [shift.status # "OPEN" /\ Shift \notin raced => shift' = shift]_vars
  BY <1>1
<1> QED
  BY <1>2, <1>3, <1>4, <1>5, <1>6, PTL
  DEF Spec, DecidedStaysDecided, TransferDecidedOnce, PaidWhileCompleted, ShiftEndsOnce

\* A shift is closed with the cash its COMPLETED bills took by then, unless a
\* payment, a cancel or another end of it overlapped (shifts.service.ts).
THEOREM ClosesCount == Spec => CloseCountsTheCash
<1> DEFINE Counts ==
      shift' # shift /\ shift'.status = "CLOSED" /\ Shift \notin raced =>
          shift'.expected = CashTaken
<1>1. Typed /\ Kept /\ [Next]_vars => Counts
  <2> SUFFICES ASSUME Typed, Kept, [Next]_vars, shift' # shift PROVE Counts
    OBVIOUS
  <2>1. PICK c \in Calls : CommitClose(c) \/ CommitForceClose(c)
    <3>1. ~UNCHANGED vars /\ ~UNCHANGED rows
      BY DEF vars, rows
    <3>2. \A c \in Calls, r \in Requests : ~Receive(c, r)
      BY DEF Receive, rows
    <3> QED
      BY <3>1, <3>2, CommitEffect, StepTyped, Steps
  <2>2. CASE CommitClose(c)
    BY <2>2 DEF CommitClose, At, Kept, Unraced
  <2>3. CASE CommitForceClose(c)
    <3>1. shift'.status = "FORCE_CLOSED"
      BY <2>3 DEF CommitForceClose, Typed, TypeOK
    <3> QED
      BY <3>1
  <2> QED
    BY <2>1, <2>2, <2>3
<1>2. Init => Typed /\ Kept
  BY TypedInit, KeptInit
<1>3. Typed /\ Kept /\ [Next]_vars => (Typed /\ Kept)'
  BY TypedNext, RacedNext, UnracedNext, RefundRowsNext, PaidRowsNext DEF Kept
<1> QED
  BY <1>1, <1>2, <1>3, PTL DEF Spec, CloseCountsTheCash
=============================================================================
