-------------------------- MODULE BillLedger_proofs --------------------------
(***************************************************************************)
(* Machine-checked proofs about BillLedger, for every number of calls,     *)
(* cancels, branches, shifts, days and sales.                              *)
(***************************************************************************)
EXTENDS BillLedger, TLAPS

\* A call past "idle" has a request; the statements after it rely on it.
ReqKnown == \A c \in Calls : pc[c] # "idle" => req[c] \in Requests
TargetKnown ==
    \A x \in Cancels :
        xpc[x] \in {"approved", "updated", "reversed"} =>
            target[x] \in Calls /\ bills[target[x]] # None

SeqKnown == \A c \in Calls : pc[c] \in {"insert", "commit"} => seq[c] # 0

Typed == TypeOK /\ ReqKnown /\ TargetKnown /\ SeqKnown

\* The counter key of a call's request.
LEMMA KeyOfType ==
    ASSUME NEW c \in Calls, req[c] \in Requests
    PROVE  KeyOf(c) \in Keys
  BY DEF KeyOf, Requests, Keys

\* The row a call inserts.
LEMMA RowOfType ==
    ASSUME NEW c \in Calls, req[c] \in Requests, seq[c] \in Nat \ {0}
    PROVE  RowOf(c) \in BillRows
  BY KeyOfType DEF RowOf, BillRows, Requests, Content, Keys, KeyOf

\* The initial tables are well typed.
LEMMA TypedInit == Init => Typed
  BY LastDayType DEF Init, Typed, TypeOK, ReqKnown, TargetKnown, SeqKnown, Days, Keys, NoRow, Answers

\* The number read off an existing bill is one the ledger can answer with.
LEMMA NumberType ==
    ASSUME Typed, NEW b \in Issued
    PROVE  /\ bills[b] \in BillRows
           /\ NumberOf(bills[b]) \in Numbers
           /\ [status |-> "committed", number |-> NumberOf(bills[b])] \in Answers
<1>1. bills[b] \in BillRows
  BY DEF Typed, TypeOK, Issued
<1>2. NumberOf(bills[b]) \in Numbers
  BY <1>1 DEF BillRows, NumberOf, Numbers
<1> QED
  BY <1>1, <1>2 DEF Answers

\* Answering a call keeps the variables of the calls in their types.
LEMMA AnswerTyped ==
    ASSUME NEW c \in Calls, NEW a \in Answers, Typed, pc[c] # "idle", Answer(c, a)
    PROVE  /\ pc' \in [Calls -> {"idle", "received", "validate", "counter", "lock",
                                 "insert", "commit", "done"}]
           /\ req' \in [Calls -> Requests \cup {None}]
           /\ seq' \in [Calls -> Nat]
           /\ reply' \in [Calls -> Answers]
           /\ ReqKnown' /\ SeqKnown'
  BY DEF Typed, TypeOK, ReqKnown, SeqKnown, Answer

\* The rollback of a bill call keeps every variable it touches in its type.
LEMMA RollbackTyped ==
    ASSUME NEW c \in Calls, Typed, Rollback(c), pc[c] # "idle",
           UNCHANGED <<today, shiftOpen, cancelVars>>
    PROVE  Typed'
  BY DEF Typed, TypeOK, ReqKnown, TargetKnown, SeqKnown, Rollback, Answer, Answers, cancelVars

\* Every step keeps the types.
LEMMA TypedNext == Typed /\ [Next]_vars => Typed'
<1> SUFFICES ASSUME Typed, [Next]_vars PROVE Typed'
  OBVIOUS
<1>1. ASSUME NEW c \in Calls, NEW r \in Requests, Submit(c, r) PROVE Typed'
  BY <1>1 DEF Typed, TypeOK, ReqKnown, TargetKnown, SeqKnown, Submit, ledgerVars, cancelVars
<1>2. ASSUME NEW c \in Calls, Refuse(c) PROVE Typed'
  BY <1>2 DEF Typed, TypeOK, ReqKnown, TargetKnown, SeqKnown, Refuse, Answer, Answers, ledgerVars, cancelVars
<1>3. ASSUME NEW c \in Calls, DedupOnline(c) PROVE Typed'
  <2>1. CASE \E b \in SameSale(req[c].sale) :
               Answer(c, [status |-> "committed", number |-> NumberOf(bills[b])])
    BY <1>3, <2>1, NumberType, AnswerTyped
    DEF Typed, TypeOK, TargetKnown, DedupOnline, SameSale, ledgerVars, cancelVars
  <2>2. CASE pc' = [pc EXCEPT ![c] = "validate"] /\ UNCHANGED <<req, seq, reply>>
    BY <1>3, <2>2 DEF Typed, TypeOK, ReqKnown, TargetKnown, SeqKnown, DedupOnline, ledgerVars, cancelVars
  <2> QED
    BY <1>3, <2>1, <2>2 DEF DedupOnline
<1>4. ASSUME NEW c \in Calls, LookupSync(c) PROVE Typed'
  <2>0. [status |-> "mismatch"] \in Answers
    BY DEF Answers
  <2>1. ASSUME NEW b \in SameSale(req[c].sale), NEW a \in Answers, Answer(c, a)
        PROVE  Typed'
    BY <1>4, <2>1, AnswerTyped
    DEF Typed, TypeOK, TargetKnown, LookupSync, ledgerVars, cancelVars
  <2>2. CASE pc' = [pc EXCEPT ![c] = "validate"] /\ UNCHANGED <<req, seq, reply>>
    BY <1>4, <2>2 DEF Typed, TypeOK, ReqKnown, TargetKnown, SeqKnown, LookupSync, ledgerVars, cancelVars
  <2> QED
    <3>1. \A b \in SameSale(req[c].sale) :
             [status |-> "committed", number |-> NumberOf(bills[b])] \in Answers
      BY <1>4, NumberType DEF SameSale
    <3>2. \/ pc' = [pc EXCEPT ![c] = "validate"] /\ UNCHANGED <<req, seq, reply>>
          \/ \E b \in SameSale(req[c].sale), a \in Answers : Answer(c, a)
      <4>1. CASE /\ pc' = [pc EXCEPT ![c] = "validate"]
                 /\ UNCHANGED <<req, seq, reply>>
        BY <4>1
      <4>2. ASSUME NEW b \in SameSale(req[c].sale),
                   Answer(c, [status |-> "mismatch"])
                     \/ Answer(c, [status |-> "committed", number |-> NumberOf(bills[b])])
            PROVE  \E a \in Answers : Answer(c, a)
        BY <2>0, <3>1, <4>2
      <4> QED
        BY <1>4, <4>1, <4>2 DEF LookupSync
    <3> QED
      BY <2>1, <2>2, <3>2
<1>5. ASSUME NEW c \in Calls, Validate(c) PROVE Typed'
  <2>1. PICK old \in Requests : old = req[c]
    BY <1>5 DEF Validate, Typed, ReqKnown
  <2>2. today \in Days /\ req \in [Calls -> Requests \cup {None}]
    BY DEF Typed, TypeOK
  <2>3. [old EXCEPT !.day = today] \in Requests
    BY <2>2 DEF Requests
  <2>4. req' \in [Calls -> Requests \cup {None}] /\ req'[c] \in Requests
    BY <1>5, <2>1, <2>2, <2>3 DEF Validate
  <2>5. \A d \in Calls \ {c} : req'[d] = req[d]
    BY <1>5, <2>2 DEF Validate
  <2> QED
    BY <1>5, <2>4, <2>5
    DEF Typed, TypeOK, ReqKnown, TargetKnown, SeqKnown, Validate, ledgerVars, cancelVars
<1>6. ASSUME NEW c \in Calls, RejectShift(c) PROVE Typed'
  <2>1. /\ pc[c] # "idle" /\ Rollback(c)
        /\ UNCHANGED <<today, shiftOpen, cancelVars>>
    BY <1>6 DEF RejectShift
  <2> QED
    BY <2>1, RollbackTyped
<1>7. ASSUME NEW c \in Calls, EnsureCounter(c) PROVE Typed'
  <2>1. KeyOf(c) \in Keys
    BY <1>7, KeyOfType DEF EnsureCounter, Typed, ReqKnown
  <2>2. /\ holder' \in [Keys -> Calls \cup {None}]
        /\ pc' = [pc EXCEPT ![c] = "lock"]
    BY <1>7, <2>1 DEF EnsureCounter, Typed, TypeOK
  <2> QED
    BY <1>7, <2>2 DEF Typed, TypeOK, ReqKnown, TargetKnown, SeqKnown, EnsureCounter, cancelVars
<1>8. ASSUME NEW c \in Calls, LockCounter(c) PROVE Typed'
  <2>1. KeyOf(c) \in Keys
    BY <1>8, KeyOfType DEF LockCounter, Typed, ReqKnown
  <2> QED
    BY <1>8, <2>1 DEF Typed, TypeOK, ReqKnown, TargetKnown, SeqKnown, LockCounter, NextNo, NoRow, cancelVars
<1>9. ASSUME NEW c \in Calls, InsertBill(c) PROVE Typed'
  BY <1>9 DEF Typed, TypeOK, ReqKnown, TargetKnown, SeqKnown, InsertBill, ledgerVars, cancelVars
<1>10. ASSUME NEW c \in Calls, UniqueViolation(c) PROVE Typed'
  BY <1>10, RollbackTyped DEF UniqueViolation
<1>11. ASSUME NEW c \in Calls, Commit(c) PROVE Typed'
  <2> DEFINE a == [status |-> "committed", number |-> <<KeyOf(c), seq[c]>>]
  <2>1. KeyOf(c) \in Keys /\ seq[c] \in Nat \ {0} /\ req[c] \in Requests
    BY <1>11, KeyOfType DEF Commit, Typed, TypeOK, ReqKnown, SeqKnown
  <2>2. a \in Answers /\ RowOf(c) \in BillRows
    BY <2>1, RowOfType DEF Answers, Numbers
  <2>3. Answer(c, a) /\ pc[c] # "idle"
    BY <1>11 DEF Commit
  <2>4. /\ bills' \in [Calls -> BillRows \cup {None}]
        /\ counter' \in [Keys -> Nat \cup {NoRow}]
        /\ holder' \in [Keys -> Calls \cup {None}]
        /\ moves' \in [Calls -> [out : Nat, back : Nat]]
    BY <1>11, <2>1, <2>2 DEF Commit, Typed, TypeOK
  <2> HIDE DEF a
  <2> QED
    <3>1. TargetKnown'
      BY <1>11, <2>2, NoneDistinct DEF Commit, Typed, TypeOK, TargetKnown, cancelVars
    <3>2. /\ pc' \in [Calls -> {"idle", "received", "validate", "counter", "lock",
                                 "insert", "commit", "done"}]
          /\ req' \in [Calls -> Requests \cup {None}]
          /\ seq' \in [Calls -> Nat]
          /\ reply' \in [Calls -> Answers]
          /\ ReqKnown' /\ SeqKnown'
      BY <2>2, <2>3, AnswerTyped
    <3>3. UNCHANGED <<today, shiftOpen, cancelVars>>
      BY <1>11 DEF Commit
    <3> QED
      BY <2>4, <3>1, <3>2, <3>3 DEF Typed, TypeOK, cancelVars
<1>12. ASSUME NEW c \in Calls, Abort(c) PROVE Typed'
  BY <1>12, RollbackTyped DEF Abort, InTx
<1>13. ASSUME NEW x \in Cancels, NEW b \in Calls, CheckCancel(x, b) PROVE Typed'
  <2>1. /\ xpc' \in [Cancels -> {"idle", "approved", "updated", "reversed", "done"}]
        /\ target' \in [Cancels -> Calls \cup {None}]
    <3>1. /\ xpc \in [Cancels -> {"idle", "approved", "updated", "reversed", "done"}]
          /\ target \in [Cancels -> Calls \cup {None}]
      BY DEF Typed, TypeOK
    <3>2. CASE /\ xpc' = [xpc EXCEPT ![x] = "approved"] /\ target' = [target EXCEPT ![x] = b]
      BY <3>1, <3>2
    <3>3. CASE xpc' = [xpc EXCEPT ![x] = "done"] /\ UNCHANGED target
      BY <3>1, <3>3
    <3> QED
      BY <1>13, <3>2, <3>3 DEF CheckCancel
  <2>2. UNCHANGED <<today, shiftOpen, ledgerVars, callVars, returning, rowLock>>
    BY <1>13 DEF CheckCancel
  <2>3. TargetKnown'
    BY <1>13 DEF CheckCancel, Typed, TypeOK, TargetKnown, Issued, ledgerVars
  <2> QED
    BY <2>1, <2>2, <2>3 DEF Typed, TypeOK, ReqKnown, SeqKnown, ledgerVars, callVars
<1>14. ASSUME NEW x \in Cancels, UpdateRow(x) PROVE Typed'
  BY <1>14 DEF Typed, TypeOK, ReqKnown, TargetKnown, SeqKnown, UpdateRow, ledgerVars, callVars
<1>15. ASSUME NEW x \in Cancels, ReverseStock(x) PROVE Typed'
  BY <1>15 DEF Typed, TypeOK, ReqKnown, TargetKnown, SeqKnown, ReverseStock, ledgerVars, callVars
<1>16. ASSUME NEW x \in Cancels, CommitCancel(x) PROVE Typed'
  <2> DEFINE row == [bills[target[x]] EXCEPT !.status = "CANCELLED"]
  <2>1. target[x] \in Calls /\ bills[target[x]] \in BillRows
    BY <1>16 DEF CommitCancel, Typed, TypeOK, TargetKnown
  <2>2. row \in BillRows /\ row # None
    BY <2>1, NoneDistinct DEF BillRows
  <2>3. bills' = [bills EXCEPT ![target[x]] = row]
    BY <1>16 DEF CommitCancel
  <2> HIDE DEF row
  <2>4. bills' \in [Calls -> BillRows \cup {None}]
    BY <2>1, <2>2, <2>3 DEF Typed, TypeOK
  <2>6. \A c \in Calls : bills[c] # None => bills'[c] # None
    BY <2>1, <2>2, <2>3 DEF Typed, TypeOK
  <2>7. TargetKnown'
    BY <1>16, <2>6 DEF Typed, TypeOK, TargetKnown, CommitCancel
  <2>5. moves' \in [Calls -> [out : Nat, back : Nat]]
    BY <1>16, <2>1 DEF Typed, TypeOK, CommitCancel
  <2> QED
    BY <1>16, <2>4, <2>5, <2>7
    DEF Typed, TypeOK, ReqKnown, SeqKnown, CommitCancel, callVars
<1>17. ASSUME NEW x \in Cancels, AbortCancel(x) PROVE Typed'
  BY <1>17 DEF Typed, TypeOK, ReqKnown, TargetKnown, SeqKnown, AbortCancel, ledgerVars, callVars
<1>18. ASSUME NEW s \in Shifts, CloseShift(s) PROVE Typed'
  BY <1>18 DEF Typed, TypeOK, ReqKnown, TargetKnown, SeqKnown, CloseShift, ledgerVars, callVars, cancelVars
<1>19. ASSUME Midnight PROVE Typed'
  BY <1>19, LastDayType DEF Typed, TypeOK, ReqKnown, TargetKnown, SeqKnown, Midnight, Days, ledgerVars, callVars, cancelVars
<1>20. ASSUME UNCHANGED vars PROVE Typed'
  BY <1>20 DEF Typed, TypeOK, ReqKnown, TargetKnown, SeqKnown, vars
<1> QED
  BY <1>1, <1>2, <1>3, <1>4, <1>5, <1>6, <1>7, <1>8, <1>9, <1>10, <1>11, <1>12, <1>13, <1>14,
     <1>15, <1>16, <1>17, <1>18, <1>19, <1>20 DEF Next, Advance, AdvanceCancel, AllAnswered, vars

\* Every variable keeps its type, whatever the number of calls, cancels,
\* branches, shifts and days (bills.service.ts, sync.service.ts).
THEOREM TypeCorrect == Spec => []TypeOK
<1>1. Typed => TypeOK
  BY DEF Typed
<1> QED
  BY <1>1, TypedInit, TypedNext, PTL DEF Spec

-----------------------------------------------------------------------------
(***************************************************************************)
(* Numbers.  The counter's row lock makes the increment and the insert of  *)
(* the numbered row one step: a call between the two holds the lock and    *)
(* the next number (LockHeld), so what is filed is always 1..lastNo.       *)
(***************************************************************************)
LockHeld ==
    \A c \in Calls : pc[c] \in {"insert", "commit"} =>
        holder[KeyOf(c)] = c /\ seq[c] = LastNo(KeyOf(c)) + 1

IssuedDone == \A b \in Issued : pc[b] = "done"

Filed(k) ==
    /\ \A b \in Issued : bills[b].key = k => bills[b].seq \in 1..LastNo(k)
    /\ \A n \in 1..LastNo(k) :
          \E b \in Issued : bills[b].key = k /\ bills[b].seq = n
    /\ \A b1, b2 \in Issued :
          /\ bills[b1].key = k /\ bills[b2].key = k
          /\ bills[b1].seq = bills[b2].seq
          => b1 = b2

Numbered == LockHeld /\ IssuedDone /\ \A k \in Keys : Filed(k)

\* What a step can do to the committed tables: nothing, file one bill, or
\* stamp one bill CANCELLED.
LEMMA LedgerSteps ==
    ASSUME [Next]_vars
    PROVE  \/ UNCHANGED <<counter, bills>>
           \/ \E c \in Calls : Commit(c)
           \/ \E x \in Cancels : CommitCancel(x)
  BY DEF Next, vars, Advance, AdvanceCancel, Submit, Refuse, DedupOnline, LookupSync, Validate,
         RejectShift, EnsureCounter, LockCounter, InsertBill, UniqueViolation, Abort, Rollback,
         CheckCancel, UpdateRow, ReverseStock, AbortCancel, CloseShift, Midnight, AllAnswered,
         ledgerVars

\* A cancel changes nothing of a row but its status.
LEMMA CancelKeepsRows ==
    ASSUME Typed, NEW x \in Cancels, CommitCancel(x)
    PROVE  /\ Issued' = Issued
           /\ \A b \in Issued :
                 /\ bills'[b].key = bills[b].key
                 /\ bills'[b].seq = bills[b].seq
                 /\ bills'[b].sale = bills[b].sale
                 /\ bills'[b].hash = bills[b].hash
                 /\ bills'[b].status =
                       IF b = target[x] THEN "CANCELLED" ELSE bills[b].status
           /\ target[x] \in Issued
<1> DEFINE row == [bills[target[x]] EXCEPT !.status = "CANCELLED"]
<1>1. target[x] \in Calls /\ bills[target[x]] \in BillRows /\ target[x] \in Issued
  BY DEF CommitCancel, Typed, TypeOK, TargetKnown, Issued
<1>2. row \in BillRows /\ row # None
  BY <1>1, NoneDistinct DEF BillRows
<1>3. bills' = [bills EXCEPT ![target[x]] = row]
  BY DEF CommitCancel
<1>4. /\ row.key = bills[target[x]].key /\ row.seq = bills[target[x]].seq
      /\ row.sale = bills[target[x]].sale /\ row.hash = bills[target[x]].hash
      /\ row.status = "CANCELLED"
  BY <1>1 DEF BillRows
<1> HIDE DEF row
<1>5. Issued' = Issued
  BY <1>1, <1>2, <1>3 DEF Issued, Typed, TypeOK
<1> QED
  BY <1>1, <1>3, <1>4, <1>5 DEF Issued, Typed, TypeOK

\* A cancel changes nothing of a row but its status.
LEMMA CancelKeepsContent ==
    ASSUME Typed, NEW x \in Cancels, CommitCancel(x), NEW b \in Issued
    PROVE  [bills'[b] EXCEPT !.status = "-"] = [bills[b] EXCEPT !.status = "-"]
<1>1. PICK old \in BillRows : old = bills[b]
  BY DEF Typed, TypeOK, Issued
<1>2. bills'[b] = old \/ bills'[b] = [old EXCEPT !.status = "CANCELLED"]
  BY <1>1 DEF CommitCancel, Typed, TypeOK, Issued
<1>3. [[old EXCEPT !.status = "CANCELLED"] EXCEPT !.status = "-"] = [old EXCEPT !.status = "-"]
  BY DEF BillRows
<1> QED
  BY <1>1, <1>2, <1>3

\* A commit adds the row of its call, and no other.
LEMMA CommitAddsRow ==
    ASSUME Typed, IssuedDone, NEW c \in Calls, Commit(c)
    PROVE  /\ c \notin Issued
           /\ Issued' = Issued \cup {c}
           /\ \A b \in Issued : bills'[b] = bills[b]
           /\ bills'[c] = RowOf(c)
           /\ RowOf(c) \in BillRows
           /\ KeyOf(c) \in Keys /\ seq[c] \in Nat \ {0} /\ req[c] \in Requests
<1>1. KeyOf(c) \in Keys /\ seq[c] \in Nat \ {0} /\ req[c] \in Requests
  BY KeyOfType DEF Commit, Typed, TypeOK, ReqKnown, SeqKnown
<1>2. RowOf(c) \in BillRows /\ RowOf(c) # None
  BY <1>1, RowOfType, NoneDistinct
<1>3. bills' = [bills EXCEPT ![c] = RowOf(c)] /\ c \notin Issued
  BY DEF Commit, IssuedDone
<1> QED
  BY <1>1, <1>2, <1>3 DEF Issued, Typed, TypeOK

\* The number and the lock read by LockHeld, typed.
LEMMA LastNoType ==
    ASSUME Typed, NEW k \in Keys
    PROVE  LastNo(k) \in Nat
  BY DEF Typed, TypeOK, LastNo, NoRow

\* Steps that are not of a bill call leave what LockHeld reads alone.
LEMMA OtherSteps ==
    ASSUME [Next]_vars
    PROVE  \/ UNCHANGED <<callVars, counter, holder>>
           \/ \E c \in Calls, r \in Requests : Submit(c, r)
           \/ \E c \in Calls : Advance(c) \/ Refuse(c) \/ Abort(c)
  BY DEF Next, vars, AdvanceCancel, CheckCancel, UpdateRow, ReverseStock, CommitCancel,
         AbortCancel, CloseShift, Midnight, AllAnswered, ledgerVars, callVars

\* A call that ends without a bill gives back its own lock and no other.
LEMMA RollbackLock ==
    ASSUME Typed, Numbered, NEW c \in Calls, Rollback(c), pc[c] # "idle"
    PROVE  LockHeld' /\ IssuedDone'
<1> USE DEF Rollback, Answer
<1>1. pc' = [pc EXCEPT ![c] = "done"] /\ UNCHANGED <<req, seq, counter, bills>>
  OBVIOUS
<1>2. IssuedDone'
  BY <1>1 DEF Numbered, IssuedDone, Issued, Typed, TypeOK
<1>3. ASSUME NEW d \in Calls, pc'[d] \in {"insert", "commit"}
      PROVE  (holder[KeyOf(d)] = d /\ seq[d] = LastNo(KeyOf(d)) + 1)'
  <2>1. d # c /\ pc[d] \in {"insert", "commit"}
    BY <1>3, <1>1 DEF Typed, TypeOK
  <2>2. KeyOf(d) \in Keys
    BY <2>1, KeyOfType DEF Typed, ReqKnown
  <2>3. holder[KeyOf(d)] = d /\ seq[d] = LastNo(KeyOf(d)) + 1
    BY <2>1 DEF Numbered, LockHeld
  <2> QED
    BY <1>1, <2>1, <2>2, <2>3 DEF KeyOf, LastNo
<1> QED
  BY <1>2, <1>3 DEF LockHeld

\* Answering a call outside the section between lock and commit.
LEMMA AnswerLock ==
    ASSUME Typed, Numbered, NEW c \in Calls, NEW a, Answer(c, a),
           UNCHANGED <<counter, holder, bills>>
    PROVE  LockHeld' /\ IssuedDone'
  BY DEF Answer, Typed, TypeOK, Numbered, LockHeld, IssuedDone, Issued, KeyOf, LastNo

\* The lock protects the number: no step of another call or cancel moves the
\* counter or takes the lock between a call's FOR UPDATE and its commit.
LEMMA LockHeldNext == Typed /\ Numbered /\ [Next]_vars => LockHeld' /\ IssuedDone'
<1> SUFFICES ASSUME Typed, Numbered, [Next]_vars PROVE LockHeld' /\ IssuedDone'
  OBVIOUS
<1> USE DEF Numbered
<1>0. CASE UNCHANGED <<callVars, counter, holder>>
  <2>1. LockHeld'
    BY <1>0 DEF LockHeld, KeyOf, LastNo, callVars
  <2>2. CASE UNCHANGED <<counter, bills>>
    BY <1>0, <2>1, <2>2 DEF IssuedDone, Issued, callVars
  <2>3. CASE \E c \in Calls : Commit(c)
    BY <1>0, <2>3 DEF Commit, Answer, callVars, Typed, TypeOK
  <2>4. CASE \E x \in Cancels : CommitCancel(x)
    BY <1>0, <2>1, <2>4, CancelKeepsRows DEF IssuedDone, callVars
  <2> QED
    BY <2>2, <2>3, <2>4, LedgerSteps
<1>1. ASSUME NEW c \in Calls, NEW r \in Requests, Submit(c, r) PROVE LockHeld' /\ IssuedDone'
  BY <1>1 DEF Submit, Typed, TypeOK, LockHeld, IssuedDone, Issued, KeyOf, LastNo, ledgerVars
<1>2. ASSUME NEW c \in Calls, Refuse(c) PROVE LockHeld' /\ IssuedDone'
  BY <1>2, AnswerLock DEF Refuse, ledgerVars
<1>3. ASSUME NEW c \in Calls, DedupOnline(c) \/ LookupSync(c) PROVE LockHeld' /\ IssuedDone'
  <2>1. UNCHANGED <<counter, holder, bills>>
    BY <1>3 DEF DedupOnline, LookupSync, ledgerVars
  <2>2. CASE pc' = [pc EXCEPT ![c] = "validate"] /\ UNCHANGED <<req, seq, reply>>
    BY <1>3, <2>1, <2>2
    DEF DedupOnline, LookupSync, Typed, TypeOK, LockHeld, IssuedDone, Issued, KeyOf, LastNo
  <2>3. CASE \E a : Answer(c, a)
    BY <2>1, <2>3, AnswerLock
  <2> QED
    BY <1>3, <2>2, <2>3 DEF DedupOnline, LookupSync
<1>4. ASSUME NEW c \in Calls, Validate(c) PROVE LockHeld' /\ IssuedDone'
  <2>1. /\ pc[c] = "validate" /\ pc' = [pc EXCEPT ![c] = "counter"]
        /\ UNCHANGED <<counter, holder, bills, seq>>
        /\ \A d \in Calls \ {c} : req'[d] = req[d]
    BY <1>4 DEF Validate, ledgerVars, Typed, TypeOK
  <2>2. IssuedDone'
    BY <2>1 DEF IssuedDone, Issued, Typed, TypeOK
  <2>3. LockHeld'
    BY <2>1 DEF LockHeld, Typed, TypeOK, KeyOf, LastNo
  <2> QED
    BY <2>2, <2>3
<1>5. ASSUME NEW c \in Calls, RejectShift(c) \/ Abort(c) \/ UniqueViolation(c)
      PROVE LockHeld' /\ IssuedDone'
  <2>1. Rollback(c) /\ pc[c] # "idle"
    BY <1>5 DEF RejectShift, Abort, UniqueViolation, InTx
  <2> QED
    BY <2>1, RollbackLock
<1>6. ASSUME NEW c \in Calls, EnsureCounter(c) PROVE LockHeld' /\ IssuedDone'
  <2>1. KeyOf(c) \in Keys /\ pc[c] = "counter"
    BY <1>6, KeyOfType DEF EnsureCounter, Typed, ReqKnown
  <2>2. pc' = [pc EXCEPT ![c] = "lock"] /\ UNCHANGED <<req, seq, counter, bills>>
    BY <1>6 DEF EnsureCounter
  <2>3. IssuedDone'
    BY <2>1, <2>2 DEF IssuedDone, Issued, Typed, TypeOK
  <2>4. ASSUME NEW d \in Calls, pc'[d] \in {"insert", "commit"}
        PROVE  (holder[KeyOf(d)] = d /\ seq[d] = LastNo(KeyOf(d)) + 1)'
    <3>1. d # c /\ pc[d] \in {"insert", "commit"}
      BY <2>2, <2>4 DEF Typed, TypeOK
    <3>2. holder[KeyOf(d)] = d /\ seq[d] = LastNo(KeyOf(d)) + 1 /\ KeyOf(d) \in Keys
      BY <3>1, KeyOfType DEF LockHeld, Typed, ReqKnown
    <3>3. holder'[KeyOf(d)] = d
      BY <1>6, <2>1, <3>2, NoneDistinct DEF EnsureCounter, Typed, TypeOK
    <3> QED
      BY <2>2, <3>2, <3>3 DEF KeyOf, LastNo
  <2> QED
    BY <2>3, <2>4 DEF LockHeld
<1>7. ASSUME NEW c \in Calls, LockCounter(c) PROVE LockHeld' /\ IssuedDone'
  <2>1. KeyOf(c) \in Keys /\ pc[c] = "lock" /\ holder[KeyOf(c)] \in {None, c}
    BY <1>7, KeyOfType DEF LockCounter, Typed, ReqKnown
  <2>2. /\ pc' = [pc EXCEPT ![c] = "insert"] /\ UNCHANGED <<req, counter, bills>>
        /\ holder' = [holder EXCEPT ![KeyOf(c)] = c]
        /\ seq' = [seq EXCEPT ![c] = LastNo(KeyOf(c)) + 1]
    BY <1>7, <2>1 DEF LockCounter, NextNo, LastNo, Typed, TypeOK, NoRow
  <2>3. IssuedDone'
    BY <2>1, <2>2 DEF IssuedDone, Issued, Typed, TypeOK
  <2>4. ASSUME NEW d \in Calls, pc'[d] \in {"insert", "commit"}
        PROVE  (holder[KeyOf(d)] = d /\ seq[d] = LastNo(KeyOf(d)) + 1)'
    <3>1. CASE d = c
      BY <2>1, <2>2, <3>1 DEF KeyOf, LastNo, Typed, TypeOK
    <3>2. CASE d # c
      <4>1. pc[d] \in {"insert", "commit"}
        BY <2>2, <2>4, <3>2 DEF Typed, TypeOK
      <4>2. holder[KeyOf(d)] = d /\ seq[d] = LastNo(KeyOf(d)) + 1 /\ KeyOf(d) \in Keys
        BY <4>1, KeyOfType DEF LockHeld, Typed, ReqKnown
      <4>3. KeyOf(d) # KeyOf(c)
        BY <4>2, <2>1, <3>2, NoneDistinct
      <4> QED
        BY <2>1, <2>2, <3>2, <4>2, <4>3 DEF KeyOf, LastNo, Typed, TypeOK
    <3> QED
      BY <3>1, <3>2
  <2> QED
    BY <2>3, <2>4 DEF LockHeld
<1>8. ASSUME NEW c \in Calls, InsertBill(c) PROVE LockHeld' /\ IssuedDone'
  BY <1>8 DEF InsertBill, Typed, TypeOK, LockHeld, IssuedDone, Issued, KeyOf, LastNo, ledgerVars
<1>9. ASSUME NEW c \in Calls, Commit(c) PROVE LockHeld' /\ IssuedDone'
  <2>1. KeyOf(c) \in Keys /\ pc[c] = "commit" /\ holder[KeyOf(c)] = c
    BY <1>9, KeyOfType DEF Commit, Typed, ReqKnown, LockHeld
  <2>2. /\ pc' = [pc EXCEPT ![c] = "done"] /\ UNCHANGED <<req, seq>>
        /\ holder' = [holder EXCEPT ![KeyOf(c)] = None]
        /\ counter' = [counter EXCEPT ![KeyOf(c)] = seq[c]]
    BY <1>9 DEF Commit, Answer
  <2>3. IssuedDone'
    BY <1>9, <2>2, CommitAddsRow DEF IssuedDone, Typed, TypeOK
  <2>4. ASSUME NEW d \in Calls, pc'[d] \in {"insert", "commit"}
        PROVE  (holder[KeyOf(d)] = d /\ seq[d] = LastNo(KeyOf(d)) + 1)'
    <3>1. d # c /\ pc[d] \in {"insert", "commit"}
      BY <2>2, <2>4 DEF Typed, TypeOK
    <3>2. holder[KeyOf(d)] = d /\ seq[d] = LastNo(KeyOf(d)) + 1 /\ KeyOf(d) \in Keys
      BY <3>1, KeyOfType DEF LockHeld, Typed, ReqKnown
    <3>3. KeyOf(d) # KeyOf(c)
      BY <2>1, <3>1, <3>2
    <3> QED
      BY <2>1, <2>2, <3>2, <3>3 DEF KeyOf, LastNo, Typed, TypeOK
  <2> QED
    BY <2>3, <2>4 DEF LockHeld
<1> QED
  BY <1>0, <1>1, <1>2, <1>3, <1>4, <1>5, <1>6, <1>7, <1>8, <1>9, OtherSteps DEF Advance

\* Filing the next number keeps a book complete and free of duplicates.
LEMMA FiledNext == Typed /\ Numbered /\ [Next]_vars => \A k \in Keys : Filed(k)'
<1> SUFFICES ASSUME Typed, Numbered, [Next]_vars, NEW k \in Keys PROVE Filed(k)'
  OBVIOUS
<1>0. Filed(k) /\ LastNo(k) \in Nat
  BY LastNoType DEF Numbered
<1>1. CASE UNCHANGED <<counter, bills>>
  BY <1>0, <1>1 DEF Filed, Issued, LastNo
<1>2. ASSUME NEW x \in Cancels, CommitCancel(x) PROVE Filed(k)'
  <2>1. counter' = counter /\ LastNo(k)' = LastNo(k)
    BY <1>2 DEF CommitCancel, LastNo
  <2>2. /\ Issued' = Issued
        /\ \A b \in Issued : bills'[b].key = bills[b].key /\ bills'[b].seq = bills[b].seq
    BY <1>2, CancelKeepsRows
  <2> QED
    BY <1>0, <2>1, <2>2 DEF Filed
<1>3. ASSUME NEW c \in Calls, Commit(c) PROVE Filed(k)'
  <2>1. /\ c \notin Issued
        /\ Issued' = Issued \cup {c}
        /\ \A b \in Issued : bills'[b] = bills[b]
        /\ bills'[c] = RowOf(c)
        /\ KeyOf(c) \in Keys /\ seq[c] \in Nat \ {0}
    BY <1>3, CommitAddsRow DEF Numbered
  <2>2. RowOf(c).key = KeyOf(c) /\ RowOf(c).seq = seq[c]
    BY DEF RowOf
  <2>3. counter' = [counter EXCEPT ![KeyOf(c)] = seq[c]]
    BY <1>3 DEF Commit
  <2>4. CASE k # KeyOf(c)
    <3>1. LastNo(k)' = LastNo(k)
      BY <2>1, <2>3, <2>4 DEF LastNo, Typed, TypeOK
    <3> QED
      BY <1>0, <2>1, <2>2, <2>4, <3>1 DEF Filed
  <2>5. CASE k = KeyOf(c)
    <3>1. seq[c] = LastNo(k) + 1
      BY <1>3, <2>5 DEF Commit, Numbered, LockHeld
    <3>2. LastNo(k)' = LastNo(k) + 1
      BY <1>0, <2>1, <2>3, <2>5, <3>1 DEF LastNo, Typed, TypeOK, NoRow
    <3>3. \A b \in Issued : bills[b].key = k => bills[b].seq \in 1..LastNo(k)
      BY <1>0 DEF Filed
    <3>4. ASSUME NEW b \in Issued', bills'[b].key = k
          PROVE  bills'[b].seq \in 1..LastNo(k)'
      <4>1. CASE b = c
        BY <1>0, <2>1, <2>2, <3>1, <3>2, <4>1
      <4>2. CASE b # c
        <5>1. bills'[b].seq \in 1..LastNo(k)
          BY <2>1, <3>3, <3>4, <4>2
        <5> QED
          BY <1>0, <3>2, <5>1
      <4> QED
        BY <4>1, <4>2
    <3>5. \A n \in 1..LastNo(k)' :
             \E b \in Issued' : bills'[b].key = k /\ bills'[b].seq = n
      <4> SUFFICES ASSUME NEW n \in 1..LastNo(k)'
                   PROVE  \E b \in Issued' : bills'[b].key = k /\ bills'[b].seq = n
        OBVIOUS
      <4>1. CASE n = LastNo(k) + 1
        BY <2>1, <2>2, <2>5, <3>1, <4>1
      <4>2. CASE n \in 1..LastNo(k)
        BY <1>0, <2>1, <4>2 DEF Filed
      <4> QED
        BY <1>0, <3>2, <4>1, <4>2
    <3>6. \A b \in Issued : bills[b].key = k => bills[b].seq # seq[c]
      BY <1>0, <3>1, <3>3
    <3>7. \A b1, b2 \in Issued' :
             /\ bills'[b1].key = k /\ bills'[b2].key = k
             /\ bills'[b1].seq = bills'[b2].seq
             => b1 = b2
      BY <1>0, <2>1, <2>2, <3>6 DEF Filed
    <3> QED
      BY <3>4, <3>5, <3>7 DEF Filed
  <2> QED
    BY <2>4, <2>5
<1> QED
  BY <1>1, <1>2, <1>3, LedgerSteps

\* Nothing is filed when the system starts.
LEMMA NumberedInit == Init => Numbered
  BY DEF Init, Numbered, LockHeld, IssuedDone, Filed, Issued, LastNo, NoRow

\* The inductive invariant says what the property says.
LEMMA NumberedGapless == Typed /\ Numbered => Gapless
<1> SUFFICES ASSUME Typed, Numbered, NEW k \in Keys
             PROVE  {bills[b].seq : b \in {i \in Issued : bills[i].key = k}}
                       = IF counter[k] = NoRow THEN {} ELSE 1..counter[k]
  BY DEF Gapless, Numbered, Filed
<1>1. Filed(k)
  BY DEF Numbered
<1>2. {bills[b].seq : b \in {i \in Issued : bills[i].key = k}} = 1..LastNo(k)
  BY <1>1 DEF Filed
<1>3. 1..LastNo(k) = IF counter[k] = NoRow THEN {} ELSE 1..counter[k]
  BY DEF LastNo
<1> QED
  BY <1>2, <1>3

\* The numbers of a branch and day are 1..lastNo with no gap and no duplicate,
\* for any number of racing calls, rollbacks, cancels and days
\* (bill-number.service.ts).
THEOREM NumbersAreGapless == Spec => []Gapless
<1>1. Init => Typed /\ Numbered
  BY TypedInit, NumberedInit
<1>2. Typed /\ Numbered /\ [Next]_vars => (Typed /\ Numbered)'
  BY TypedNext, LockHeldNext, FiledNext DEF Numbered
<1> QED
  BY <1>1, <1>2, NumberedGapless, PTL DEF Spec

\* A filed bill never changes but from COMPLETED to CANCELLED and never
\* disappears (bills.service.ts, sync.service.ts: no statement of theirs
\* updates or deletes anything else of a bill row).
THEOREM LedgerGrows == Spec => LedgerOnlyGrows
<1> DEFINE Grows ==
      \A b \in Issued :
          /\ b \in Issued'
          /\ [bills'[b] EXCEPT !.status = "-"] = [bills[b] EXCEPT !.status = "-"]
          /\ bills[b].status = "CANCELLED" => bills'[b].status = "CANCELLED"
<1>1. Typed /\ Numbered /\ [Next]_vars => Grows
  <2> SUFFICES ASSUME Typed, Numbered, [Next]_vars PROVE Grows
    OBVIOUS
  <2>1. CASE UNCHANGED <<counter, bills>>
    BY <2>1 DEF Issued
  <2>2. ASSUME NEW c \in Calls, Commit(c) PROVE Grows
    BY <2>2, CommitAddsRow DEF Numbered
  <2>3. ASSUME NEW x \in Cancels, CommitCancel(x) PROVE Grows
    <3>1. \A b \in Issued :
             /\ b \in Issued'
             /\ bills[b].status = "CANCELLED" => bills'[b].status = "CANCELLED"
      BY <2>3, CancelKeepsRows
    <3>2. \A b \in Issued :
             [bills'[b] EXCEPT !.status = "-"] = [bills[b] EXCEPT !.status = "-"]
      BY <2>3, CancelKeepsContent
    <3> QED
      BY <3>1, <3>2
  <2> QED
    BY <2>1, <2>2, <2>3, LedgerSteps
<1>2. Init => Typed /\ Numbered
  BY TypedInit, NumberedInit
<1>3. Typed /\ Numbered /\ [Next]_vars => (Typed /\ Numbered)'
  BY TypedNext, LockHeldNext, FiledNext DEF Numbered
<1> QED
  BY <1>1, <1>2, <1>3, PTL DEF Spec, LedgerOnlyGrows

-----------------------------------------------------------------------------
(***************************************************************************)
(* Sales.  The unlocked dedup read is not what keeps a sale single: the    *)
(* unique key (deviceId, clientUuid) is.  Once a call's row is in the      *)
(* table, uncommitted, no bill and no other such row carries its sale.     *)
(***************************************************************************)
SaleReserved ==
    \A c \in Calls : pc[c] = "commit" /\ req[c].sale # NoSale =>
        /\ \A b \in Issued : bills[b].sale # req[c].sale
        /\ \A d \in Calls : pc[d] = "commit" /\ req[d].sale = req[c].sale => d = c

SalesUnique == OneBillPerSale /\ SaleReserved

\* A step that lets no call reach "commit", changes no request of a call that
\* is there and leaves the bills' sales alone keeps SalesUnique.
LEMMA SalesQuiet ==
    ASSUME SalesUnique,
           Issued' = Issued,
           \A b \in Issued : bills'[b].sale = bills[b].sale,
           \A c \in Calls : pc'[c] = "commit" => pc[c] = "commit" /\ req'[c] = req[c]
    PROVE  SalesUnique'
  BY DEF SalesUnique, OneBillPerSale, SaleReserved

\* Only InsertBill brings a call to "commit".
LEMMA ReachCommit ==
    ASSUME Typed, [Next]_vars
    PROVE  \/ \E c \in Calls : InsertBill(c)
           \/ \A c \in Calls : pc'[c] = "commit" => pc[c] = "commit" /\ req'[c] = req[c]
<1> SUFFICES ASSUME \A c \in Calls : ~InsertBill(c),
                    NEW c \in Calls, pc'[c] = "commit"
             PROVE  pc[c] = "commit" /\ req'[c] = req[c]
  OBVIOUS
<1>1. CASE UNCHANGED <<callVars, counter, holder>>
  BY <1>1 DEF callVars
<1>2. ASSUME NEW d \in Calls, NEW r \in Requests, Submit(d, r)
      PROVE  pc[c] = "commit" /\ req'[c] = req[c]
  BY <1>2 DEF Submit, Typed, TypeOK
<1>3. ASSUME NEW d \in Calls, Advance(d) \/ Refuse(d) \/ Abort(d)
      PROVE  pc[c] = "commit" /\ req'[c] = req[c]
  <2>1. ASSUME Rollback(d) \/ (\E a : Answer(d, a))
        PROVE  pc[c] = "commit" /\ req'[c] = req[c]
    BY <2>1 DEF Rollback, Answer, Typed, TypeOK
  <2>2. CASE UNCHANGED <<req, seq, reply>> /\ pc' = [pc EXCEPT ![d] = "validate"]
    BY <2>2 DEF Typed, TypeOK
  <2>3. CASE Validate(d)
    BY <2>3 DEF Validate, Typed, TypeOK
  <2>4. CASE EnsureCounter(d) \/ LockCounter(d)
    BY <2>4 DEF EnsureCounter, LockCounter, Typed, TypeOK
  <2> QED
    BY <1>3, <2>1, <2>2, <2>3, <2>4
    DEF Advance, Refuse, Abort, DedupOnline, LookupSync, RejectShift, UniqueViolation, Commit
<1> QED
  BY <1>1, <1>2, <1>3, OtherSteps

\* No step can make a second bill of a sale.
LEMMA SalesUniqueNext == Typed /\ Numbered /\ SalesUnique /\ [Next]_vars => SalesUnique'
<1> SUFFICES ASSUME Typed, Numbered, SalesUnique, [Next]_vars PROVE SalesUnique'
  OBVIOUS
<1>1. ASSUME NEW c \in Calls, InsertBill(c) PROVE SalesUnique'
  <2>1. /\ pc[c] = "insert" /\ pc' = [pc EXCEPT ![c] = "commit"]
        /\ UNCHANGED <<req, bills>>
    BY <1>1 DEF InsertBill, ledgerVars
  <2>2. req[c].sale # NoSale =>
           /\ \A b \in Issued : bills[b].sale # req[c].sale
           /\ \A d \in Calls : pc[d] = "commit" => req[d].sale # req[c].sale
    BY <1>1, <2>1 DEF InsertBill, Inserting, Conflicting, SameKey
  <2>3. OneBillPerSale'
    BY <2>1 DEF SalesUnique, OneBillPerSale, Issued
  <2>4. SaleReserved'
    BY <2>1, <2>2 DEF SalesUnique, SaleReserved, Issued, Typed, TypeOK
  <2> QED
    BY <2>3, <2>4 DEF SalesUnique
<1>2. CASE \A c \in Calls : pc'[c] = "commit" => pc[c] = "commit" /\ req'[c] = req[c]
  <2>1. CASE UNCHANGED <<counter, bills>>
    BY <1>2, <2>1, SalesQuiet DEF Issued
  <2>2. ASSUME NEW x \in Cancels, CommitCancel(x) PROVE SalesUnique'
    BY <1>2, <2>2, CancelKeepsRows, SalesQuiet
  <2>3. ASSUME NEW c \in Calls, Commit(c) PROVE SalesUnique'
    <3>0. /\ Issued' = Issued \cup {c}
          /\ \A b \in Issued : bills'[b] = bills[b]
          /\ bills'[c] = RowOf(c)
      BY <2>3, CommitAddsRow DEF Numbered
    <3>1. /\ Issued' = Issued \cup {c}
          /\ \A b \in Issued : bills'[b] = bills[b]
          /\ bills'[c].sale = req[c].sale
      BY <3>0 DEF RowOf
    <3>2. pc[c] = "commit" /\ pc'[c] = "done"
      BY <2>3 DEF Commit, Answer, Typed, TypeOK
    <3>3. OneBillPerSale'
      BY <3>1, <3>2 DEF SalesUnique, OneBillPerSale, SaleReserved
    <3>4. ASSUME NEW d \in Calls, pc'[d] = "commit", req'[d].sale # NoSale
          PROVE  /\ \A b \in Issued' : bills'[b].sale # req'[d].sale
                 /\ \A e \in Calls : pc'[e] = "commit" /\ req'[e].sale = req'[d].sale
                                     => e = d
      <4>1. pc[d] = "commit" /\ req'[d] = req[d] /\ d # c
        BY <1>2, <3>2, <3>4
      <4>2. req[c].sale # req[d].sale
        BY <3>2, <3>4, <4>1 DEF SalesUnique, SaleReserved
      <4> QED
        BY <1>2, <3>1, <3>4, <4>1, <4>2 DEF SalesUnique, SaleReserved
    <3> QED
      BY <3>3, <3>4 DEF SalesUnique, SaleReserved
  <2> QED
    BY <2>1, <2>2, <2>3, LedgerSteps
<1> QED
  BY <1>1, <1>2, ReachCommit

\* One sale is at most one bill, however many online creates, syncs and
\* resubmissions of it race (bills.service.ts, sync.service.ts).
THEOREM SalesAreSingle == Spec => []OneBillPerSale
<1>1. Init => Typed /\ Numbered /\ SalesUnique
  BY TypedInit, NumberedInit
  DEF Init, SalesUnique, OneBillPerSale, SaleReserved, Issued
<1>2. Typed /\ Numbered /\ SalesUnique /\ [Next]_vars => (Typed /\ Numbered /\ SalesUnique)'
  BY TypedNext, LockHeldNext, FiledNext, SalesUniqueNext DEF Numbered
<1>3. SalesUnique => OneBillPerSale
  BY DEF SalesUnique
<1> QED
  BY <1>1, <1>2, <1>3, PTL DEF Spec

-----------------------------------------------------------------------------
(***************************************************************************)
(* Answers.  A call is answered once (Answered), against rows that keep    *)
(* number and sale, and a synced row's hash is its own call's content      *)
(* (HashIsContent), so what was true when it was answered stays true.      *)
(***************************************************************************)
Answered ==
    \A c \in Calls : reply[c].status \in {"committed", "mismatch"} => pc[c] = "done"

HashIsContent ==
    \A b \in Issued : bills[b].hash # None =>
        req[b].path = "sync" /\ bills[b].hash = Content(req[b])

Truthful == Answered /\ HashIsContent /\ AnswersAreTrue

\* What is true of a bill stays true: rows keep what an answer relies on, and
\* a call that is done keeps its request.
LEMMA RowsKept ==
    ASSUME Typed, Numbered, [Next]_vars
    PROVE  /\ \A b \in Issued :
                 /\ b \in Issued'
                 /\ bills'[b].key = bills[b].key
                 /\ bills'[b].seq = bills[b].seq
                 /\ bills'[b].sale = bills[b].sale
                 /\ bills'[b].hash = bills[b].hash
           /\ \A b \in Issued' \ Issued : Commit(b)
<1>1. CASE UNCHANGED <<counter, bills>>
  BY <1>1 DEF Issued
<1>2. ASSUME NEW c \in Calls, Commit(c)
      PROVE  /\ \A b \in Issued : b \in Issued' /\ bills'[b] = bills[b]
             /\ Issued' \ Issued = {c}
  BY <1>2, CommitAddsRow DEF Numbered
<1>3. ASSUME NEW x \in Cancels, CommitCancel(x)
      PROVE  /\ \A b \in Issued :
                   /\ b \in Issued'
                   /\ bills'[b].key = bills[b].key
                   /\ bills'[b].seq = bills[b].seq
                   /\ bills'[b].sale = bills[b].sale
                   /\ bills'[b].hash = bills[b].hash
             /\ Issued' \ Issued = {}
  BY <1>3, CancelKeepsRows
<1> QED
  BY <1>1, <1>2, <1>3, LedgerSteps

\* A step answers at most one call, and nobody else's request moves.
LEMMA OneAnswer ==
    ASSUME Typed, [Next]_vars, NEW c \in Calls
    PROVE  \/ /\ pc'[c] = pc[c] /\ req'[c] = req[c] /\ reply'[c] = reply[c]
           \/ /\ pc[c] # "done" /\ reply'[c] = reply[c]
           \/ /\ pc[c] # "done" /\ pc'[c] = "done" /\ req'[c] = req[c]
              /\ reply'[c].status \notin {"committed", "mismatch"}
           \/ /\ pc[c] = "received" /\ pc'[c] = "done" /\ req'[c] = req[c]
              /\ \E b \in SameSale(req[c].sale) :
                    \/ reply'[c] = [status |-> "committed", number |-> NumberOf(bills[b])]
                    \/ /\ bills[b].hash # None /\ bills[b].hash # Content(req[c])
                       /\ reply'[c] = [status |-> "mismatch"]
           \/ Commit(c)
<1> DEFINE Goal ==
           \/ /\ pc'[c] = pc[c] /\ req'[c] = req[c] /\ reply'[c] = reply[c]
           \/ /\ pc[c] # "done" /\ reply'[c] = reply[c]
           \/ /\ pc[c] # "done" /\ pc'[c] = "done" /\ req'[c] = req[c]
              /\ reply'[c].status \notin {"committed", "mismatch"}
           \/ /\ pc[c] = "received" /\ pc'[c] = "done" /\ req'[c] = req[c]
              /\ \E b \in SameSale(req[c].sale) :
                    \/ reply'[c] = [status |-> "committed", number |-> NumberOf(bills[b])]
                    \/ /\ bills[b].hash # None /\ bills[b].hash # Content(req[c])
                       /\ reply'[c] = [status |-> "mismatch"]
           \/ Commit(c)
<1>1. CASE UNCHANGED <<callVars, counter, holder>>
  BY <1>1 DEF callVars
<1>2. ASSUME NEW d \in Calls, NEW r \in Requests, Submit(d, r) PROVE Goal
  BY <1>2 DEF Submit, Typed, TypeOK
<1>3. ASSUME NEW d \in Calls, Advance(d) \/ Refuse(d) \/ Abort(d), d # c PROVE Goal
  BY <1>3 DEF Advance, Refuse, Abort, DedupOnline, LookupSync, Validate, RejectShift,
              EnsureCounter, LockCounter, InsertBill, UniqueViolation, Commit, Rollback, Answer,
              Typed, TypeOK
<1>4. CASE Validate(c) \/ EnsureCounter(c) \/ LockCounter(c) \/ InsertBill(c)
  BY <1>4 DEF Validate, EnsureCounter, LockCounter, InsertBill
<1>5. ASSUME Rollback(c), pc[c] # "done" PROVE Goal
  BY <1>5 DEF Rollback, Answer, Typed, TypeOK
<1>6. CASE Refuse(c)
  BY <1>6 DEF Refuse, Answer, Typed, TypeOK
<1>7. CASE DedupOnline(c)
  BY <1>7 DEF DedupOnline, Answer, Typed, TypeOK
<1>8. CASE LookupSync(c)
  BY <1>8 DEF LookupSync, Answer, Typed, TypeOK
<1>9. CASE RejectShift(c) \/ Abort(c) \/ UniqueViolation(c)
  BY <1>5, <1>9 DEF RejectShift, Abort, InTx, UniqueViolation
<1> QED
  BY <1>1, <1>2, <1>3, <1>4, <1>6, <1>7, <1>8, <1>9, OtherSteps DEF Advance

\* A row's hash and an answered call's request never change again.
LEMMA AnsweredNext ==
    Typed /\ Numbered /\ Truthful /\ [Next]_vars => Answered' /\ HashIsContent'
<1> SUFFICES ASSUME Typed, Numbered, Truthful, [Next]_vars PROVE Answered' /\ HashIsContent'
  OBVIOUS
<1>1. Answered'
  <2> SUFFICES ASSUME NEW c \in Calls, reply'[c].status \in {"committed", "mismatch"}
               PROVE  pc'[c] = "done"
    BY DEF Answered
  <2>1. CASE Commit(c)
    BY <2>1 DEF Commit, Answer, Typed, TypeOK
  <2> QED
    BY <2>1, OneAnswer DEF Truthful, Answered
<1>2. ASSUME NEW b \in Issued', bills'[b].hash # None
      PROVE  req'[b].path = "sync" /\ bills'[b].hash = Content(req'[b])
  <2>1. CASE b \in Issued
    <3>1. pc[b] = "done" /\ bills'[b].hash = bills[b].hash /\ b \in Calls
      BY <2>1, RowsKept DEF Numbered, IssuedDone, Issued
    <3>2. req'[b] = req[b]
      BY <3>1, OneAnswer DEF Commit
    <3> QED
      BY <1>2, <2>1, <3>1, <3>2 DEF Truthful, HashIsContent
  <2>2. CASE b \notin Issued
    <3>1. Commit(b) /\ b \in Calls
      BY <2>2, RowsKept DEF Issued
    <3>2. bills'[b] = RowOf(b) /\ req' = req
      BY <3>1, CommitAddsRow DEF Numbered, Commit, Answer
    <3> QED
      BY <1>2, <3>2 DEF RowOf
  <2> QED
    BY <2>1, <2>2
<1> QED
  BY <1>1, <1>2 DEF HashIsContent, Content

\* What a caller has been told stays true, and what it is told now is true.
LEMMA AnswersNext ==
    Typed /\ Numbered /\ Truthful /\ [Next]_vars => AnswersAreTrue'
<1> SUFFICES ASSUME Typed, Numbered, Truthful, [Next]_vars PROVE AnswersAreTrue'
  OBVIOUS
<1>0. \A b \in Issued : b \in Calls /\ req'[b] = req[b]
  BY OneAnswer DEF Numbered, IssuedDone, Issued, Commit
<1>1. ASSUME NEW c \in Calls, NEW b \in SameSale(req[c].sale), req'[c] = req[c],
             reply'[c] = [status |-> "committed", number |-> NumberOf(bills[b])]
      PROVE  \E d \in Issued' :
                /\ NumberOf(bills'[d]) = reply'[c].number
                /\ IF req'[c].sale = NoSale THEN d = c
                                            ELSE bills'[d].sale = req'[c].sale
  BY <1>1, RowsKept DEF SameSale, NumberOf
<1>2. ASSUME NEW c \in Calls, reply'[c].status = "committed"
      PROVE  \E d \in Issued' :
                /\ NumberOf(bills'[d]) = reply'[c].number
                /\ IF req'[c].sale = NoSale THEN d = c
                                            ELSE bills'[d].sale = req'[c].sale
  <2>1. CASE Commit(c)
    <3>1. /\ c \in Issued' /\ bills'[c] = RowOf(c) /\ req' = req
          /\ reply'[c].number = <<KeyOf(c), seq[c]>>
      BY <2>1, CommitAddsRow DEF Numbered, Commit, Answer, Typed, TypeOK
    <3> QED
      BY <3>1 DEF RowOf, NumberOf
  <2>2. CASE pc[c] = "done" /\ req'[c] = req[c] /\ reply'[c] = reply[c]
    <3>1. PICK d \in Issued :
                /\ NumberOf(bills[d]) = reply[c].number
                /\ IF req[c].sale = NoSale THEN d = c
                                           ELSE bills[d].sale = req[c].sale
      BY <1>2, <2>2 DEF Truthful, AnswersAreTrue, AnswerIsTheBill
    <3> QED
      BY <2>2, <3>1, RowsKept DEF NumberOf
  <2>3. ASSUME NEW b \in SameSale(req[c].sale), req'[c] = req[c],
               reply'[c] = [status |-> "committed", number |-> NumberOf(bills[b])]
                  \/ reply'[c] = [status |-> "mismatch"]
        PROVE  \E d \in Issued' :
                /\ NumberOf(bills'[d]) = reply'[c].number
                /\ IF req'[c].sale = NoSale THEN d = c
                                            ELSE bills'[d].sale = req'[c].sale
    BY <1>1, <1>2, <2>3
  <2> QED
    BY <1>2, <2>1, <2>2, <2>3, OneAnswer DEF Truthful, Answered
<1>3. ASSUME NEW c \in Calls, reply'[c].status = "mismatch"
      PROVE  \E b \in SameSale(req[c].sale)' :
                req'[b].path = "sync" /\ Content(req'[b]) # Content(req'[c])
  <2>1. CASE pc[c] = "done" /\ req'[c] = req[c] /\ reply'[c] = reply[c]
    <3>1. PICK b \in SameSale(req[c].sale) :
                req[b].path = "sync" /\ Content(req[b]) # Content(req[c])
      BY <1>3, <2>1 DEF Truthful, AnswersAreTrue, MismatchIsReal
    <3> QED
      BY <1>0, <2>1, <3>1, RowsKept DEF SameSale
  <2>2. ASSUME NEW b \in SameSale(req[c].sale), req'[c] = req[c],
               bills[b].hash # None, bills[b].hash # Content(req[c])
        PROVE  req'[b].path = "sync" /\ Content(req'[b]) # Content(req'[c])
                 /\ b \in SameSale(req[c].sale)'
    BY <1>0, <2>2, RowsKept DEF SameSale, Truthful, HashIsContent
  <2>3. ~Commit(c)
    BY <1>3 DEF Commit, Answer, Typed, TypeOK
  <2>4. \/ pc[c] = "done" /\ req'[c] = req[c] /\ reply'[c] = reply[c]
        \/ req'[c] = req[c] /\ \E b \in SameSale(req[c].sale) :
               bills[b].hash # None /\ bills[b].hash # Content(req[c])
    <3>1. reply[c].status = "mismatch" => pc[c] = "done"
      BY DEF Truthful, Answered
    <3>2. \A b : reply'[c] # [status |-> "committed", number |-> NumberOf(bills[b])]
      BY <1>3
    <3>3. reply'[c].status \in {"committed", "mismatch"}
      BY <1>3
    <3>4. reply'[c].status = "mismatch"
      BY <1>3
    <3>5. ~(pc[c] # "done" /\ reply'[c] = reply[c])
      BY <3>1, <3>4
    <3>6. (pc'[c] = pc[c] /\ req'[c] = req[c] /\ reply'[c] = reply[c]) => pc[c] = "done"
      BY <3>1, <3>4
    <3>7. \/ /\ pc'[c] = pc[c] /\ req'[c] = req[c] /\ reply'[c] = reply[c]
          \/ /\ pc[c] = "received" /\ pc'[c] = "done" /\ req'[c] = req[c]
             /\ \E b \in SameSale(req[c].sale) :
                   \/ reply'[c] = [status |-> "committed", number |-> NumberOf(bills[b])]
                   \/ /\ bills[b].hash # None /\ bills[b].hash # Content(req[c])
                      /\ reply'[c] = [status |-> "mismatch"]
      BY <2>3, <3>3, <3>5, OneAnswer
    <3> QED
      BY <3>2, <3>6, <3>7
  <2>5. CASE req'[c] = req[c] /\ \E b \in SameSale(req[c].sale) :
               bills[b].hash # None /\ bills[b].hash # Content(req[c])
    BY <2>2, <2>5
  <2> QED
    BY <2>1, <2>4, <2>5
<1>4. AnswerIsTheBill'
  BY <1>2 DEF AnswerIsTheBill
<1>5. MismatchIsReal'
  BY <1>3 DEF MismatchIsReal, Content
<1> QED
  BY <1>4, <1>5 DEF AnswersAreTrue

\* No caller is told "committed" with a number its sale's bill does not carry,
\* nor "mismatch" without a synced bill of other content, in any order of
\* creates, syncs, resubmissions and cancels (bills.service.ts,
\* sync.service.ts).
THEOREM AnswersHold == Spec => []AnswersAreTrue
<1>1. Init => Typed /\ Numbered /\ Truthful
  BY TypedInit, NumberedInit
  DEF Init, Truthful, Answered, HashIsContent, AnswersAreTrue, AnswerIsTheBill, MismatchIsReal,
      Issued
<1>2. Typed /\ Numbered /\ Truthful /\ [Next]_vars => (Typed /\ Numbered /\ Truthful)'
  BY TypedNext, LockHeldNext, FiledNext, AnsweredNext, AnswersNext DEF Numbered, Truthful
<1>3. Truthful => AnswersAreTrue
  BY DEF Truthful
<1> QED
  BY <1>1, <1>2, <1>3, PTL DEF Spec

-----------------------------------------------------------------------------
(***************************************************************************)
(* Stock.  Between its UPDATE and its commit a cancel holds the bill's row *)
(* (RowHeld), so what it read of the movements it will return (Returning)  *)
(* is still what is there when it commits.                                 *)
(***************************************************************************)
RowHeld ==
    \A x \in Cancels : xpc[x] \in {"updated", "reversed"} => rowLock[target[x]] = x

Returning ==
    \A x \in Cancels : xpc[x] = "reversed" =>
        returning[x] = IF bills[target[x]].status = "CANCELLED" THEN 0 ELSE 1

StockKept == RowHeld /\ Returning /\ StockFollowsBill

\* A cancel call's step, or one that leaves its variables alone.
LEMMA CancelSteps ==
    ASSUME [Next]_vars
    PROVE  \/ UNCHANGED <<cancelVars, bills, moves>>
           \/ UNCHANGED cancelVars /\ \E c \in Calls : Commit(c)
           \/ UNCHANGED <<bills, moves>> /\ \E x \in Cancels :
                 (\E b \in Calls : CheckCancel(x, b)) \/ UpdateRow(x) \/ ReverseStock(x)
                   \/ AbortCancel(x)
           \/ \E x \in Cancels : CommitCancel(x)
<1>1. ASSUME NEW c \in Calls, Advance(c) \/ Refuse(c) \/ Abort(c), ~Commit(c)
      PROVE  UNCHANGED <<cancelVars, bills, moves>>
  BY <1>1 DEF Advance, Refuse, Abort, DedupOnline, LookupSync, Validate, RejectShift,
              EnsureCounter, LockCounter, InsertBill, UniqueViolation, Rollback, ledgerVars
<1>2. ASSUME NEW c \in Calls, Commit(c) PROVE UNCHANGED cancelVars
  BY <1>2 DEF Commit
<1>3. ASSUME NEW x \in Cancels, NEW b \in Calls,
             CheckCancel(x, b) \/ UpdateRow(x) \/ ReverseStock(x) \/ AbortCancel(x)
      PROVE  UNCHANGED <<bills, moves>>
  BY <1>3 DEF CheckCancel, UpdateRow, ReverseStock, AbortCancel, ledgerVars
<1>4. ASSUME NEW x \in Cancels, UpdateRow(x) \/ ReverseStock(x) \/ AbortCancel(x)
      PROVE  UNCHANGED <<bills, moves>>
  BY <1>4 DEF UpdateRow, ReverseStock, AbortCancel, ledgerVars
<1>5. ASSUME \/ \E c \in Calls, r \in Requests : Submit(c, r)
             \/ \E s \in Shifts : CloseShift(s)
             \/ Midnight \/ AllAnswered \/ UNCHANGED vars
      PROVE  UNCHANGED <<cancelVars, bills, moves>>
  BY <1>5 DEF Submit, CloseShift, Midnight, AllAnswered, vars, ledgerVars, cancelVars
<1> QED
  BY <1>1, <1>2, <1>3, <1>4, <1>5 DEF Next, Advance, AdvanceCancel

\* The row lock serialises cancels of one bill; each returns what is still out.
LEMMA StockKeptNext == Typed /\ Numbered /\ StockKept /\ [Next]_vars => StockKept'
<1> SUFFICES ASSUME Typed, Numbered, StockKept, [Next]_vars PROVE StockKept'
  OBVIOUS
<1> USE DEF StockKept
<1>0. \A x \in Cancels : xpc[x] \in {"updated", "reversed"} => target[x] \in Issued
  BY DEF Typed, TargetKnown, Issued
<1>1. CASE UNCHANGED <<cancelVars, bills, moves>>
  BY <1>1 DEF RowHeld, Returning, StockFollowsBill, Issued, cancelVars
<1>2. ASSUME NEW c \in Calls, Commit(c), UNCHANGED cancelVars PROVE StockKept'
  <2>1. /\ c \notin Issued /\ Issued' = Issued \cup {c}
        /\ \A b \in Issued : bills'[b] = bills[b]
        /\ bills'[c] = RowOf(c)
    BY <1>2, CommitAddsRow DEF Numbered
  <2> RowOf(c).status = "COMPLETED"
    BY DEF RowOf
  <2>2. moves[c] = [out |-> 0, back |-> 0]
    BY <2>1 DEF StockFollowsBill
  <2>3. moves'[c] = [out |-> 1, back |-> 0] /\ \A b \in Calls \ {c} : moves'[b] = moves[b]
    BY <1>2, <2>2 DEF Commit, Typed, TypeOK
  <2>4. StockFollowsBill'
    BY <2>1, <2>3 DEF StockFollowsBill, Issued
  <2>5. RowHeld' /\ Returning'
    BY <1>0, <1>2, <2>1 DEF RowHeld, Returning, cancelVars
  <2> QED
    BY <2>4, <2>5
<1>3. ASSUME UNCHANGED <<bills, moves>> PROVE StockFollowsBill'
  BY <1>3 DEF StockFollowsBill, Issued
<1>4. ASSUME NEW x \in Cancels, NEW b \in Calls, CheckCancel(x, b), UNCHANGED <<bills, moves>>
      PROVE  StockKept'
  BY <1>3, <1>4 DEF CheckCancel, RowHeld, Returning, Typed, TypeOK
<1>5. ASSUME NEW x \in Cancels, UpdateRow(x), UNCHANGED <<bills, moves>> PROVE StockKept'
  <2>1. target[x] \in Calls /\ x # None
    BY <1>5, NoneDistinct DEF UpdateRow, Typed, TargetKnown
  <2>2. RowHeld'
    BY <1>5, <2>1, NoneDistinct DEF UpdateRow, RowHeld, Typed, TypeOK
  <2> QED
    BY <1>3, <1>5, <2>2 DEF UpdateRow, Returning, Typed, TypeOK
<1>6. ASSUME NEW x \in Cancels, ReverseStock(x), UNCHANGED <<bills, moves>> PROVE StockKept'
  <2>1. target[x] \in Issued /\ target[x] \in Calls
    BY <1>0, <1>6 DEF ReverseStock, Issued
  <2>2. moves[target[x]] = [out |-> 1,
                            back |-> IF bills[target[x]].status = "CANCELLED" THEN 1 ELSE 0]
    BY <2>1 DEF StockFollowsBill
  <2>3. /\ returning'[x] = IF bills[target[x]].status = "CANCELLED" THEN 0 ELSE 1
        /\ \A y \in Cancels \ {x} : returning'[y] = returning[y]
    BY <1>6, <2>2 DEF ReverseStock, Typed, TypeOK
  <2>4. Returning'
    BY <1>6, <2>3 DEF ReverseStock, Returning, Typed, TypeOK
  <2> QED
    BY <1>3, <1>6, <2>4 DEF ReverseStock, RowHeld, Typed, TypeOK
<1>7. ASSUME NEW x \in Cancels, AbortCancel(x), UNCHANGED <<bills, moves>> PROVE StockKept'
  <2>1. RowHeld'
    BY <1>0, <1>7 DEF AbortCancel, RowHeld, Issued, Typed, TypeOK
  <2> QED
    BY <1>3, <1>7, <2>1 DEF AbortCancel, Returning, Typed, TypeOK
<1>8. ASSUME NEW x \in Cancels, CommitCancel(x) PROVE StockKept'
  <2>1. /\ Issued' = Issued /\ target[x] \in Issued /\ target[x] \in Calls
        /\ \A b \in Issued : bills'[b].status =
              IF b = target[x] THEN "CANCELLED" ELSE bills[b].status
    BY <1>8, CancelKeepsRows DEF Issued
  <2>2. moves[target[x]] = [out |-> 1,
                            back |-> IF bills[target[x]].status = "CANCELLED" THEN 1 ELSE 0]
    BY <2>1 DEF StockFollowsBill
  <2>3. returning[x] = IF bills[target[x]].status = "CANCELLED" THEN 0 ELSE 1
    BY <1>8 DEF CommitCancel, Returning
  <2>4. /\ moves'[target[x]] = [out |-> 1, back |-> 1]
        /\ \A b \in Calls \ {target[x]} : moves'[b] = moves[b]
    BY <1>8, <2>1, <2>2, <2>3 DEF CommitCancel, Typed, TypeOK
  <2>5. StockFollowsBill'
    BY <2>1, <2>4 DEF StockFollowsBill, Issued
  <2>6. ASSUME NEW y \in Cancels, xpc'[y] \in {"updated", "reversed"}
        PROVE  /\ rowLock'[target'[y]] = y
               /\ xpc'[y] = "reversed" => bills'[target'[y]].status = bills[target[y]].status
    <3>1. y # x /\ xpc'[y] = xpc[y] /\ target'[y] = target[y]
      BY <1>8, <2>6 DEF CommitCancel, Typed, TypeOK
    <3>2. rowLock[target[y]] = y /\ rowLock[target[x]] = x /\ target[y] \in Issued
      BY <1>0, <1>8, <2>6, <3>1 DEF RowHeld, CommitCancel
    <3>3. target[y] # target[x] /\ target[y] \in Calls
      BY <3>1, <3>2 DEF Issued
    <3> QED
      BY <1>8, <2>1, <3>1, <3>2, <3>3 DEF CommitCancel, Typed, TypeOK
  <2>7. RowHeld'
    BY <2>6 DEF RowHeld
  <2>8. Returning'
    BY <1>8, <2>6 DEF Returning, CommitCancel, Typed, TypeOK
  <2> QED
    BY <2>5, <2>7, <2>8
<1> QED
  BY <1>1, <1>2, <1>4, <1>5, <1>6, <1>7, <1>8, CancelSteps

\* A bill's ingredients leave the stock once, and come back exactly when it is
\* cancelled, however cancels race, fail or repeat (bills.service.ts,
\* recipe-consumption.service.ts reverseForBill).
THEOREM StockIsReturnedOnce == Spec => []StockFollowsBill
<1>1. Init => Typed /\ Numbered /\ StockKept
  BY TypedInit, NumberedInit
  DEF Init, StockKept, RowHeld, Returning, StockFollowsBill, Issued
<1>2. Typed /\ Numbered /\ StockKept /\ [Next]_vars => (Typed /\ Numbered /\ StockKept)'
  BY TypedNext, LockHeldNext, FiledNext, StockKeptNext DEF Numbered
<1>3. StockKept => StockFollowsBill
  BY DEF StockKept
<1> QED
  BY <1>1, <1>2, <1>3, PTL DEF Spec

-----------------------------------------------------------------------------
(***************************************************************************)
(* Refinement.  Page n of a book is the one bill numbered n (PageIs), so   *)
(* filing the next number appends a page and a cancel stamps the page it   *)
(* finds; every other statement of every call is a stutter of the book.    *)
(***************************************************************************)

\* The page of a filed number is the bill that carries it, and a number past
\* the last has none.
LEMMA PageIs ==
    ASSUME Typed, Numbered, NEW k \in Keys, NEW b \in Issued, bills[b].key = k
    PROVE  bills[b].seq \in 1..LastNo(k) /\ PageOf(k, bills[b].seq) = b
<1>1. bills[b].seq \in 1..LastNo(k)
  BY DEF Numbered, Filed
<1>2. {i \in Issued : bills[i].key = k /\ bills[i].seq = bills[b].seq} = {b}
  BY DEF Numbered, Filed
<1> QED
  BY <1>1, <1>2 DEF PageOf

\* Every page of a book is a filed bill of that book with that number.
LEMMA PageHolds ==
    ASSUME Typed, Numbered, NEW k \in Keys, NEW n \in 1..LastNo(k)
    PROVE  /\ PageOf(k, n) \in Issued
           /\ bills[PageOf(k, n)].key = k
           /\ bills[PageOf(k, n)].seq = n
<1>1. PICK b \in Issued : bills[b].key = k /\ bills[b].seq = n
  BY DEF Numbered, Filed
<1>2. PageOf(k, n) = b
  BY <1>1, PageIs
<1> QED
  BY <1>1, <1>2

\* A book is a sequence of lastNo bills.
LEMMA BookIsSequence ==
    ASSUME Typed, Numbered, NEW k \in Keys
    PROVE  /\ Pages[k] \in Seq(Calls)
           /\ Len(Pages[k]) = LastNo(k)
           /\ \A n \in 1..LastNo(k) : Pages[k][n] = PageOf(k, n)
<1>1. LastNo(k) \in Nat
  BY LastNoType
<1>2. \A n \in 1..LastNo(k) : PageOf(k, n) \in Calls
  BY PageHolds DEF Issued
<1>3. Pages[k] = [n \in 1..LastNo(k) |-> PageOf(k, n)]
  BY DEF Pages
<1> QED
  BY <1>1, <1>2, <1>3

\* The shape of the books, as one formula that can be primed.
WellBound ==
    \A k \in Keys :
        /\ Pages[k] \in Seq(Calls)
        /\ Len(Pages[k]) = LastNo(k)
        /\ \A n \in 1..LastNo(k) : Pages[k][n] = PageOf(k, n)
        /\ \A b \in Issued : bills[b].key = k => PageOf(k, bills[b].seq) = b

\* The books are well bound before every step, and after it.
LEMMA Bound == Typed /\ Numbered => WellBound
  BY BookIsSequence, PageIs DEF WellBound

\* (see Bound)
LEMMA BoundNext == (Typed /\ Numbered => WellBound)'
  BY Bound, PTL

\* A bill is written in a book exactly when it is filed under it.
LEMMA WrittenIs ==
    ASSUME Typed, Numbered, NEW k \in Keys
    PROVE  Book!Written(k) = {b \in Issued : bills[b].key = k}
<1>1. Book!Written(k) = {PageOf(k, n) : n \in 1..LastNo(k)}
  BY BookIsSequence DEF Book!Written
<1>2. ASSUME NEW b \in Issued, bills[b].key = k PROVE b \in Book!Written(k)
  BY <1>1, <1>2, PageIs
<1>3. ASSUME NEW b \in Book!Written(k) PROVE b \in Issued /\ bills[b].key = k
  BY <1>1, <1>3, PageHolds
<1> QED
  BY <1>2, <1>3 DEF Issued

\* A step that leaves the committed tables alone leaves the book alone.
LEMMA QuietBook ==
    ASSUME UNCHANGED <<counter, bills>>
    PROVE  UNCHANGED <<Pages, Voided>>
<1>1. Issued' = Issued /\ \A k : LastNo(k)' = LastNo(k)
  BY DEF Issued, LastNo
<1>2. \A k, n : PageOf(k, n)' = PageOf(k, n)
  BY <1>1 DEF PageOf
<1>3. Pages' = Pages
  BY <1>1, <1>2 DEF Pages
<1> QED
  BY <1>1, <1>3 DEF Voided

\* A commit writes the next page of its book.
LEMMA CommitIssues ==
    ASSUME Typed, Numbered, (Typed /\ Numbered)', NEW c \in Calls, Commit(c)
    PROVE  Book!Issue(KeyOf(c), c)
<1>0. KeyOf(c) \in Keys /\ WellBound'
  BY CommitAddsRow, BoundNext DEF Numbered
<1> PICK q \in Keys : q = KeyOf(c)
  BY <1>0
<1>1. /\ c \notin Issued
      /\ Issued' = Issued \cup {c}
      /\ \A b \in Issued : bills'[b] = bills[b]
      /\ bills'[c].key = q /\ bills'[c].seq = seq[c] /\ bills'[c].status = "COMPLETED"
  <2>1. bills'[c] = RowOf(c)
    BY CommitAddsRow DEF Numbered
  <2> QED
    BY <2>1, CommitAddsRow DEF Numbered, RowOf
<1>2. seq[c] = LastNo(q) + 1 /\ LastNo(q) \in Nat
  BY LastNoType DEF Commit, Numbered, LockHeld
<1>3. LastNo(q)' = LastNo(q) + 1 /\ \A k \in Keys \ {q} : LastNo(k)' = LastNo(k)
  <2>1. counter'[q] = LastNo(q) + 1 /\ \A k \in Keys \ {q} : counter'[k] = counter[k]
    BY <1>2 DEF Commit, Typed, TypeOK
  <2>2. LastNo(q) + 1 # NoRow
    BY <1>2 DEF NoRow
  <2>3. \A k \in Keys \ {q} : LastNo(k)' = LastNo(k)
    BY <2>1 DEF LastNo
  <2>4. LastNo(q)' = IF counter'[q] = NoRow THEN 0 ELSE counter'[q]
    BY DEF LastNo
  <2> QED
    BY <2>1, <2>2, <2>3, <2>4
<1>4. ASSUME NEW k \in Keys, NEW n \in 1..LastNo(k) PROVE PageOf(k, n)' = PageOf(k, n)
  <2>1. PICK b \in Issued : PageOf(k, n) = b /\ bills[b].key = k /\ bills[b].seq = n
    BY PageHolds
  <2>2. b \in Issued' /\ bills'[b].key = k /\ bills'[b].seq = n
    BY <1>1, <2>1
  <2>3. PageOf(k, n)' = b
    BY <1>0, <2>2 DEF WellBound
  <2> QED
    BY <2>1, <2>3
<1> PICK m \in Nat : m = seq[c] /\ m = LastNo(q) + 1
  BY <1>2
<1>5. PageOf(q, m)' = c
  <2>1. c \in Issued' /\ bills'[c].key = q /\ bills'[c].seq = m
    BY <1>1
  <2> QED
    BY <1>0, <2>1 DEF WellBound
<1>6. ASSUME NEW k \in Keys \ {q} PROVE Pages'[k] = Pages[k]
  BY <1>3, <1>4 DEF Pages
<1>7. Pages'[q] = Append(Pages[q], c)
  <2>1. /\ Pages[q] \in Seq(Calls) /\ Len(Pages[q]) = LastNo(q)
        /\ \A n \in 1..LastNo(q) : Pages[q][n] = PageOf(q, n)
    BY BookIsSequence
  <2>2. /\ Pages'[q] \in Seq(Calls) /\ Len(Pages'[q]) = LastNo(q) + 1
        /\ \A n \in 1..(LastNo(q) + 1) : Pages'[q][n] = PageOf(q, n)'
    BY <1>0, <1>3 DEF WellBound
  <2>3. \A n \in 1..LastNo(q) : Pages'[q][n] = Pages[q][n]
    BY <1>2, <1>4, <2>1, <2>2
  <2>4. Pages'[q][LastNo(q) + 1] = c
    BY <1>2, <1>5, <2>2
  <2> QED
    BY <1>2, <2>1, <2>2, <2>3, <2>4
<1>8. \A k \in Keys : c \notin Book!Written(k)
  BY <1>1, WrittenIs
<1>9. Pages' = [Pages EXCEPT ![q] = Append(Pages[q], c)]
  BY <1>6, <1>7 DEF Pages
<1>10. Voided' = Voided
  BY <1>1 DEF Voided
<1> QED
  BY <1>8, <1>9, <1>10 DEF Book!Issue

\* A cancel stamps its bill's page, or finds it stamped.
LEMMA CancelVoids ==
    ASSUME Typed, Numbered, (Typed /\ Numbered)', NEW x \in Cancels, CommitCancel(x)
    PROVE  \/ \E k \in Keys : Book!Void(k, target[x])
           \/ UNCHANGED <<Pages, Voided>>
<1>1. /\ Issued' = Issued
      /\ \A b \in Issued :
            /\ bills'[b].key = bills[b].key
            /\ bills'[b].seq = bills[b].seq
            /\ bills'[b].status = IF b = target[x] THEN "CANCELLED" ELSE bills[b].status
      /\ target[x] \in Issued
  BY CancelKeepsRows
<1>2. \A k : LastNo(k)' = LastNo(k)
  BY DEF CommitCancel, LastNo
<1>3. \A k, n : PageOf(k, n)' = PageOf(k, n)
  <2> SUFFICES ASSUME NEW k, NEW n PROVE PageOf(k, n)' = PageOf(k, n)
    OBVIOUS
  <2> DEFINE numbered == {b \in Issued : bills[b].key = k /\ bills[b].seq = n}
  <2>1. numbered' = numbered
    BY <1>1
  <2>2. PageOf(k, n) = IF numbered = {} THEN None ELSE CHOOSE b \in numbered : TRUE
    BY DEF PageOf
  <2>3. PageOf(k, n)' = IF numbered' = {} THEN None ELSE CHOOSE b \in numbered' : TRUE
    BY DEF PageOf
  <2> HIDE DEF numbered
  <2> QED
    BY <2>1, <2>2, <2>3
<1>4. Pages' = Pages
  BY <1>2, <1>3 DEF Pages
<1>5. Voided' = Voided \cup {target[x]}
  BY <1>1 DEF Voided
<1>6. bills[target[x]].key \in Keys
  BY <1>1 DEF Issued, Typed, TypeOK, BillRows
<1>7. target[x] \in Book!Written(bills[target[x]].key)
  BY <1>1, <1>6, WrittenIs
<1> QED
  BY <1>4, <1>5, <1>6, <1>7 DEF Book!Void

\* The concurrent, crashing, resubmitted ledger is a receipt book written one
\* page after another: every commit is one Issue, every first cancel of a bill
\* one Void, and no other statement of a call shows (bill-number.service.ts,
\* bills.service.ts, sync.service.ts).
THEOREM LedgerIsReceiptBook == Spec => ImplementsBook
<1>1. Init => Book!Init
  <2> SUFFICES ASSUME Init PROVE Book!Init
    OBVIOUS
  <2>1. Issued = {} /\ \A k \in Keys : LastNo(k) = 0
    BY DEF Init, Issued, LastNo
  <2>2. Pages = [k \in Keys |-> << >>]
    BY <2>1 DEF Pages
  <2> QED
    BY <2>1, <2>2 DEF Book!Init, Voided
<1>2. ASSUME Typed, Numbered, (Typed /\ Numbered)', [Next]_vars
      PROVE  [Book!Next]_<<Pages, Voided>>
  <2>1. CASE UNCHANGED <<counter, bills>>
    BY <2>1, QuietBook
  <2>2. ASSUME NEW c \in Calls, Commit(c) PROVE Book!Next
    <3>1. KeyOf(c) \in Keys
      BY <2>2, CommitAddsRow, <1>2 DEF Numbered
    <3> QED
      BY <1>2, <2>2, <3>1, CommitIssues DEF Book!Next
  <2>3. ASSUME NEW x \in Cancels, CommitCancel(x) PROVE [Book!Next]_<<Pages, Voided>>
    <3>1. target[x] \in Calls
      BY <1>2, <2>3, CancelKeepsRows DEF Issued
    <3> QED
      BY <1>2, <2>3, <3>1, CancelVoids DEF Book!Next
  <2> QED
    BY <1>2, <2>1, <2>2, <2>3, LedgerSteps
<1>3. Init => Typed /\ Numbered
  BY TypedInit, NumberedInit
<1>4. Typed /\ Numbered /\ [Next]_vars => (Typed /\ Numbered)'
  BY TypedNext, LockHeldNext, FiledNext DEF Numbered
<1> QED
  BY <1>1, <1>2, <1>3, <1>4, PTL DEF Spec, ImplementsBook, Book!Spec
=============================================================================
