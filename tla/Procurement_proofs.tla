------------------------- MODULE Procurement_proofs -------------------------
(***************************************************************************)
(* Machine-checked proofs about Procurement, for every number of calls,    *)
(* all amounts, every threshold and every bound on the code allocation.    *)
(***************************************************************************)
EXTENDS Procurement, Sums

OrderOps == {"update", "approve", "reject", "send", "cancel", "receive"}

\* What each kind of request carries, and the row it names.
LEMMA RequestFields ==
    ASSUME NEW r \in Requests
    PROVE  /\ r.op \in OrderOps \cup {"createOrder", "pay", "createEntry"}
           /\ r.op \in OrderOps => r.row \in Orders
           /\ r.op \in {"createOrder", "update"} => r.vnd \in LineVnd
           /\ r.op = "pay" => r.row \in Payables /\ r.vnd \in PayVnd
           /\ "row" \in DOMAIN r <=> r.op \in OrderOps \cup {"pay"}
<1>1. CASE r \in [op : {"createOrder"}, vnd : LineVnd]
  BY <1>1 DEF OrderOps
<1>2. CASE r \in [op : {"update"}, row : Orders, vnd : LineVnd]
  BY <1>2 DEF OrderOps
<1>3. CASE r \in [op : {"approve", "reject", "send", "cancel"}, row : Orders]
  BY <1>3 DEF OrderOps
<1>4. CASE r \in [op : {"receive"}, row : Orders, vnd : LineVnd \cup {None}]
  BY <1>4 DEF OrderOps
<1>5. CASE r \in [op : {"pay"}, row : Payables, vnd : PayVnd]
  BY <1>5 DEF OrderOps
<1>6. CASE r \in [op : {"createEntry"}]
  BY <1>6 DEF OrderOps
<1> QED
  BY <1>1, <1>2, <1>3, <1>4, <1>5, <1>6 DEF Requests

\* A call in flight has a request; past its first read it has found the row it
\* names, and carries the counts and amounts it has read.
Asked(c) ==
    /\ req[c] \in Requests
    /\ at[c] = "checked" => req[c].op \in OrderOps
    /\ at[c] = "deleted" => req[c].op = "update"
    /\ at[c] \in {"counting", "counted"} => req[c].op \in {"createOrder", "pay", "createEntry"}
    /\ req[c].op \in OrderOps => req[c].row \in Filed
    /\ req[c].op = "receive" => seen[c] \in Nat
    /\ req[c].op = "pay" => req[c].row \in Owed /\ seen[c].paid \in Nat
    /\ at[c] = "counted" => IF req[c].op = "createOrder"
                            THEN seen[c] \in 0 .. Cardinality(Filed)
                            ELSE seen[c].count \in 0 .. Cardinality(entries)
Busy == {c \in Calls : at[c] \notin {"idle", "done"}}
AllAsked == \A c \in Busy : Asked(c)

\* A call that is not over has created nothing.
NamesFree ==
    \A c \in Calls : at[c] # "done" =>
        order[c] = None /\ payable[c] = None /\ \A e \in entries : e.by # c
Finite ==
    /\ IsFiniteSet(Filed) /\ IsFiniteSet(Owed) /\ IsFiniteSet(entries)
    /\ \A o \in Filed : IsFiniteSet(order[o].lines)

EachSeen == seen = [c \in Calls |-> seen[c]]

Typed == TypeOK /\ EachSeen /\ AllAsked /\ NamesFree /\ Finite

\* What the lines of an order are worth.
LEMMA TotalType == ASSUME Typed, NEW o \in Filed PROVE Total(o) \in Nat
<1> DEFINE ls == order[o].lines
<1>1. IsFiniteSet(ls) /\ \A l \in ls : l.vnd \in Nat
  BY AmountsType DEF Typed, TypeOK, Finite, Filed, OrderRows
<1>2. Total(o) = Costs(ls)
  BY DEF Total, Costs
<1> HIDE DEF ls
<1>3. Costs(ls) = Sum([l \in ls |-> l.vnd], ls)
  BY CostsSum
<1> QED
  BY <1>1, <1>2, <1>3, SumType

\* The first order and the first payable are the only ones.
LEMMA TypedInit == Init => Typed
<1> SUFFICES ASSUME Init PROVE Typed
  OBVIOUS
<1>1. PICK r \in FirstOrders : order = [o \in Orders |-> IF o = FirstOrder THEN r ELSE None]
  BY DEF Init
<1>2. PICK v \in LineVnd : r.lines = {Line(FirstEdit, v)}
  BY <1>1 DEF FirstOrders
<1>3. r \in OrderRows
  BY <1>1, <1>2 DEF FirstOrders, OrderRows, Line
<1>4. r # None /\ IsFiniteSet(r.lines)
  BY <1>2, <1>3, NoneIsNoRow, FS_Singleton
<1>5. Filed = {FirstOrder}
  BY <1>1, <1>4 DEF Filed, Orders
<1> DEFINE q == [order |-> None, vnd |-> FirstVnd, paid |-> 0, status |-> "OPEN"]
<1>6. q \in PayableRows /\ q # None
  <2>1. q \in PayableRows
    BY AmountsType DEF PayableRows
  <2> QED
    BY <2>1, NoneIsNoRow
<1>7. payable = [p \in Payables |-> IF p # FirstPayable THEN None ELSE q]
  BY DEF Init
<1> HIDE DEF q
<1>8. Owed = {FirstPayable}
  BY <1>6, <1>7 DEF Owed, Payables
<1>9. Finite
  BY <1>1, <1>4, <1>5, <1>8, FS_Singleton, FS_EmptySet DEF Finite, Init, Orders
<1>10. TypeOK
  <2>1. order \in [Orders -> OrderRows \cup {None}]
    BY <1>1, <1>3
  <2>2. payable \in [Payables -> PayableRows \cup {None}]
    BY <1>6, <1>7
  <2> QED
    BY <2>1, <2>2, AttemptsType DEF TypeOK, Init
<1>11. NamesFree
  BY <1>1, <1>7, NamesDiffer DEF NamesFree, Orders, Payables, Init
<1> QED
  BY <1>9, <1>10, <1>11 DEF Typed, AllAsked, Busy, EachSeen, Init

-----------------------------------------------------------------------------
(***************************************************************************)
(* The steps: a request that passed its handler's checks (Begin), a look   *)
(* that writes no row, and the commits.                                    *)
(***************************************************************************)

\* What the handler of an order has read of the order it names.
HasRead(r) ==
    LET o == r.row IN
    /\ r.op \in {"approve", "update"} => order[o].status = "DRAFT"
    /\ r.op = "reject" => order[o].status = "APPROVED"
    /\ r.op = "send" =>
          \/ order[o].status = "APPROVED"
          \/ order[o].status = "DRAFT" /\ ~NeedsApproval(o)
    /\ r.op = "cancel" => order[o].status \in {"DRAFT", "APPROVED", "SENT"}
    /\ r.op = "receive" => order[o].status = "SENT"

\* What the checks of r established: the first step of its call.
Passed(r, where, read) ==
    /\ r \in Requests
    /\ where = IF r.op \in OrderOps THEN "checked" ELSE "counting"
    /\ r.op \in OrderOps => r.row \in Filed /\ HasRead(r)
    /\ r.op = "receive" => read \in Nat
    /\ r.op = "pay" =>
          /\ r.row \in Owed /\ read.paid = payable[r.row].paid
          /\ payable[r.row] \in PayableRows
          /\ r.vnd + payable[r.row].paid <= payable[r.row].vnd

\* A call arrives with a request that passed the checks on the rows as they are.
LEMMA Arrivals ==
    ASSUME Typed, NEW c \in Calls, Arrive(c)
    PROVE  \E r, where, read : Begin(c, r, where, read) /\ Passed(r, where, read)
<1> USE DEF Passed, HasRead, OrderOps, Is, Ask, Requests
<1>1. ASSUME CreateEntry(c)
      PROVE \E r, where, read : Begin(c, r, where, read) /\ Passed(r, where, read)
  <2>1. Begin(c, [op |-> "createEntry"], "counting", None)
    BY <1>1 DEF CreateEntry
  <2>2. Passed([op |-> "createEntry"], "counting", None)
    BY <1>1 DEF CreateEntry
  <2> QED
    BY <2>1, <2>2, Zenon
<1>2. ASSUME NEW v \in LineVnd, CreateOrder(c, v)
      PROVE \E r, where, read : Begin(c, r, where, read) /\ Passed(r, where, read)
  <2>1. Begin(c, [op |-> "createOrder", vnd |-> v], "counting", None)
    BY <1>2 DEF CreateOrder
  <2>2. Passed([op |-> "createOrder", vnd |-> v], "counting", None)
    BY <1>2 DEF CreateOrder
  <2> QED
    BY <2>1, <2>2, Zenon
<1>3. ASSUME NEW o \in Orders, CheckApprove(c, o)
      PROVE \E r, where, read : Begin(c, r, where, read) /\ Passed(r, where, read)
  <2>1. Begin(c, Ask("approve", o), "checked", None)
    BY <1>3 DEF CheckApprove
  <2>2. Passed(Ask("approve", o), "checked", None)
    BY <1>3 DEF CheckApprove
  <2> QED
    BY <2>1, <2>2, Zenon
<1>4. ASSUME NEW o \in Orders, CheckReject(c, o)
      PROVE \E r, where, read : Begin(c, r, where, read) /\ Passed(r, where, read)
  <2>1. Begin(c, Ask("reject", o), "checked", None)
    BY <1>4 DEF CheckReject
  <2>2. Passed(Ask("reject", o), "checked", None)
    BY <1>4 DEF CheckReject
  <2> QED
    BY <2>1, <2>2, Zenon
<1>5. ASSUME NEW o \in Orders, CheckSend(c, o)
      PROVE \E r, where, read : Begin(c, r, where, read) /\ Passed(r, where, read)
  <2>1. Begin(c, Ask("send", o), "checked", None)
    BY <1>5 DEF CheckSend
  <2>2. Passed(Ask("send", o), "checked", None)
    BY <1>5 DEF CheckSend
  <2> QED
    BY <2>1, <2>2, Zenon
<1>6. ASSUME NEW o \in Orders, CheckCancel(c, o)
      PROVE \E r, where, read : Begin(c, r, where, read) /\ Passed(r, where, read)
  <2>1. Begin(c, Ask("cancel", o), "checked", None)
    BY <1>6 DEF CheckCancel
  <2>2. Passed(Ask("cancel", o), "checked", None)
    BY <1>6 DEF CheckCancel
  <2> QED
    BY <2>1, <2>2, Zenon
<1>7. ASSUME NEW o \in Orders, NEW v \in LineVnd, CheckUpdate(c, o, v)
      PROVE \E r, where, read : Begin(c, r, where, read) /\ Passed(r, where, read)
  <2>1. Begin(c, [op |-> "update", row |-> o, vnd |-> v], "checked", None)
    BY <1>7 DEF CheckUpdate
  <2>2. Passed([op |-> "update", row |-> o, vnd |-> v], "checked", None)
    BY <1>7 DEF CheckUpdate
  <2> QED
    BY <2>1, <2>2, Zenon
<1>8. ASSUME NEW o \in Orders, NEW v \in LineVnd \cup {None}, CheckReceive(c, o, v)
      PROVE \E r, where, read : Begin(c, r, where, read) /\ Passed(r, where, read)
  <2>1. o \in Filed
    BY <1>8 DEF CheckReceive
  <2>2. (IF v = None THEN Total(o) ELSE v) \in Nat
    BY <2>1, TotalType, AmountsType
  <2> QED
    BY <1>8, <2>1, <2>2 DEF CheckReceive
<1>9. ASSUME NEW p \in Payables, NEW v \in PayVnd, CheckPay(c, p, v)
      PROVE \E r, where, read : Begin(c, r, where, read) /\ Passed(r, where, read)
  <2>1. payable[p] \in PayableRows
    BY <1>9 DEF CheckPay, Owed, Typed, TypeOK
  <2>2. payable[p].paid \in Nat /\ payable[p].vnd \in Nat /\ v \in Nat
    BY <2>1, AmountsType DEF PayableRows
  <2> QED
    BY <1>9, <2>1, <2>2 DEF CheckPay
<1> QED
  BY <1>1, <1>2, <1>3, <1>4, <1>5, <1>6, <1>7, <1>8, <1>9 DEF Arrive

\* A look of a call writes no row: it goes on with what it has read, or ends.
LEMMA Looks ==
    ASSUME Typed, NEW c \in Calls,
           \/ CountOrders(c) \/ DeleteLines(c) \/ CountEntries(c)
           \/ CollideOrders(c) /\ At(c, "createOrder", "counted") /\ Retry(c)
           \/ CollideEntries(c) /\ At(c, "createEntry", "counted") /\ Retry(c)
           \/ RefusePay(c) \/ Fail(c)
    PROVE  /\ UNCHANGED <<rows, raced>> /\ c \in Busy
           /\ at' \in [Calls -> {"idle", "checked", "deleted", "counting", "counted", "done"}]
           /\ req' \in [Calls -> Requests \cup {None}]
           /\ attempt' \in [Calls -> 0 .. MaxAttempts - 1]
           /\ \A d \in Calls \ {c} : at'[d] = at[d] /\ req'[d] = req[d] /\ seen'[d] = seen[d]
           /\ \/ at'[c] = "done"
              \/ /\ at'[c] \notin {"idle", "done"} /\ req'[c] = req[c] /\ Asked(c)'
                 /\ req[c].op = "pay" => seen'[c].paid = seen[c].paid
                 /\ at'[c] = "deleted" => seen'[c] = order[req[c].row].lines
<1>1. c \in Busy
  BY DEF CountOrders, DeleteLines, CountEntries, At, RefusePay, Fail, Busy
<1>2. /\ Asked(c) /\ Cardinality(Filed) \in Nat /\ Cardinality(entries) \in Nat
      /\ attempt[c] \in 0 .. MaxAttempts - 1
  BY <1>1, FS_CardinalityType DEF Typed, AllAsked, Finite, TypeOK
<1>0. ASSUME UNCHANGED rows PROVE Filed' = Filed /\ Owed' = Owed
  BY <1>0 DEF rows, Filed, Owed
<1> DEFINE Framed ==
      /\ UNCHANGED <<rows, raced>>
      /\ at' \in [Calls -> {"idle", "checked", "deleted", "counting", "counted", "done"}]
      /\ req' \in [Calls -> Requests \cup {None}]
      /\ attempt' \in [Calls -> 0 .. MaxAttempts - 1]
      /\ \A d \in Calls \ {c} : at'[d] = at[d] /\ req'[d] = req[d] /\ seen'[d] = seen[d]
<1>3. ASSUME End(c), UNCHANGED rows PROVE Framed /\ at'[c] = "done"
  BY <1>3, AttemptsType DEF End, Goto, Typed, TypeOK, EachSeen
<1>4. ASSUME NEW w \in {"deleted", "counting", "counted"}, Goto(c, w), UNCHANGED <<rows, req, raced>>,
             \/ UNCHANGED attempt
             \/ attempt' = [attempt EXCEPT ![c] = @ + 1] /\ attempt[c] + 1 < MaxAttempts,
             \/ UNCHANGED seen
             \/ \E x : seen' = [seen EXCEPT ![c] = x]
      PROVE  Framed /\ at'[c] = w
  <2>1. attempt' \in [Calls -> 0 .. MaxAttempts - 1]
    BY <1>2, <1>4, AttemptsType DEF Typed, TypeOK
  <2>2. at' \in [Calls -> {"idle", "checked", "deleted", "counting", "counted", "done"}]
        /\ at'[c] = w /\ \A d \in Calls \ {c} : at'[d] = at[d]
    BY <1>4 DEF Goto, Typed, TypeOK
  <2>3. \A d \in Calls \ {c} : seen'[d] = seen[d]
    BY <1>4 DEF Typed, EachSeen
  <2> QED
    BY <1>4, <2>1, <2>2, <2>3 DEF Typed, TypeOK
<1> HIDE DEF Framed
<1>5. CASE CountOrders(c)
  <2>1. Framed /\ at'[c] = "counted" /\ req' = req /\ req[c].op = "createOrder"
    BY <1>4, <1>5 DEF CountOrders, At
  <2>2. seen'[c] = Cardinality(Filed)
    BY <1>5 DEF CountOrders, Typed, EachSeen
  <2>3. Asked(c)'
    BY <1>0, <1>2, <2>1, <2>2 DEF Asked, Framed, OrderOps, rows
  <2> QED
    BY <1>1, <2>1, <2>3 DEF Framed
<1>6. CASE DeleteLines(c)
  <2>1. Framed /\ at'[c] = "deleted" /\ req' = req /\ req[c].op = "update"
    BY <1>4, <1>6 DEF DeleteLines, At
  <2>2. seen'[c] = order[req[c].row].lines
    BY <1>6 DEF DeleteLines, Typed, EachSeen
  <2>3. Asked(c)'
    BY <1>0, <1>2, <2>1 DEF Asked, Framed, OrderOps, rows
  <2> QED
    BY <1>1, <2>1, <2>2, <2>3 DEF Framed
<1>7. CASE CountEntries(c)
  <2>1. Framed /\ at'[c] = "counted" /\ req' = req /\ req[c].op \in {"createEntry", "pay"}
    BY <1>4, <1>7 DEF CountEntries
  <2>2. seen'[c] = [count |-> Cardinality(entries),
                    paid |-> IF req[c].op = "pay" THEN seen[c].paid ELSE 0]
    BY <1>7 DEF CountEntries, Typed, EachSeen
  <2>3. Asked(c)'
    BY <1>0, <1>2, <2>1, <2>2 DEF Asked, Framed, OrderOps, rows
  <2> QED
    BY <1>1, <2>1, <2>2, <2>3 DEF Framed
<1>8. CASE RefusePay(c) \/ Fail(c)
  BY <1>1, <1>3, <1>8 DEF RefusePay, Fail, Framed
<1>9. ASSUME At(c, "createOrder", "counted") \/ At(c, "createEntry", "counted"), Retry(c)
      PROVE  /\ Framed
             /\ \/ at'[c] = "done"
                \/ at'[c] = "counting" /\ UNCHANGED <<req, seen>> /\ Asked(c)'
  <2>1. CASE End(c) /\ UNCHANGED rows
    <3>1. Framed /\ at'[c] = "done"
      BY <1>3, <2>1
    <3> QED
      BY <3>1
  <2>2. CASE /\ attempt[c] + 1 < MaxAttempts
             /\ attempt' = [attempt EXCEPT ![c] = @ + 1]
             /\ Goto(c, "counting")
             /\ UNCHANGED <<rows, req, seen, raced>>
    <3>1. Framed /\ at'[c] = "counting"
      BY <1>4, <2>2
    <3>2. Asked(c)'
      BY <1>0, <1>2, <1>9, <2>2, <3>1 DEF Asked, OrderOps, At
    <3> QED
      BY <2>2, <3>1, <3>2
  <2> QED
    BY <1>9, <2>1, <2>2 DEF Retry
<1> QED
  BY <1>1, <1>5, <1>6, <1>7, <1>8, <1>9 DEF Framed

\* The commits.  FileOrder and FileEntry are InsertOrder and InsertEntry when
\* the code is free.
FileOrder(c) ==
    /\ At(c, "createOrder", "counted")
    /\ ~CollideOrders(c)
    /\ order' = [order EXCEPT ![c] =
          [status |-> "DRAFT", approved |-> FALSE, code |-> seen[c] + 1,
           lines |-> {Line(c, req[c].vnd)}]]
    /\ End(c)
    /\ UNCHANGED <<payable, entries>>
FileEntry(c) ==
    /\ At(c, "createEntry", "counted")
    /\ ~CollideEntries(c)
    /\ entries' = entries \cup {[by |-> c, code |-> seen[c].count + 1,
                                 payable |-> None, vnd |-> 0]}
    /\ End(c)
    /\ UNCHANGED <<order, payable>>

\* What a change of status makes of a row.
LEMMA BecomesRow ==
    ASSUME NEW row \in OrderRows, NEW op \in {"approve", "reject", "send", "cancel"}
    PROVE  /\ Becomes(op, row) \in OrderRows
           /\ Becomes(op, row).lines = row.lines /\ Becomes(op, row).code = row.code
           /\ Becomes(op, row).status \in {"APPROVED", "DRAFT", "SENT", "CANCELLED"}
           /\ op = "approve" => Becomes(op, row).status = "APPROVED" /\ Becomes(op, row).approved
           /\ op = "reject" => Becomes(op, row).status = "DRAFT"
           /\ op = "send" => Becomes(op, row).status = "SENT"
                             /\ Becomes(op, row).approved = row.approved
           /\ op = "cancel" => Becomes(op, row).status = "CANCELLED"
  BY DEF Becomes, OrderRows

\* What a payment makes of a payable.
LEMMA PaidUpToRow ==
    ASSUME NEW row \in PayableRows, NEW n \in Nat
    PROVE  /\ PaidUpTo(row, n) \in PayableRows
           /\ PaidUpTo(row, n).order = row.order /\ PaidUpTo(row, n).vnd = row.vnd
           /\ PaidUpTo(row, n).paid = n
           /\ PaidUpTo(row, n).status = IF n >= row.vnd THEN "PAID" ELSE "OPEN"
  BY DEF PaidUpTo, PayableRows

\* A new order, with the code its call has counted.
LEMMA FileOrderIs ==
    ASSUME Typed, NEW c \in Calls, FileOrder(c)
    PROVE  \E row \in OrderRows :
              /\ order' = [order EXCEPT ![c] = row]
              /\ row.status = "DRAFT" /\ ~row.approved /\ row.code = seen[c] + 1
              /\ row.lines = {Line(c, req[c].vnd)}
              /\ c \notin Filed /\ seen[c] \in 0 .. Cardinality(Filed) /\ Filed' = Filed \cup {c}
<1> DEFINE row == [status |-> "DRAFT", approved |-> FALSE, code |-> seen[c] + 1,
                   lines |-> {Line(c, req[c].vnd)}]
<1>1. /\ c \in Busy /\ Asked(c) /\ at[c] = "counted" /\ req[c].op = "createOrder"
      /\ Cardinality(Filed) \in Nat
  BY FS_CardinalityType DEF FileOrder, At, Busy, Typed, AllAsked, Finite
<1>2. seen[c] \in 0 .. Cardinality(Filed) /\ req[c].vnd \in LineVnd
  BY <1>1, RequestFields DEF Asked
<1>3. row \in OrderRows
  BY <1>1, <1>2 DEF OrderRows, Line
<1>4. c \notin Filed
  BY <1>1 DEF Typed, NamesFree, Filed
<1>5. order' = [order EXCEPT ![c] = row]
  BY DEF FileOrder
<1>6. row.status = "DRAFT" /\ ~row.approved /\ row.code = seen[c] + 1
      /\ row.lines = {Line(c, req[c].vnd)}
  OBVIOUS
<1> HIDE DEF row
<1>7. Filed' = Filed \cup {c}
  BY <1>3, <1>4, <1>5, NoneIsNoRow DEF Filed, Orders, Typed, TypeOK
<1> QED
  BY <1>2, <1>3, <1>4, <1>5, <1>6, <1>7

\* A change of status of the order the request names.
LEMMA CommitStatusIs ==
    ASSUME Typed, NEW c \in Calls, CommitStatus(c)
    PROVE  /\ req[c].row \in Filed /\ order[req[c].row] \in OrderRows
           /\ order' = [order EXCEPT ![req[c].row] = Becomes(req[c].op, order[req[c].row])]
           /\ Filed' = Filed
<1>1. c \in Busy /\ Asked(c) /\ req[c].op \in OrderOps
  BY DEF CommitStatus, Busy, Typed, AllAsked, OrderOps
<1>2. PICK o \in Filed : req[c].row = o
  BY <1>1 DEF Asked
<1>3. order[o] \in OrderRows
  BY <1>2 DEF Filed, Typed, TypeOK
<1>4. order' = [order EXCEPT ![o] = Becomes(req[c].op, order[o])]
  BY <1>2, <1>3 DEF CommitStatus, Filed, Typed, TypeOK
<1>5. Becomes(req[c].op, order[o]) \in OrderRows
  BY <1>3, BecomesRow DEF CommitStatus
<1>6. Filed' = Filed
  BY <1>2, <1>4, <1>5, NoneIsNoRow DEF Filed, Typed, TypeOK
<1> QED
  BY <1>2, <1>3, <1>4, <1>6

\* New lines in place of those the call deleted.
LEMMA CommitUpdateIs ==
    ASSUME Typed, NEW c \in Calls, CommitUpdate(c)
    PROVE  /\ req[c].row \in Filed /\ order[req[c].row] \in OrderRows
           /\ \E row \in OrderRows :
                 /\ order' = [order EXCEPT ![req[c].row] = row]
                 /\ row.status = order[req[c].row].status
                 /\ row.approved = order[req[c].row].approved
                 /\ row.code = order[req[c].row].code
                 /\ row.lines = (order[req[c].row].lines \ seen[c]) \cup {Line(c, req[c].vnd)}
           /\ Filed' = Filed
<1>1. c \in Busy /\ Asked(c) /\ req[c].op = "update" /\ at[c] = "deleted"
  BY DEF CommitUpdate, At, Busy, Typed, AllAsked
<1>2. PICK o \in Filed : req[c].row = o
  BY <1>1 DEF Asked, OrderOps
<1>3. PICK row \in OrderRows : row = order[o]
  BY <1>2 DEF Filed, Typed, TypeOK
<1>4. PICK ls : ls = (row.lines \ seen[c]) \cup {Line(c, req[c].vnd)}
  OBVIOUS
<1>5. order' = [order EXCEPT ![o] = [row EXCEPT !.lines = ls]]
  BY <1>2, <1>3, <1>4 DEF CommitUpdate, Filed, Typed, TypeOK
<1>6. req[c].vnd \in LineVnd
  BY <1>1, RequestFields DEF Asked
<1>7. ls \in SUBSET [by : Calls \cup {FirstEdit}, vnd : LineVnd]
  <2>1. row.lines \in SUBSET [by : Calls \cup {FirstEdit}, vnd : LineVnd]
    BY DEF OrderRows
  <2> QED
    BY <1>4, <1>6, <2>1 DEF Line
<1>8. PICK new : new = [row EXCEPT !.lines = ls]
  OBVIOUS
<1>9. /\ new \in OrderRows /\ new.status = row.status /\ new.approved = row.approved
      /\ new.code = row.code /\ new.lines = ls
  BY <1>7, <1>8 DEF OrderRows
<1>10. order' = [order EXCEPT ![o] = new]
  BY <1>5, <1>8
<1>11. Filed' = Filed
  BY <1>2, <1>9, <1>10, NoneIsNoRow DEF Filed, Typed, TypeOK
<1> QED
  BY <1>2, <1>3, <1>4, <1>9, <1>10, <1>11

\* A receipt: the order is RECEIVED, and a payable named by the call is there.
LEMMA CommitReceiveIs ==
    ASSUME Typed, NEW c \in Calls, CommitReceive(c)
    PROVE  /\ req[c].row \in Filed /\ order[req[c].row] \in OrderRows
           /\ order' = [order EXCEPT ![req[c].row] =
                 [order[req[c].row] EXCEPT !.status = "RECEIVED"]]
           /\ Filed' = Filed
           /\ c \notin Owed /\ Owed' = Owed \cup {c}
           /\ \E q \in PayableRows :
                 /\ payable' = [payable EXCEPT ![c] = q]
                 /\ q.order = req[c].row /\ q.paid = 0 /\ q.status = "OPEN"
<1>1. c \in Busy /\ Asked(c) /\ req[c].op = "receive" /\ at[c] = "checked"
  BY DEF CommitReceive, At, Busy, Typed, AllAsked
<1>2. PICK o \in Filed : req[c].row = o
  BY <1>1 DEF Asked, OrderOps
<1>3. PICK row \in OrderRows : row = order[o]
  BY <1>2 DEF Filed, Typed, TypeOK
<1>4. PICK new : new = [row EXCEPT !.status = "RECEIVED"]
  OBVIOUS
<1>5. new \in OrderRows
  BY <1>4 DEF OrderRows
<1>6. order' = [order EXCEPT ![o] = new]
  BY <1>2, <1>3, <1>4 DEF CommitReceive, Filed, Typed, TypeOK
<1>7. Filed' = Filed
  BY <1>2, <1>5, <1>6, NoneIsNoRow DEF Filed, Typed, TypeOK
<1>8. PICK q : q = [order |-> o, vnd |-> seen[c], paid |-> 0, status |-> "OPEN"]
  OBVIOUS
<1>9. q \in PayableRows /\ q.order = o /\ q.paid = 0 /\ q.status = "OPEN"
  BY <1>1, <1>2, <1>8 DEF PayableRows, Asked, Filed
<1>10. payable' = [payable EXCEPT ![c] = q]
  BY <1>2, <1>8 DEF CommitReceive
<1>11. c \notin Owed
  BY <1>1 DEF Typed, NamesFree, Owed
<1>12. Owed' = Owed \cup {c}
  BY <1>9, <1>10, <1>11, NoneIsNoRow DEF Owed, Payables, Typed, TypeOK
<1> QED
  BY <1>2, <1>3, <1>4, <1>6, <1>7, <1>9, <1>10, <1>11, <1>12

\* An entry of the books, with the code its call has counted.
LEMMA FileEntryIs ==
    ASSUME Typed, NEW c \in Calls, FileEntry(c) \/ CommitPay(c)
    PROVE  \E e \in [by : Calls, code : Nat, vnd : Nat, payable : Payables \cup {None}] :
              /\ entries' = entries \cup {e} /\ e \notin entries
              /\ e.by = c /\ e.code = seen[c].count + 1
              /\ seen[c].count \in 0 .. Cardinality(entries)
              /\ FileEntry(c) => e.vnd = 0
              /\ CommitPay(c) => e.payable = req[c].row /\ e.vnd = req[c].vnd
<1>1. /\ c \in Busy /\ Asked(c) /\ at[c] = "counted" /\ Cardinality(entries) \in Nat
      /\ \A e \in entries : e.by # c
  BY FS_CardinalityType
     DEF FileEntry, CommitPay, At, Busy, Typed, AllAsked, Finite, NamesFree
<1>2. seen[c].count \in 0 .. Cardinality(entries)
  BY <1>1 DEF FileEntry, CommitPay, At, Asked
<1>3. CASE FileEntry(c)
  <2> DEFINE e == [by |-> c, code |-> seen[c].count + 1, payable |-> None, vnd |-> 0]
  <2>1. /\ e \in [by : Calls, code : Nat, vnd : Nat, payable : Payables \cup {None}]
        /\ e.by = c /\ e.code = seen[c].count + 1 /\ e.vnd = 0
    BY <1>1, <1>2
  <2>2. entries' = entries \cup {e} /\ ~CommitPay(c)
    BY <1>3 DEF FileEntry, CommitPay, At
  <2> HIDE DEF e
  <2> QED
    BY <1>1, <1>2, <2>1, <2>2
<1>4. CASE CommitPay(c)
  <2> DEFINE e == [by |-> c, code |-> seen[c].count + 1, payable |-> req[c].row,
                   vnd |-> req[c].vnd]
  <2>0. req[c].row \in Payables /\ req[c].vnd \in Nat
    BY <1>1, <1>4, RequestFields, AmountsType DEF CommitPay, At, Asked
  <2>1. /\ e \in [by : Calls, code : Nat, vnd : Nat, payable : Payables \cup {None}]
        /\ e.by = c /\ e.code = seen[c].count + 1
        /\ e.payable = req[c].row /\ e.vnd = req[c].vnd
    BY <1>1, <1>2, <2>0
  <2>2. entries' = entries \cup {e} /\ ~FileEntry(c)
    BY <1>4 DEF FileEntry, CommitPay, At
  <2> HIDE DEF e
  <2> QED
    BY <1>1, <1>2, <2>1, <2>2
<1> QED
  BY <1>3, <1>4

\* What a payment makes of the payable its request names.
LEMMA CommitPayIs ==
    ASSUME Typed, NEW c \in Calls, CommitPay(c)
    PROVE  /\ req[c].row \in Owed /\ payable[req[c].row] \in PayableRows
           /\ seen[c].paid + req[c].vnd \in Nat
           /\ payable' = [payable EXCEPT ![req[c].row] =
                 PaidUpTo(payable[req[c].row], seen[c].paid + req[c].vnd)]
           /\ Owed' = Owed
<1>1. c \in Busy /\ Asked(c) /\ req[c].op = "pay" /\ at[c] = "counted"
  BY DEF CommitPay, At, Busy, Typed, AllAsked
<1>2. PICK p \in Owed : req[c].row = p
  BY <1>1 DEF Asked
<1>3. payable[p] \in PayableRows
  BY <1>2 DEF Owed, Typed, TypeOK
<1>4. seen[c].paid + req[c].vnd \in Nat
  <2>1. seen[c].paid \in Nat /\ req[c] \in Requests
    BY <1>1 DEF Asked
  <2>2. req[c].vnd \in Nat
    BY <1>1, <2>1, RequestFields, AmountsType
  <2> QED
    BY <2>1, <2>2
<1>5. payable' = [payable EXCEPT ![p] = PaidUpTo(payable[p], seen[c].paid + req[c].vnd)]
  BY <1>2, <1>3 DEF CommitPay, Owed, Typed, TypeOK
<1>6. PaidUpTo(payable[p], seen[c].paid + req[c].vnd) \in PayableRows
  BY <1>3, <1>4, PaidUpToRow
<1>7. Owed' = Owed
  BY <1>2, <1>5, <1>6, NoneIsNoRow DEF Owed, Typed, TypeOK
<1> QED
  BY <1>2, <1>3, <1>4, <1>5, <1>7

Commits(c) ==
    \/ FileOrder(c) \/ CommitStatus(c) \/ CommitUpdate(c) \/ CommitReceive(c)
    \/ FileEntry(c) \/ CommitPay(c)

\* A commit ends its call and names what it creates after it.
LEMMA CommitRows ==
    ASSUME Typed, NEW c \in Calls, Commits(c)
    PROVE  /\ c \in Busy /\ End(c)
           /\ order' \in [Orders -> OrderRows \cup {None}]
           /\ payable' \in [Payables -> PayableRows \cup {None}]
           /\ entries' \subseteq [by : Calls, code : Nat, vnd : Nat,
                                  payable : Payables \cup {None}]
           /\ Filed \subseteq Filed' /\ \A o \in Orders \ {c} : order[o] = None => order'[o] = None
           /\ Owed \subseteq Owed'
           /\ \A p \in Payables \ {c} : payable[p] = None => payable'[p] = None
           /\ entries \subseteq entries' /\ \A e \in entries' \ entries : e.by = c
           /\ Finite'
<1>1. c \in Busy /\ End(c)
  BY DEF Commits, FileOrder, CommitStatus, CommitUpdate, CommitReceive, FileEntry, CommitPay,
         At, Busy
<1>2. ASSUME UNCHANGED order PROVE Filed' = Filed
  BY <1>2 DEF Filed
<1>3. ASSUME UNCHANGED payable PROVE Owed' = Owed
  BY <1>3 DEF Owed
<1>4. /\ IsFiniteSet(Filed) /\ IsFiniteSet(Owed) /\ IsFiniteSet(entries)
      /\ \A o \in Filed : IsFiniteSet(order[o].lines)
  BY DEF Typed, Finite
<1>5. CASE FileOrder(c)
  <2>1. PICK row \in OrderRows :
           /\ order' = [order EXCEPT ![c] = row] /\ row.lines = {Line(c, req[c].vnd)}
           /\ c \notin Filed /\ Filed' = Filed \cup {c}
    BY <1>5, FileOrderIs
  <2>2. IsFiniteSet(row.lines) /\ IsFiniteSet(Filed')
    <3>1. IsFiniteSet({Line(c, req[c].vnd)})
      BY FS_Singleton
    <3>2. IsFiniteSet(Filed \cup {c})
      BY <1>4, FS_AddElement
    <3> QED
      BY <2>1, <3>1, <3>2
  <2>3. UNCHANGED <<payable, entries>>
    BY <1>5 DEF FileOrder
  <2>4. \A o \in Filed' : IsFiniteSet(order'[o].lines)
    BY <1>4, <2>1, <2>2 DEF Filed, Orders, Typed, TypeOK
  <2>5. Finite'
    BY <1>3, <1>4, <2>2, <2>3, <2>4 DEF Finite
  <2> QED
    BY <1>1, <1>3, <2>1, <2>3, <2>5 DEF Typed, TypeOK
<1>6. CASE CommitStatus(c)
  <2>1. /\ req[c].row \in Filed /\ order[req[c].row] \in OrderRows
        /\ order' = [order EXCEPT ![req[c].row] = Becomes(req[c].op, order[req[c].row])]
        /\ Filed' = Filed
    BY <1>6, CommitStatusIs
  <2>2. PICK row \in OrderRows : row = Becomes(req[c].op, order[req[c].row])
                                 /\ row.lines = order[req[c].row].lines
    BY <1>6, <2>1, BecomesRow DEF CommitStatus
  <2>3. UNCHANGED <<payable, entries>>
    BY <1>6 DEF CommitStatus
  <2>4. \A o \in Filed' : IsFiniteSet(order'[o].lines)
    BY <1>4, <2>1, <2>2 DEF Filed, Typed, TypeOK
  <2>5. Finite'
    BY <1>3, <1>4, <2>1, <2>3, <2>4 DEF Finite
  <2> QED
    BY <1>1, <1>3, <2>1, <2>2, <2>3, <2>5 DEF Filed, Typed, TypeOK
<1>7. CASE CommitUpdate(c)
  <2>1. PICK row \in OrderRows :
           /\ req[c].row \in Filed /\ order' = [order EXCEPT ![req[c].row] = row]
           /\ row.lines = (order[req[c].row].lines \ seen[c]) \cup {Line(c, req[c].vnd)}
           /\ Filed' = Filed
    BY <1>7, CommitUpdateIs
  <2>2. IsFiniteSet(row.lines)
    <3>1. PICK old : old = order[req[c].row].lines /\ IsFiniteSet(old)
      BY <1>4, <2>1
    <3>2. PICK kept : kept = old \ seen[c] /\ IsFiniteSet(kept)
      BY <3>1, FS_Difference
    <3>3. PICK line : line = Line(c, req[c].vnd)
      OBVIOUS
    <3>4. IsFiniteSet(kept \cup {line})
      BY <3>2, FS_AddElement
    <3> QED
      BY <2>1, <3>1, <3>2, <3>3, <3>4
  <2>3. UNCHANGED <<payable, entries>>
    BY <1>7 DEF CommitUpdate
  <2>4. \A o \in Filed' : IsFiniteSet(order'[o].lines)
    BY <1>4, <2>1, <2>2 DEF Filed, Typed, TypeOK
  <2>5. Finite'
    BY <1>3, <1>4, <2>1, <2>3, <2>4 DEF Finite
  <2> QED
    BY <1>1, <1>3, <2>1, <2>3, <2>5 DEF Filed, Typed, TypeOK
<1>8. CASE CommitReceive(c)
  <2>1. PICK q \in PayableRows :
           /\ req[c].row \in Filed /\ order[req[c].row] \in OrderRows
           /\ order' = [order EXCEPT ![req[c].row] =
                 [order[req[c].row] EXCEPT !.status = "RECEIVED"]]
           /\ Filed' = Filed
           /\ payable' = [payable EXCEPT ![c] = q] /\ Owed' = Owed \cup {c}
    BY <1>8, CommitReceiveIs
  <2>2. PICK row \in OrderRows : row = [order[req[c].row] EXCEPT !.status = "RECEIVED"]
                                 /\ row.lines = order[req[c].row].lines
    BY <2>1 DEF OrderRows
  <2>3. UNCHANGED entries
    BY <1>8 DEF CommitReceive
  <2>4. \A o \in Filed' : IsFiniteSet(order'[o].lines)
    BY <1>4, <2>1, <2>2 DEF Filed, Typed, TypeOK
  <2>5. Finite'
    BY <1>4, <2>1, <2>3, <2>4, FS_AddElement DEF Finite
  <2> QED
    BY <1>1, <2>1, <2>2, <2>3, <2>5 DEF Filed, Typed, TypeOK
<1>9. CASE FileEntry(c)
  <2>1. UNCHANGED <<order, payable>>
    BY <1>9 DEF FileEntry
  <2>2. PICK e \in [by : Calls, code : Nat, vnd : Nat, payable : Payables \cup {None}] :
           entries' = entries \cup {e} /\ e.by = c
    BY <1>9, FileEntryIs
  <2>3. IsFiniteSet(entries')
    BY <1>4, <2>2, FS_AddElement
  <2>4. Finite'
    BY <1>2, <1>3, <1>4, <2>1, <2>3 DEF Finite
  <2> QED
    BY <1>1, <1>2, <1>3, <2>1, <2>2, <2>4 DEF Typed, TypeOK
<1>10. CASE CommitPay(c)
  <2>1. UNCHANGED order
    BY <1>10 DEF CommitPay
  <2>2. PICK e \in [by : Calls, code : Nat, vnd : Nat, payable : Payables \cup {None}] :
           entries' = entries \cup {e} /\ e.by = c
    BY <1>10, FileEntryIs
  <2>3. /\ req[c].row \in Owed /\ payable[req[c].row] \in PayableRows
        /\ payable' = [payable EXCEPT ![req[c].row] =
              PaidUpTo(payable[req[c].row], seen[c].paid + req[c].vnd)]
        /\ PaidUpTo(payable[req[c].row], seen[c].paid + req[c].vnd) \in PayableRows
        /\ Owed' = Owed
    BY <1>10, CommitPayIs, PaidUpToRow
  <2>4. IsFiniteSet(entries')
    BY <1>4, <2>2, FS_AddElement
  <2>5. Finite'
    BY <1>2, <1>4, <2>1, <2>3, <2>4 DEF Finite
  <2> QED
    BY <1>1, <1>2, <2>1, <2>2, <2>3, <2>5 DEF Owed, Typed, TypeOK
<1> QED
  BY <1>5, <1>6, <1>7, <1>8, <1>9, <1>10 DEF Commits

\* The rows of other calls only grow, so what they found is still there.
LEMMA AskedStays ==
    ASSUME Typed, NEW d \in Busy, Filed \subseteq Filed', Owed \subseteq Owed',
           entries \subseteq entries', Finite',
           at'[d] = at[d], req'[d] = req[d], seen'[d] = seen[d]
    PROVE  Asked(d)'
<1>1. Asked(d)
  BY DEF Typed, AllAsked
<1>2. /\ Cardinality(Filed) \in Nat /\ Cardinality(Filed') \in Nat
      /\ Cardinality(Filed) <= Cardinality(Filed')
      /\ Cardinality(entries) \in Nat /\ Cardinality(entries') \in Nat
      /\ Cardinality(entries) <= Cardinality(entries')
  <2>1. IsFiniteSet(Filed') /\ IsFiniteSet(entries')
    BY DEF Finite
  <2>2. IsFiniteSet(Filed) /\ IsFiniteSet(entries)
    BY DEF Typed, Finite
  <2> HIDE DEF Filed
  <2> QED
    BY <2>1, <2>2, FS_CardinalityType, FS_Subset
<1> QED
  BY <1>1, <1>2 DEF Asked

\* A step is a request's arrival, a look, a commit or nothing.
LEMMA Steps ==
    ASSUME [Next]_vars
    PROVE  \/ UNCHANGED vars
           \/ \E c \in Calls : Arrive(c)
           \/ \E c \in Calls :
                \/ CountOrders(c) \/ DeleteLines(c) \/ CountEntries(c)
                \/ CollideOrders(c) /\ At(c, "createOrder", "counted") /\ Retry(c)
                \/ CollideEntries(c) /\ At(c, "createEntry", "counted") /\ Retry(c)
                \/ RefusePay(c) \/ Fail(c)
           \/ \E c \in Calls : Commits(c)
  BY Zenon DEF Next, Serve, Idle, InsertOrder, InsertEntry, FileOrder, FileEntry, Commits

\* Every step keeps the types.
LEMMA TypedNext == Typed /\ [Next]_vars => Typed'
<1> SUFFICES ASSUME Typed, [Next]_vars PROVE Typed'
  OBVIOUS
<1>0. ASSUME UNCHANGED rows PROVE Filed' = Filed /\ Owed' = Owed /\ Finite'
  BY <1>0 DEF rows, Filed, Owed, Typed, Finite
<1>1. CASE UNCHANGED vars
  <2>1. \A d \in Busy : Asked(d)'
    BY <1>0, <1>1, AskedStays DEF vars, rows
  <2> QED
    BY <1>0, <1>1, <2>1 DEF vars, rows, Typed, TypeOK, EachSeen, AllAsked, Busy, NamesFree
<1>2. ASSUME NEW c \in Calls, Arrive(c) PROVE Typed'
  <2>1. PICK r, where, read : Begin(c, r, where, read) /\ Passed(r, where, read)
    BY <1>2, Arrivals
  <2>2. /\ r \in Requests /\ where \in {"checked", "counting"}
        /\ UNCHANGED <<rows, attempt>> /\ at[c] = "idle"
        /\ at' = [at EXCEPT ![c] = where] /\ req' = [req EXCEPT ![c] = r]
        /\ seen' = [seen EXCEPT ![c] = read]
        /\ raced' \subseteq raced \cup (IF "row" \in DOMAIN r THEN {r.row} ELSE {})
    BY <2>1 DEF Begin, Passed, Goto
  <2>3. raced' \subseteq Orders \cup Payables
    BY <2>2, RequestFields DEF Typed, TypeOK, OrderOps
  <2>4. /\ at'[c] = where /\ req'[c] = r /\ seen'[c] = read
        /\ \A d \in Calls \ {c} : at'[d] = at[d] /\ req'[d] = req[d] /\ seen'[d] = seen[d]
    BY <2>2 DEF Typed, TypeOK, EachSeen
  <2>5. \A d \in Busy \ {c} : Asked(d)'
    BY <1>0, <2>2, <2>4, AskedStays DEF rows, Busy
  <2>6. Asked(c)'
    BY <1>0, <2>1, <2>2, <2>4, RequestFields DEF Asked, Passed, OrderOps, PayableRows
  <2>7. TypeOK' /\ EachSeen'
    BY <2>2, <2>3 DEF rows, Typed, TypeOK, EachSeen
  <2>8. AllAsked'
    BY <2>4, <2>5, <2>6 DEF AllAsked, Busy
  <2>9. NamesFree'
    BY <2>2, <2>4 DEF rows, Typed, NamesFree
  <2> QED
    BY <1>0, <2>2, <2>7, <2>8, <2>9 DEF Typed
<1>3. ASSUME NEW c \in Calls,
             \/ CountOrders(c) \/ DeleteLines(c) \/ CountEntries(c)
             \/ CollideOrders(c) /\ At(c, "createOrder", "counted") /\ Retry(c)
             \/ CollideEntries(c) /\ At(c, "createEntry", "counted") /\ Retry(c)
             \/ RefusePay(c) \/ Fail(c)
      PROVE  Typed'
  <2>1. /\ UNCHANGED <<rows, raced>> /\ c \in Busy
        /\ at' \in [Calls -> {"idle", "checked", "deleted", "counting", "counted", "done"}]
        /\ req' \in [Calls -> Requests \cup {None}]
        /\ attempt' \in [Calls -> 0 .. MaxAttempts - 1]
        /\ \A d \in Calls \ {c} : at'[d] = at[d] /\ req'[d] = req[d] /\ seen'[d] = seen[d]
        /\ at'[c] = "done" \/ Asked(c)'
    BY <1>3, Looks
  <2>2. EachSeen'
    BY <1>3 DEF CountOrders, DeleteLines, CountEntries, Retry, RefusePay, Fail, End,
                Typed, EachSeen
  <2>3. \A d \in Busy \ {c} : Asked(d)'
    BY <1>0, <2>1, AskedStays DEF rows, Busy
  <2>4. AllAsked'
    BY <2>1, <2>3 DEF AllAsked, Busy
  <2>5. TypeOK'
    BY <2>1 DEF rows, Typed, TypeOK
  <2>6. NamesFree'
    BY <2>1 DEF rows, Typed, NamesFree, Busy
  <2> QED
    BY <1>0, <2>1, <2>2, <2>4, <2>5, <2>6 DEF Typed
<1>4. ASSUME NEW c \in Calls, Commits(c) PROVE Typed'
  <2>1. /\ c \in Busy /\ End(c)
        /\ order' \in [Orders -> OrderRows \cup {None}]
        /\ payable' \in [Payables -> PayableRows \cup {None}]
        /\ entries' \subseteq [by : Calls, code : Nat, vnd : Nat,
                               payable : Payables \cup {None}]
        /\ Filed \subseteq Filed' /\ \A o \in Orders \ {c} : order[o] = None => order'[o] = None
        /\ Owed \subseteq Owed'
        /\ \A p \in Payables \ {c} : payable[p] = None => payable'[p] = None
        /\ entries \subseteq entries' /\ \A e \in entries' \ entries : e.by = c
        /\ Finite'
    BY <1>4, CommitRows
  <2>2. /\ at' = [at EXCEPT ![c] = "done"] /\ UNCHANGED raced
        /\ req' = [req EXCEPT ![c] = None] /\ seen' = [seen EXCEPT ![c] = None]
        /\ attempt' = [attempt EXCEPT ![c] = 0]
    BY <2>1 DEF End, Goto
  <2>3. /\ at'[c] = "done"
        /\ \A d \in Calls \ {c} : at'[d] = at[d] /\ req'[d] = req[d] /\ seen'[d] = seen[d]
    BY <2>2 DEF Typed, TypeOK, EachSeen
  <2>4. EachSeen'
    BY <2>2 DEF Typed, EachSeen
  <2>8. TypeOK'
    BY <2>1, <2>2, AttemptsType DEF Typed, TypeOK
  <2>5. \A d \in Busy \ {c} : Asked(d)'
    BY <2>1, <2>3, AskedStays DEF Busy
  <2>6. AllAsked'
    BY <2>3, <2>5 DEF AllAsked, Busy
  <2>7. NamesFree'
    BY <2>1, <2>3 DEF Typed, NamesFree, Orders, Payables
  <2> QED
    BY <2>1, <2>4, <2>8, <2>6, <2>7 DEF Typed
<1> QED
  BY <1>1, <1>2, <1>3, <1>4, Steps

\* Every row, entry and call keeps its type, whatever calls overlap
\* (purchase-orders.service.ts, finance.service.ts).
THEOREM ProcurementTyped == Spec => []TypeOK
<1>1. Typed => TypeOK
  BY DEF Typed
<1> QED
  BY <1>1, TypedInit, TypedNext, PTL DEF Spec

-----------------------------------------------------------------------------
(***************************************************************************)
(* Overlap.  A row that two calls in flight name is in raced (Alone), so   *)
(* on any other row a call finds at its commit what it read (Unchanged).   *)
(***************************************************************************)
Named == {c \in Busy : req[c].op \in OrderOps \cup {"pay"}}
Alone == \A c, d \in Named : req[c].row = req[d].row => c = d \/ req[c].row \in raced

Unchanged ==
    \A c \in Busy : req[c].op \in OrderOps /\ req[c].row \notin raced =>
        /\ HasRead(req[c])
        /\ at[c] = "deleted" => seen[c] = order[req[c].row].lines

\* What holds of an order nobody else was on; its parts are those of OrderKept.
OrderFine(o) ==
    /\ order[o].status = "APPROVED" => order[o].approved
    /\ order[o].status \in {"SENT", "RECEIVED"} /\ NeedsApproval(o) => order[o].approved
    /\ Cardinality(PayablesOf(o)) = IF order[o].status = "RECEIVED" THEN 1 ELSE 0
    /\ Cardinality(order[o].lines) = 1
OrdersFine == \A o \in Filed \ raced : OrderFine(o)

\* Only what was ordered is owed for.
OwedIsFiled == \A p \in Owed : payable[p].order \in Filed \cup {None}

Ordered == Alone /\ Unchanged /\ OwedIsFiled /\ OrdersFine

\* A total is that of the order's lines, summed.
LEMMA TotalIs == \A o \in Orders : Total(o) = Costs(order[o].lines)
  BY DEF Total, Costs
\* The same, after a step.
LEMMA TotalIsNext == \A o \in Orders : Total(o)' = Costs(order'[o].lines)
<1>1. (\A o \in Orders : Total(o) = Costs(order[o].lines))'
  BY TotalIs, PTL
<1> QED
  BY <1>1

\* What was read of an order is still true while its row stays.
LEMMA HasReadStays ==
    ASSUME NEW r, r.row \in Orders, order'[r.row] = order[r.row], HasRead(r)
    PROVE  HasRead(r)'
<1>1. NeedsApproval(r.row)' = NeedsApproval(r.row)
  BY TotalIs, TotalIsNext DEF NeedsApproval
<1> QED
  BY <1>1 DEF HasRead

\* Two calls in flight on a row are recorded when the second arrives.
LEMMA AloneNext == Typed /\ Alone /\ [Next]_vars => Alone'
<1> SUFFICES ASSUME Typed, Alone, [Next]_vars PROVE Alone'
  OBVIOUS
<1>1. ASSUME NEW c \in Busy, UNCHANGED raced,
             \A d \in Calls \ {c} : at'[d] = at[d] /\ req'[d] = req[d],
             at'[c] = "done" \/ req'[c] = req[c]
      PROVE  Alone'
  <2>1. \A d \in Named' : d \in Named /\ req'[d] = req[d]
    BY <1>1 DEF Named, Busy
  <2> QED
    BY <1>1, <2>1 DEF Alone
<1>2. ASSUME NEW c \in Calls, Arrive(c) PROVE Alone'
  <2>1. PICK r, where, read : Begin(c, r, where, read) /\ Passed(r, where, read)
    BY <1>2, Arrivals
  <2>2. /\ r \in Requests /\ where \in {"checked", "counting"} /\ at[c] = "idle"
        /\ raced' = IF "row" \in DOMAIN r /\ InFlight(r.row) # {}
                    THEN raced \cup {r.row} ELSE raced
        /\ req'[c] = r /\ \A d \in Calls \ {c} : at'[d] = at[d] /\ req'[d] = req[d]
    BY <2>1 DEF Begin, Passed, Goto, Typed, TypeOK
  <2>3. \A d \in Named' \ {c} : d \in Named /\ req'[d] = req[d]
    BY <2>2 DEF Named, Busy
  <2>4. ASSUME NEW d \in Named, c \in Named', r.row = req[d].row PROVE r.row \in raced'
    <3>1. "row" \in DOMAIN r
      BY <2>2, <2>4, RequestFields DEF Named
    <3>2. req[d] \in Requests
      BY <2>4 DEF Named, Busy, Typed, AllAsked, Asked
    <3>3. d \in InFlight(r.row)
      BY <2>4, <3>2, RequestFields DEF Named, Busy, InFlight
    <3> QED
      BY <2>2, <3>1, <3>3
  <2>5. c \notin Named
    BY <2>2 DEF Named, Busy
  <2> QED
    BY <2>2, <2>3, <2>4, <2>5 DEF Alone
<1>3. ASSUME NEW c \in Calls, Commits(c) PROVE Alone'
  <2>1. c \in Busy /\ End(c)
    BY <1>3, CommitRows
  <2>2. /\ UNCHANGED raced /\ at'[c] = "done"
        /\ \A d \in Calls \ {c} : at'[d] = at[d] /\ req'[d] = req[d]
    BY <2>1 DEF End, Goto, Typed, TypeOK
  <2> QED
    BY <1>1, <2>1, <2>2
<1>4. CASE UNCHANGED vars
  BY <1>4 DEF vars, Alone, Named, Busy
<1>5. ASSUME NEW c \in Calls,
             \/ CountOrders(c) \/ DeleteLines(c) \/ CountEntries(c)
             \/ CollideOrders(c) /\ At(c, "createOrder", "counted") /\ Retry(c)
             \/ CollideEntries(c) /\ At(c, "createEntry", "counted") /\ Retry(c)
             \/ RefusePay(c) \/ Fail(c)
      PROVE  Alone'
  <2>1. /\ c \in Busy /\ UNCHANGED raced
        /\ \A d \in Calls \ {c} : at'[d] = at[d] /\ req'[d] = req[d]
        /\ at'[c] = "done" \/ req'[c] = req[c]
    BY <1>5, Looks
  <2> QED
    BY <1>1, <2>1
<1> QED
  BY <1>2, <1>3, <1>4, <1>5, Steps

\* A commit writes no order but the one it creates or the one its request names.
LEMMA CommitOrders ==
    ASSUME Typed, NEW c \in Calls, Commits(c), NEW o \in Orders, order'[o] # order[o]
    PROVE  \/ o = c /\ FileOrder(c)
           \/ /\ c \in Named /\ req[c].op \in OrderOps /\ o = req[c].row /\ o \in Filed
              /\ CommitStatus(c) \/ CommitUpdate(c) \/ CommitReceive(c)
<1> USE DEF Named, OrderOps, At
<1>0. c \in Busy
  BY CommitRows
<1>1. CASE FileOrder(c)
  BY <1>1, FileOrderIs DEF Typed, TypeOK
<1>2. CASE CommitStatus(c)
  BY <1>0, <1>2, CommitStatusIs DEF CommitStatus, Typed, TypeOK
<1>3. CASE CommitUpdate(c)
  BY <1>0, <1>3, CommitUpdateIs DEF CommitUpdate, Typed, TypeOK
<1>4. CASE CommitReceive(c)
  BY <1>0, <1>4, CommitReceiveIs DEF CommitReceive, Typed, TypeOK
<1>5. CASE FileEntry(c) \/ CommitPay(c)
  BY <1>5 DEF FileEntry, CommitPay
<1> QED
  BY <1>1, <1>2, <1>3, <1>4, <1>5 DEF Commits

\* What a call read of an order nobody else is on stays true.
LEMMA UnchangedNext == Typed /\ Alone /\ Unchanged /\ [Next]_vars => Unchanged'
<1> SUFFICES ASSUME Typed, Alone, Unchanged, [Next]_vars PROVE Unchanged'
  OBVIOUS
<1>0. \A d \in Busy : req[d].op \in OrderOps => req[d].row \in Orders
  BY RequestFields DEF Typed, AllAsked, Asked
<1>1. ASSUME NEW d \in Busy, req[d].op \in OrderOps, req[d].row \notin raced,
             order'[req[d].row] = order[req[d].row],
             req'[d] = req[d], at'[d] = at[d], seen'[d] = seen[d]
      PROVE  HasRead(req[d])' /\ (at'[d] = "deleted" => seen'[d] = order'[req[d].row].lines)
  <2>1. req[d].row \in Orders /\ HasRead(req[d])
        /\ (at[d] = "deleted" => seen[d] = order[req[d].row].lines)
    BY <1>0, <1>1 DEF Unchanged
  <2>2. PICK r : r = req[d]
    OBVIOUS
  <2>3. HasRead(r)'
    BY <1>1, <2>1, <2>2, HasReadStays
  <2>4. r = req'[d]
    BY <1>1, <2>2
  <2> QED
    BY <1>1, <2>1, <2>3, <2>4
<1>2. CASE UNCHANGED vars
  <2>1. \A d \in Busy : req[d].op \in OrderOps /\ req[d].row \notin raced =>
           HasRead(req[d])' /\ (at'[d] = "deleted" => seen'[d] = order'[req[d].row].lines)
    BY <1>1, <1>2 DEF vars, rows
  <2> QED
    BY <1>2, <2>1 DEF vars, Unchanged, Busy
<1>3. ASSUME NEW c \in Calls, Arrive(c) PROVE Unchanged'
  <2>1. PICK r, where, read : Begin(c, r, where, read) /\ Passed(r, where, read)
    BY <1>3, Arrivals
  <2>2. /\ r \in Requests /\ where \in {"checked", "counting"} /\ UNCHANGED rows
        /\ raced \subseteq raced' /\ at'[c] = where /\ req'[c] = r
        /\ \A d \in Calls \ {c} : at'[d] = at[d] /\ req'[d] = req[d] /\ seen'[d] = seen[d]
    BY <2>1 DEF Begin, Passed, Goto, Typed, TypeOK, EachSeen
  <2>3. ASSUME NEW d \in Busy', d # c, req'[d].op \in OrderOps, req'[d].row \notin raced'
        PROVE  HasRead(req[d])' /\ (at'[d] = "deleted" => seen'[d] = order'[req[d].row].lines)
    <3>1. d \in Busy
      BY <2>2, <2>3 DEF Busy
    <3> QED
      BY <1>1, <2>2, <2>3, <3>1 DEF rows, Busy
  <2>4. r.op \in OrderOps => HasRead(r)'
    <3>1. r.op \in OrderOps => r.row \in Orders /\ HasRead(r)
      BY <2>1, <2>2, RequestFields DEF Passed
    <3> QED
      BY <2>2, <3>1, HasReadStays DEF rows
  <2>5. ASSUME req'[c].op \in OrderOps PROVE HasRead(req[c])'
    BY <2>2, <2>4, <2>5
  <2> QED
    BY <2>2, <2>3, <2>5 DEF Unchanged, Busy
<1>4. ASSUME NEW c \in Calls,
             \/ CountOrders(c) \/ DeleteLines(c) \/ CountEntries(c)
             \/ CollideOrders(c) /\ At(c, "createOrder", "counted") /\ Retry(c)
             \/ CollideEntries(c) /\ At(c, "createEntry", "counted") /\ Retry(c)
             \/ RefusePay(c) \/ Fail(c)
      PROVE  Unchanged'
  <2>1. /\ UNCHANGED <<rows, raced>> /\ c \in Busy
        /\ \A d \in Calls \ {c} : at'[d] = at[d] /\ req'[d] = req[d] /\ seen'[d] = seen[d]
        /\ \/ at'[c] = "done"
           \/ req'[c] = req[c] /\ (at'[c] = "deleted" => seen'[c] = order[req[c].row].lines)
    BY <1>4, Looks
  <2>2. ASSUME NEW d \in Busy', d # c, req'[d].op \in OrderOps, req'[d].row \notin raced'
        PROVE  HasRead(req[d])' /\ (at'[d] = "deleted" => seen'[d] = order'[req[d].row].lines)
    <3>1. d \in Busy
      BY <2>1, <2>2 DEF Busy
    <3> QED
      BY <1>1, <2>1, <2>2, <3>1 DEF rows, Busy
  <2>3. ASSUME c \in Busy', req'[c].op \in OrderOps, req'[c].row \notin raced'
        PROVE  HasRead(req[c])' /\ (at'[c] = "deleted" => seen'[c] = order'[req[c].row].lines)
    <3>1. req'[c] = req[c] /\ (at'[c] = "deleted" => seen'[c] = order[req[c].row].lines)
      BY <2>1, <2>3 DEF Busy
    <3>2. PICK r : r = req[c]
      OBVIOUS
    <3>3. r.row \in Orders /\ HasRead(r)
      BY <1>0, <2>1, <2>3, <3>1, <3>2 DEF Unchanged
    <3>4. HasRead(r)'
      BY <2>1, <3>3, HasReadStays DEF rows
    <3>5. r = req'[c]
      BY <3>1, <3>2
    <3> QED
      BY <2>1, <3>1, <3>4, <3>5 DEF rows
  <2> QED
    BY <2>1, <2>2, <2>3 DEF Unchanged, Busy
<1>5. ASSUME NEW c \in Calls, Commits(c) PROVE Unchanged'
  <2>1. c \in Busy /\ End(c)
    BY <1>5, CommitRows
  <2>2. /\ UNCHANGED raced /\ at'[c] = "done"
        /\ \A d \in Calls \ {c} : at'[d] = at[d] /\ req'[d] = req[d] /\ seen'[d] = seen[d]
    BY <2>1 DEF End, Goto, Typed, TypeOK, EachSeen
  <2>3. ASSUME NEW d \in Busy', req'[d].op \in OrderOps, req'[d].row \notin raced'
        PROVE  HasRead(req[d])' /\ (at'[d] = "deleted" => seen'[d] = order'[req[d].row].lines)
    <3>1. d \in Busy /\ d # c
      BY <2>2, <2>3 DEF Busy
    <3>2. req'[d] = req[d] /\ at'[d] = at[d] /\ seen'[d] = seen[d]
      BY <2>2, <3>1 DEF Busy
    <3>3. req[d].row \in Filed /\ req[d].row \in Orders
      BY <1>0, <2>3, <3>1, <3>2 DEF Typed, AllAsked, Asked
    <3>4. order'[req[d].row] = order[req[d].row]
      <4>1. ASSUME order'[req[d].row] # order[req[d].row] PROVE FALSE
        <5>1. CASE req[d].row = c /\ FileOrder(c)
          BY <3>3, <5>1, FileOrderIs
        <5>2. CASE c \in Named /\ req[d].row = req[c].row
          BY <2>2, <2>3, <3>1, <3>2, <5>2 DEF Alone, Named
        <5> QED
          BY <1>5, <3>3, <4>1, <5>1, <5>2, CommitOrders
      <4> QED
        BY <4>1
    <3> QED
      BY <1>1, <2>2, <2>3, <3>1, <3>2, <3>4
  <2> QED
    BY <2>2, <2>3 DEF Unchanged, Busy
<1> QED
  BY <1>2, <1>3, <1>4, <1>5, Steps

\* A commit leaves the order and the worth of a payable alone; only a receipt
\* adds one, for the order its request names.
LEMMA CommitPayables ==
    ASSUME Typed, NEW c \in Calls, Commits(c)
    PROVE  /\ \A p \in Owed : payable'[p].order = payable[p].order
           /\ Owed' = Owed \/ CommitReceive(c)
<1>1. CASE CommitReceive(c)
  <2>1. PICK q \in PayableRows : c \notin Owed /\ payable' = [payable EXCEPT ![c] = q]
    BY <1>1, CommitReceiveIs
  <2> QED
    BY <1>1, <2>1 DEF Owed, Typed, TypeOK
<1>2. CASE CommitPay(c)
  <2>1. /\ req[c].row \in Owed /\ Owed' = Owed
        /\ payable' = [payable EXCEPT ![req[c].row] =
              PaidUpTo(payable[req[c].row], seen[c].paid + req[c].vnd)]
        /\ PaidUpTo(payable[req[c].row], seen[c].paid + req[c].vnd).order
              = payable[req[c].row].order
    BY <1>2, CommitPayIs, PaidUpToRow
  <2> QED
    BY <2>1 DEF Typed, TypeOK
<1>3. CASE FileOrder(c) \/ CommitStatus(c) \/ CommitUpdate(c) \/ FileEntry(c)
  <2>1. UNCHANGED payable
    BY <1>3 DEF FileOrder, CommitStatus, CommitUpdate, FileEntry
  <2> QED
    BY <2>1 DEF Owed
<1> QED
  BY <1>1, <1>2, <1>3 DEF Commits

\* The payables of an order.
LEMMA PayablesIs == \A o : PayablesOf(o) = {p \in Owed : payable[p].order = o}
  BY DEF PayablesOf
\* The same, after a step.
LEMMA PayablesIsNext == \A o : PayablesOf(o)' = {p \in Owed' : payable'[p].order = o}
  BY DEF PayablesOf

\* An order nobody else was on stays fine when its call commits.
LEMMA CommitFine ==
    ASSUME Typed, Ordered, NEW c \in Calls, Commits(c), NEW o \in Filed', o \notin raced
    PROVE  OrderFine(o)'
<1>0. o \in Orders /\ (o \in Filed => OrderFine(o)) /\ UNCHANGED raced /\ c \in Busy
  <2>1. End(c) /\ c \in Busy
    BY CommitRows
  <2> QED
    BY <2>1 DEF Filed, Ordered, OrdersFine, End
<1>1. ASSUME Owed' = Owed PROVE PayablesOf(o)' = PayablesOf(o)
  BY <1>1, PayablesIs, PayablesIsNext, CommitPayables
<1>2. ASSUME order'[o] = order[o] PROVE NeedsApproval(o)' = NeedsApproval(o)
  BY <1>0, <1>2, TotalIs, TotalIsNext DEF NeedsApproval
<1>3. CASE order'[o] = order[o]
  <2>1. o \in Filed
    BY <1>3 DEF Filed
  <2>2. PayablesOf(o)' = PayablesOf(o)
    <3>1. CASE Owed' = Owed
      BY <1>1, <3>1
    <3>2. CASE CommitReceive(c)
      <4>1. PICK q \in PayableRows :
               /\ req[c].row \in Filed /\ order[req[c].row] \in OrderRows
               /\ order' = [order EXCEPT ![req[c].row] =
                     [order[req[c].row] EXCEPT !.status = "RECEIVED"]]
               /\ c \notin Owed /\ Owed' = Owed \cup {c}
               /\ payable' = [payable EXCEPT ![c] = q] /\ q.order = req[c].row
        BY <3>2, CommitReceiveIs
      <4>2. CASE req[c].row # o
        <5>1. payable'[c].order # o
          BY <4>1, <4>2 DEF Typed, TypeOK, Payables
        <5> QED
          BY <4>1, <5>1, PayablesIs, PayablesIsNext, CommitPayables
      <4>3. CASE req[c].row = o
        <5>1. order[o].status = "SENT"
          BY <1>0, <3>2, <4>3 DEF Ordered, Unchanged, HasRead, CommitReceive, At, OrderOps
        <5>2. order'[o].status = "RECEIVED"
          BY <4>1, <4>3 DEF OrderRows, Filed, Typed, TypeOK
        <5> QED
          BY <1>3, <5>1, <5>2
      <4> QED
        BY <4>2, <4>3
    <3> QED
      BY <3>1, <3>2, CommitPayables
  <2> QED
    BY <1>0, <1>2, <1>3, <2>1, <2>2 DEF OrderFine
<1>4. CASE FileOrder(c) /\ o = c
  <2>1. PICK row \in OrderRows :
           /\ order' = [order EXCEPT ![c] = row] /\ row.status = "DRAFT"
           /\ row.lines = {Line(c, req[c].vnd)} /\ c \notin Filed
    BY <1>4, FileOrderIs
  <2>2. order'[o] = row /\ Cardinality(row.lines) = 1
    BY <1>0, <1>4, <2>1, FS_Singleton DEF Typed, TypeOK
  <2>3. Owed' = Owed
    BY <1>4 DEF FileOrder, Owed
  <2>4. PayablesOf(o)' = {}
    <3>1. o # None
      BY <1>4, NamesDiffer
    <3>2. \A p \in Owed : payable[p].order # o
      BY <1>4, <2>1, <3>1 DEF Ordered, OwedIsFiled
    <3> QED
      BY <1>1, <2>3, <3>2, PayablesIs
  <2>5. Cardinality(PayablesOf(o)') = 0
    BY <2>4, FS_EmptySet
  <2> QED
    BY <2>1, <2>2, <2>5 DEF OrderFine
<1>5. ASSUME c \in Named, req[c].op \in OrderOps, o = req[c].row, o \in Filed,
             CommitStatus(c) \/ CommitUpdate(c) \/ CommitReceive(c)
      PROVE  OrderFine(o)'
  <2>0. /\ HasRead(req[c]) /\ OrderFine(o)
        /\ at[c] = "deleted" => seen[c] = order[o].lines
    BY <1>0, <1>5 DEF Ordered, Unchanged
  <2>1. CASE CommitStatus(c)
    <3>1. /\ order[o] \in OrderRows /\ req[c].op \in {"approve", "reject", "send", "cancel"}
          /\ order' = [order EXCEPT ![o] = Becomes(req[c].op, order[o])]
      BY <1>5, <2>1, CommitStatusIs DEF CommitStatus
    <3>2. PICK row \in OrderRows :
             /\ row = Becomes(req[c].op, order[o])
             /\ row.lines = order[o].lines
             /\ row.status \in {"APPROVED", "DRAFT", "SENT", "CANCELLED"}
             /\ req[c].op = "approve" => row.status = "APPROVED" /\ row.approved
             /\ req[c].op = "reject" => row.status = "DRAFT"
             /\ req[c].op = "send" => row.status = "SENT" /\ row.approved = order[o].approved
             /\ req[c].op = "cancel" => row.status = "CANCELLED"
      BY <3>1, BecomesRow
    <3>3. order'[o] = row
      BY <1>0, <3>1, <3>2 DEF Typed, TypeOK
    <3>4. UNCHANGED payable
      BY <2>1 DEF CommitStatus
    <3>5. PayablesOf(o)' = PayablesOf(o)
      BY <1>1, <3>4 DEF Owed
    <3>6. order[o].status \in {"DRAFT", "APPROVED", "SENT"}
      BY <1>5, <2>0, <3>1 DEF HasRead
    <3>7. NeedsApproval(o)' = NeedsApproval(o)
      BY <1>0, <3>2, <3>3, TotalIs, TotalIsNext DEF NeedsApproval
    <3>8. req[c].op = "send" =>
             order[o].status = "APPROVED" \/ ~NeedsApproval(o)
      BY <1>5, <2>0 DEF HasRead
    <3> QED
      BY <2>0, <3>1, <3>2, <3>3, <3>5, <3>6, <3>7, <3>8 DEF OrderFine
  <2>2. CASE CommitUpdate(c)
    <3>1. PICK row \in OrderRows :
             /\ order' = [order EXCEPT ![o] = row]
             /\ row.status = order[o].status
             /\ row.lines = (order[o].lines \ seen[c]) \cup {Line(c, req[c].vnd)}
      BY <1>5, <2>2, CommitUpdateIs
    <3>2. row.lines = {Line(c, req[c].vnd)} /\ row.status = "DRAFT"
      BY <1>5, <2>0, <2>2, <3>1 DEF CommitUpdate, At, HasRead
    <3>3. order'[o] = row /\ Cardinality(row.lines) = 1
      BY <1>0, <3>1, <3>2, FS_Singleton DEF Typed, TypeOK
    <3>4. UNCHANGED payable
      BY <2>2 DEF CommitUpdate
    <3>5. PayablesOf(o)' = PayablesOf(o)
      BY <1>1, <3>4 DEF Owed
    <3> QED
      BY <2>0, <3>1, <3>2, <3>3, <3>5 DEF OrderFine
  <2>3. CASE CommitReceive(c)
    <3>1. PICK q \in PayableRows :
             /\ order[o] \in OrderRows
             /\ order' = [order EXCEPT ![o] = [order[o] EXCEPT !.status = "RECEIVED"]]
             /\ c \notin Owed /\ Owed' = Owed \cup {c}
             /\ payable' = [payable EXCEPT ![c] = q] /\ q.order = o
      BY <1>5, <2>3, CommitReceiveIs
    <3>2. /\ order'[o].status = "RECEIVED" /\ order'[o].lines = order[o].lines
          /\ order'[o].approved = order[o].approved
      BY <1>0, <3>1 DEF OrderRows, Typed, TypeOK
    <3>3. order[o].status = "SENT"
      BY <1>5, <2>0, <2>3 DEF HasRead, CommitReceive, At
    <3>4. PayablesOf(o) = {}
      <4>1. Cardinality(PayablesOf(o)) = 0 /\ IsFiniteSet(PayablesOf(o))
        BY <2>0, <3>3, PayablesIs, FS_Subset DEF OrderFine, Typed, Finite
      <4> QED
        BY <4>1, FS_EmptySet
    <3>5. PayablesOf(o)' = {c}
      <4>1. payable'[c].order = o
        BY <3>1 DEF Typed, TypeOK, Payables
      <4> QED
        BY <3>1, <3>4, <4>1, PayablesIs, PayablesIsNext, CommitPayables
    <3>6. Cardinality(PayablesOf(o)') = 1
      BY <3>5, FS_Singleton
    <3>7. NeedsApproval(o)' = NeedsApproval(o)
      BY <1>0, <3>2, TotalIs, TotalIsNext DEF NeedsApproval
    <3> QED
      BY <2>0, <3>2, <3>3, <3>6, <3>7 DEF OrderFine
  <2> QED
    BY <1>5, <2>1, <2>2, <2>3
<1> QED
  BY <1>0, <1>3, <1>4, <1>5, CommitOrders

\* At the start there is one order, with the lines of one edit, and nobody is in flight.
LEMMA OrderedInit == Init => Ordered
<1> SUFFICES ASSUME Init PROVE Ordered
  OBVIOUS
<1>1. PICK r \in FirstOrders : order = [o \in Orders |-> IF o = FirstOrder THEN r ELSE None]
  BY DEF Init
<1>2. PICK v \in LineVnd : r.lines = {Line(FirstEdit, v)}
  BY <1>1 DEF FirstOrders
<1>3. Owed \subseteq {FirstPayable} /\ \A p \in Owed : payable[p].order = None
  BY NamesDiffer DEF Init, Owed, Payables
<1>4. Filed \subseteq {FirstOrder} /\ order[FirstOrder] = r
  BY <1>1 DEF Filed, Orders
<1>5. PayablesOf(FirstOrder) = {}
  BY <1>3, NoneIsNoRow DEF PayablesOf
<1>6. Cardinality(PayablesOf(FirstOrder)) = 0 /\ Cardinality(r.lines) = 1
  BY <1>2, <1>5, FS_EmptySet, FS_Singleton
<1>7. Total(FirstOrder) > ThresholdVnd /\ r.status = "SENT" => r.approved
  <2>1. \A l \in r.lines : l.vnd = v
    BY <1>2 DEF Line
  <2>2. Total(FirstOrder) = v
    <3> DEFINE val == [l \in r.lines |-> l.vnd]
    <3> DEFINE one == Line(FirstEdit, v)
    <3>1. \A l \in r.lines : val[l] = l.vnd /\ val[l] = v
      BY <2>1
    <3>2. one \in r.lines /\ r.lines = {one} /\ v \in Int
      BY <1>2, AmountsType
    <3> HIDE DEF val, one
    <3>3. Costs(r.lines) = Sum(val, r.lines)
      BY <3>1, CostsSum
    <3>4. Sum(val, r.lines) = v + Sum(val, {})
      <4>1. IsFiniteSet({}) /\ one \notin {} /\ \A x \in {} \cup {one} : val[x] \in Int
        BY <3>1, <3>2, FS_EmptySet
      <4>2. Sum(val, {} \cup {one}) = val[one] + Sum(val, {})
        BY <4>1, SumAdd
      <4>3. {} \cup {one} = r.lines
        BY <3>2
      <4> QED
        BY <3>1, <3>2, <4>2, <4>3
    <3> QED
      BY <1>4, <3>2, <3>3, <3>4, SumEmpty, TotalIs DEF Orders
  <2>3. r.status = "SENT" => r.approved \/ v <= ThresholdVnd
    <3>1. r.status = "SENT" => r.approved \/ \A l \in r.lines : l.vnd <= ThresholdVnd
      BY <1>1 DEF FirstOrders
    <3>2. \E l \in r.lines : l.vnd = v
      BY <1>2, <2>1
    <3> QED
      BY <3>1, <3>2
  <2> QED
    BY <2>2, <2>3, AmountsType
<1>8. OrderFine(FirstOrder)
  BY <1>1, <1>4, <1>6, <1>7 DEF OrderFine, FirstOrders, NeedsApproval
<1> QED
  BY <1>3, <1>4, <1>8
     DEF Ordered, Alone, Named, Unchanged, Busy, OwedIsFiled, OrdersFine, Init

\* Every step keeps the orders nobody else was on as they should be.
LEMMA OrderedNext == Typed /\ Ordered /\ [Next]_vars => Ordered'
<1> SUFFICES ASSUME Typed, Ordered, [Next]_vars PROVE Ordered'
  OBVIOUS
<1>0. Alone' /\ Unchanged'
  BY AloneNext, UnchangedNext DEF Ordered
<1>1. ASSUME UNCHANGED rows, raced \subseteq raced' PROVE OwedIsFiled' /\ OrdersFine'
  <2>1. Filed' = Filed /\ Owed' = Owed
    BY <1>1 DEF rows, Filed, Owed
  <2>2. \A o \in Orders : NeedsApproval(o)' = NeedsApproval(o)
    BY <1>1, TotalIs, TotalIsNext DEF NeedsApproval, rows
  <2>3. \A o : PayablesOf(o)' = PayablesOf(o)
    BY <1>1, <2>1, PayablesIs, PayablesIsNext DEF rows
  <2>4. \A o \in Filed' \ raced' : o \in Filed \ raced /\ o \in Orders
    BY <1>1, <2>1 DEF Filed
  <2> QED
    BY <1>1, <2>1, <2>2, <2>3, <2>4 DEF rows, Ordered, OwedIsFiled, OrdersFine, OrderFine
<1>2. CASE UNCHANGED vars
  BY <1>0, <1>1, <1>2 DEF vars, Ordered
<1>3. ASSUME NEW c \in Calls, Arrive(c) PROVE Ordered'
  <2>1. PICK r, where, read : Begin(c, r, where, read)
    BY <1>3, Arrivals
  <2> QED
    BY <1>0, <1>1, <2>1 DEF Begin, Ordered
<1>4. ASSUME NEW c \in Calls,
             \/ CountOrders(c) \/ DeleteLines(c) \/ CountEntries(c)
             \/ CollideOrders(c) /\ At(c, "createOrder", "counted") /\ Retry(c)
             \/ CollideEntries(c) /\ At(c, "createEntry", "counted") /\ Retry(c)
             \/ RefusePay(c) \/ Fail(c)
      PROVE  Ordered'
  <2>1. UNCHANGED <<rows, raced>>
    BY <1>4, Looks
  <2> QED
    BY <1>0, <1>1, <2>1 DEF Ordered
<1>5. ASSUME NEW c \in Calls, Commits(c) PROVE Ordered'
  <2>1. End(c) /\ Filed \subseteq Filed'
    BY <1>5, CommitRows
  <2>2. OrdersFine'
    BY <1>5, <2>1, CommitFine DEF OrdersFine, End
  <2>3. OwedIsFiled'
    <3>1. CASE Owed' = Owed
      BY <1>5, <2>1, <3>1, CommitPayables DEF Ordered, OwedIsFiled
    <3>2. CASE CommitReceive(c)
      <4>1. PICK q \in PayableRows :
               /\ req[c].row \in Filed /\ c \notin Owed /\ Owed' = Owed \cup {c}
               /\ payable' = [payable EXCEPT ![c] = q] /\ q.order = req[c].row
        BY <3>2, CommitReceiveIs
      <4>2. payable'[c].order = req[c].row
        BY <4>1 DEF Typed, TypeOK, Payables
      <4> QED
        BY <1>5, <2>1, <4>1, <4>2, CommitPayables DEF Ordered, OwedIsFiled
    <3> QED
      BY <1>5, <3>1, <3>2, CommitPayables
  <2> QED
    BY <1>0, <2>2, <2>3 DEF Ordered
<1> QED
  BY <1>2, <1>3, <1>4, <1>5, Steps

\* An order leaves for the supplier as it was approved, is owed for once and
\* holds the lines of one edit, unless two calls on it overlapped
\* (purchase-orders.service.ts).
THEOREM OrdersAreKept == Spec => []OrderKept
<1>1. Ordered => OrderKept
  BY DEF Ordered, OrdersFine, OrderFine, OrderKept, LimitKept, OwedOnce, LinesOfOneEdit
<1> QED
  BY <1>1, TypedInit, TypedNext, OrderedInit, OrderedNext, PTL DEF Spec

-----------------------------------------------------------------------------
(***************************************************************************)
(* The books.  A payment in flight starts from an amount that was booked   *)
(* and leaves room for itself; on a payable nobody else pays it starts     *)
(* from the amount that is there (PayFits).  So whatever is written last,  *)
(* paidVnd stays below what was booked and below the debt.                 *)
(***************************************************************************)
PayFits ==
    \A c \in Busy : req[c].op = "pay" =>
        LET p == req[c].row IN
        /\ seen[c].paid + req[c].vnd <= payable[p].vnd
        /\ seen[c].paid <= Booked(p)
        /\ p \notin raced => seen[c].paid = payable[p].paid

\* What was booked for was owed.
BookedIsOwed == \A e \in entries : e.payable \in Owed \cup {None}

Kept == Alone /\ PayFits /\ BookedIsOwed /\ BooksAddUp

\* What was booked for a payable, summed.
LEMMA BookedIs == \A p : Booked(p) = Costs({e \in entries : e.payable = p})
  BY DEF Booked, Costs

\* The same, after a step.
LEMMA BookedIsNext == \A p : Booked(p)' = Costs({e \in entries' : e.payable = p})
<1>1. (\A p : Booked(p) = Costs({e \in entries : e.payable = p}))'
  BY BookedIs, PTL
<1> QED
  BY <1>1

\* It is an amount, 0 when nothing was booked.
LEMMA BookedType ==
    ASSUME Typed, NEW p
    PROVE  Booked(p) \in Nat /\ ((\A e \in entries : e.payable # p) => Booked(p) = 0)
<1> DEFINE es == {e \in entries : e.payable = p}
<1>1. IsFiniteSet(es) /\ \A e \in es : e.vnd \in Nat
  BY FS_Subset DEF Typed, TypeOK, Finite
<1>2. Booked(p) = Costs(es)
  BY BookedIs
<1>3. (\A e \in entries : e.payable # p) => es = {}
  OBVIOUS
<1> HIDE DEF es
<1> DEFINE val == [e \in es |-> e.vnd]
<1>4. \A e \in es : val[e] = e.vnd /\ val[e] \in Nat
  BY <1>1
<1> HIDE DEF val
<1>5. Costs(es) = Sum(val, es)
  BY <1>4, CostsSum
<1>6. Sum(val, es) \in Nat
  BY <1>1, <1>4, SumType
<1> QED
  BY <1>2, <1>3, <1>5, <1>6, SumEmpty

\* A new entry adds its amount to what was booked for its payable.
LEMMA BookedAdds ==
    ASSUME Typed, NEW e, entries' = entries \cup {e}, e \notin entries, e.vnd \in Nat, NEW p
    PROVE  Booked(p)' = Booked(p) + (IF e.payable = p THEN e.vnd ELSE 0)
<1> DEFINE es == {d \in entries : d.payable = p}
<1>1. IsFiniteSet(es) /\ (\A d \in es : d.vnd \in Nat) /\ e \notin es
  BY FS_Subset DEF Typed, TypeOK, Finite
<1>2. {d \in entries' : d.payable = p} = IF e.payable = p THEN es \cup {e} ELSE es
  OBVIOUS
<1>3. Booked(p) = Costs(es) /\ Booked(p)' = Costs(IF e.payable = p THEN es \cup {e} ELSE es)
  BY <1>2, BookedIs, BookedIsNext
<1> HIDE DEF es
<1> DEFINE val == [d \in es \cup {e} |-> d.vnd]
<1>4. \A d \in es \cup {e} : val[d] = d.vnd /\ val[d] \in Nat /\ val[d] \in Int
  BY <1>1
<1> HIDE DEF val
<1>5. Costs(es) = Sum(val, es) /\ Costs(es \cup {e}) = Sum(val, es \cup {e})
  BY <1>4, CostsSum
<1>6. Sum(val, es \cup {e}) = val[e] + Sum(val, es)
  BY <1>1, <1>4, SumAdd
<1>7. Sum(val, es) \in Nat
  <2>1. \A d \in es : val[d] \in Nat
    BY <1>4
  <2> QED
    BY <1>1, <2>1, SumType
<1> QED
  BY <1>3, <1>4, <1>5, <1>6, <1>7

\* A set of codes 1 .. n takes the code n + 1.
LEMMA CodeFits ==
    ASSUME NEW n \in Nat, NEW k \in 0 .. n, k + 1 \notin 1 .. n
    PROVE  (1 .. n) \cup {k + 1} = 1 .. n + 1
  OBVIOUS

\* The codes of the orders run on.
LEMMA OrderCodes ==
    ASSUME Typed, CodesGapless, NEW c \in Calls, Commits(c)
    PROVE  {order'[o].code : o \in Filed'} = 1 .. Cardinality(Filed')
<1>0. IsFiniteSet(Filed) /\ Cardinality(Filed) \in Nat
  BY FS_CardinalityType DEF Typed, Finite
<1>1. ASSUME Filed' = Filed, \A o \in Filed : order'[o].code = order[o].code
      PROVE  {order'[o].code : o \in Filed'} = 1 .. Cardinality(Filed')
  <2>1. {order'[o].code : o \in Filed'} = {order[o].code : o \in Filed}
    BY <1>1
  <2>2. Cardinality(Filed') = Cardinality(Filed)
    BY <1>1
  <2> QED
    BY <2>1, <2>2 DEF CodesGapless
<1>2. CASE FileOrder(c)
  <2>1. PICK row \in OrderRows :
           /\ order' = [order EXCEPT ![c] = row] /\ row.code = seen[c] + 1
           /\ c \notin Filed /\ seen[c] \in 0 .. Cardinality(Filed) /\ Filed' = Filed \cup {c}
    BY <1>2, FileOrderIs
  <2>2. Cardinality(Filed') = Cardinality(Filed) + 1
    BY <1>0, <2>1, FS_AddElement
  <2>3. {order'[o].code : o \in Filed'} = {order[o].code : o \in Filed} \cup {seen[c] + 1}
    <3>1. order'[c].code = seen[c] + 1 /\ \A o \in Filed : order'[o] = order[o]
      BY <2>1 DEF Filed, Orders, Typed, TypeOK
    <3> QED
      BY <2>1, <3>1
  <2>4. seen[c] + 1 \notin {order[o].code : o \in Filed}
    BY <1>2 DEF FileOrder, CollideOrders
  <2>5. (1 .. Cardinality(Filed)) \cup {seen[c] + 1} = 1 .. Cardinality(Filed) + 1
    BY <1>0, <2>1, <2>4, CodeFits DEF CodesGapless
  <2> QED
    BY <2>2, <2>3, <2>5 DEF CodesGapless
<1>3. CASE CommitStatus(c)
  <2>1. /\ req[c].row \in Filed /\ Filed' = Filed
        /\ order' = [order EXCEPT ![req[c].row] = Becomes(req[c].op, order[req[c].row])]
        /\ Becomes(req[c].op, order[req[c].row]).code = order[req[c].row].code
    BY <1>3, CommitStatusIs, BecomesRow DEF CommitStatus
  <2> QED
    BY <1>1, <2>1 DEF Filed, Typed, TypeOK
<1>4. CASE CommitUpdate(c)
  <2>1. PICK row \in OrderRows :
           /\ order' = [order EXCEPT ![req[c].row] = row] /\ Filed' = Filed
           /\ row.code = order[req[c].row].code
    BY <1>4, CommitUpdateIs
  <2> QED
    BY <1>1, <2>1 DEF Filed, Typed, TypeOK
<1>5. CASE CommitReceive(c)
  <2>1. /\ req[c].row \in Filed /\ order[req[c].row] \in OrderRows /\ Filed' = Filed
        /\ order' = [order EXCEPT ![req[c].row] =
              [order[req[c].row] EXCEPT !.status = "RECEIVED"]]
    BY <1>5, CommitReceiveIs
  <2>2. PICK row : row = [order[req[c].row] EXCEPT !.status = "RECEIVED"]
                   /\ row.code = order[req[c].row].code
    BY <2>1 DEF OrderRows
  <2> QED
    BY <1>1, <2>1, <2>2 DEF Filed, Typed, TypeOK
<1>6. CASE FileEntry(c) \/ CommitPay(c)
  <2>1. UNCHANGED order
    BY <1>6 DEF FileEntry, CommitPay
  <2> QED
    BY <1>1, <2>1 DEF Filed
<1> QED
  BY <1>2, <1>3, <1>4, <1>5, <1>6 DEF Commits

\* And so do those of the entries.
LEMMA EntryCodes ==
    ASSUME Typed, CodesGapless, NEW c \in Calls, Commits(c)
    PROVE  {e.code : e \in entries'} = 1 .. Cardinality(entries')
<1>0. IsFiniteSet(entries) /\ Cardinality(entries) \in Nat
  BY FS_CardinalityType DEF Typed, Finite
<1>1. CASE UNCHANGED entries
  BY <1>1 DEF CodesGapless
<1>2. CASE FileEntry(c) \/ CommitPay(c)
  <2>1. PICK e : /\ entries' = entries \cup {e} /\ e \notin entries
                 /\ e.code = seen[c].count + 1
                 /\ seen[c].count \in 0 .. Cardinality(entries)
    BY <1>2, FileEntryIs
  <2>2. Cardinality(entries') = Cardinality(entries) + 1
    BY <1>0, <2>1, FS_AddElement
  <2>3. {d.code : d \in entries'} = {d.code : d \in entries} \cup {seen[c].count + 1}
    BY <2>1
  <2>4. seen[c].count + 1 \notin {d.code : d \in entries}
    BY <1>2 DEF FileEntry, CommitPay, CollideEntries
  <2>5. (1 .. Cardinality(entries)) \cup {seen[c].count + 1} = 1 .. Cardinality(entries) + 1
    BY <1>0, <2>1, <2>4, CodeFits DEF CodesGapless
  <2> QED
    BY <2>2, <2>3, <2>5 DEF CodesGapless
<1> QED
  BY <1>1, <1>2 DEF Commits, FileOrder, CommitStatus, CommitUpdate, CommitReceive

\* A commit writes the amounts of no payable but the one its request pays.
LEMMA CommitAmounts ==
    ASSUME Typed, BookedIsOwed, NEW c \in Calls, Commits(c), NEW p \in Owed
    PROVE  \/ payable'[p] = payable[p] /\ Booked(p)' = Booked(p)
           \/ /\ CommitPay(c) /\ c \in Named /\ p = req[c].row
              /\ payable[p] \in PayableRows
              /\ payable'[p] = PaidUpTo(payable[p], seen[c].paid + req[c].vnd)
              /\ seen[c].paid \in Nat /\ req[c].vnd \in Nat \ {0}
              /\ Booked(p)' = Booked(p) + req[c].vnd
<1>0. Booked(p) \in Nat /\ c \in Busy /\ Asked(c)
  BY BookedType, CommitRows DEF Typed, AllAsked
<1>1. ASSUME UNCHANGED entries PROVE Booked(p)' = Booked(p)
  BY <1>1, BookedIs, BookedIsNext
<1>2. CASE FileOrder(c) \/ CommitStatus(c) \/ CommitUpdate(c)
  BY <1>1, <1>2 DEF FileOrder, CommitStatus, CommitUpdate
<1>3. CASE CommitReceive(c)
  <2>1. PICK q \in PayableRows : c \notin Owed /\ payable' = [payable EXCEPT ![c] = q]
    BY <1>3, CommitReceiveIs
  <2>2. payable'[p] = payable[p]
    BY <2>1 DEF Owed, Typed, TypeOK
  <2> QED
    BY <1>1, <1>3, <2>2 DEF CommitReceive
<1>4. CASE FileEntry(c)
  <2>1. PICK e : entries' = entries \cup {e} /\ e \notin entries /\ e.vnd = 0
    BY <1>4, FileEntryIs
  <2>2. Booked(p)' = Booked(p)
    BY <1>0, <2>1, BookedAdds
  <2> QED
    BY <1>4, <2>2 DEF FileEntry
<1>5. CASE CommitPay(c)
  <2>0. seen[c].paid \in Nat /\ req[c].vnd \in Nat \ {0} /\ c \in Named
    <3>1. req[c] \in Requests /\ req[c].op = "pay" /\ seen[c].paid \in Nat
      BY <1>0, <1>5 DEF Asked, CommitPay, At
    <3> QED
      BY <1>0, <3>1, RequestFields, AmountsType DEF Named
  <2>1. PICK e : /\ entries' = entries \cup {e} /\ e \notin entries
                 /\ e.payable = req[c].row /\ e.vnd = req[c].vnd
    BY <1>5, FileEntryIs
  <2>2. Booked(p)' = Booked(p) + (IF req[c].row = p THEN req[c].vnd ELSE 0)
    BY <2>0, <2>1, BookedAdds
  <2>3. /\ req[c].row \in Owed /\ payable[req[c].row] \in PayableRows
        /\ payable' = [payable EXCEPT ![req[c].row] =
              PaidUpTo(payable[req[c].row], seen[c].paid + req[c].vnd)]
    BY <1>5, CommitPayIs
  <2>4. CASE p = req[c].row
    BY <1>5, <2>0, <2>2, <2>3, <2>4 DEF Owed, Typed, TypeOK
  <2>5. CASE p # req[c].row
    BY <1>0, <2>2, <2>3, <2>5 DEF Owed, Typed, TypeOK
  <2> QED
    BY <2>4, <2>5
<1> QED
  BY <1>2, <1>3, <1>4, <1>5 DEF Commits

\* A commit leaves the payments in flight their room.
LEMMA CommitPayFits ==
    ASSUME Typed, Kept, NEW c \in Calls, Commits(c)
    PROVE  PayFits'
<1>1. c \in Busy /\ End(c)
  BY CommitRows
<1>2. /\ UNCHANGED raced /\ at'[c] = "done"
      /\ \A d \in Calls \ {c} : at'[d] = at[d] /\ req'[d] = req[d] /\ seen'[d] = seen[d]
  BY <1>1 DEF End, Goto, Typed, TypeOK, EachSeen
<1>3. ASSUME NEW d \in Busy, d # c, req[d].op = "pay", NEW p, p = req[d].row
      PROVE  /\ seen[d].paid + req[d].vnd <= payable'[p].vnd
             /\ seen[d].paid <= Booked(p)'
             /\ p \notin raced => seen[d].paid = payable'[p].paid
  <2>1. /\ p \in Owed /\ d \in Named /\ seen[d].paid \in Nat
        /\ seen[d].paid + req[d].vnd <= payable[p].vnd
        /\ seen[d].paid <= Booked(p) /\ Booked(p) \in Nat
        /\ p \notin raced => seen[d].paid = payable[p].paid
    BY <1>3, BookedType DEF Typed, AllAsked, Asked, Named, Kept, PayFits
  <2>2. CASE payable'[p] = payable[p] /\ Booked(p)' = Booked(p)
    BY <2>1, <2>2
  <2>3. ASSUME c \in Named, p = req[c].row, payable[p] \in PayableRows,
               payable'[p] = PaidUpTo(payable[p], seen[c].paid + req[c].vnd),
               seen[c].paid \in Nat, req[c].vnd \in Nat \ {0},
               Booked(p)' = Booked(p) + req[c].vnd
        PROVE  /\ seen[d].paid + req[d].vnd <= payable'[p].vnd
               /\ seen[d].paid <= Booked(p)'
               /\ p \notin raced => seen[d].paid = payable'[p].paid
    <3>1. p \in raced
      BY <1>3, <2>1, <2>3 DEF Kept, Alone
    <3>2. payable'[p].vnd = payable[p].vnd
      BY <2>3, PaidUpToRow
    <3> QED
      BY <2>1, <2>3, <3>1, <3>2
  <2> QED
    BY <2>1, <2>2, <2>3, CommitAmounts DEF Kept
<1>4. ASSUME NEW d \in Busy', req'[d].op = "pay", NEW p, p = req'[d].row
      PROVE  /\ seen'[d].paid + req'[d].vnd <= payable'[p].vnd
             /\ seen'[d].paid <= Booked(p)'
             /\ p \notin raced' => seen'[d].paid = payable'[p].paid
  <2>1. d \in Busy /\ d # c /\ d \in Calls
    BY <1>2 DEF Busy
  <2> QED
    BY <1>2, <1>3, <1>4, <2>1
<1>5. ASSUME NEW d \in Busy', req'[d].op = "pay"
      PROVE  /\ seen'[d].paid + req'[d].vnd <= payable'[req'[d].row].vnd
             /\ seen'[d].paid <= Booked(req[d].row)'
             /\ req'[d].row \notin raced' => seen'[d].paid = payable'[req'[d].row].paid
  <2>1. PICK p : p = req'[d].row
    OBVIOUS
  <2> QED
    BY <1>4, <1>5, <2>1
<1> QED
  BY <1>2, <1>5 DEF PayFits, Busy

\* What the books say of one payable.
PayableFine(p) ==
    /\ payable[p].paid <= Booked(p)
    /\ payable[p].paid <= payable[p].vnd
    /\ payable[p].status = "PAID" <=>
          payable[p].paid = payable[p].vnd /\ payable[p].paid > 0
    /\ p \notin raced => payable[p].paid = Booked(p)

\* The books are those of every payable, and the codes.
LEMMA PayablesAreFine ==
    BooksAddUp <=> CodesGapless /\ \A p \in Owed : PayableFine(p)
  BY DEF BooksAddUp, PaidIsBooked, PaidWithinDebt, PaymentsAddUp, PayableFine

\* A commit keeps the books of every payable.
LEMMA CommitBooks ==
    ASSUME Typed, Kept, NEW c \in Calls, Commits(c), NEW p \in Owed'
    PROVE  PayableFine(p)'
<1>0. UNCHANGED raced /\ c \in Busy
  <2>1. End(c) /\ c \in Busy
    BY CommitRows
  <2> QED
    BY <2>1 DEF End
<1>1. CASE p \notin Owed
  <2>1. CommitReceive(c)
    BY <1>1, CommitPayables
  <2>2. PICK q \in PayableRows :
           /\ c \notin Owed /\ Owed' = Owed \cup {c} /\ payable' = [payable EXCEPT ![c] = q]
           /\ q.paid = 0 /\ q.status = "OPEN"
    BY <2>1, CommitReceiveIs
  <2>3. p = c
    BY <1>1, <2>2
  <2>4. payable'[p] = q
    BY <2>2, <2>3 DEF Typed, TypeOK, Payables
  <2>5. Booked(p)' = 0
    <3>1. UNCHANGED entries
      BY <2>1 DEF CommitReceive
    <3>2. p # None
      BY <2>3, NamesDiffer
    <3>3. \A e \in entries : e.payable # p
      BY <1>1, <3>2 DEF Kept, BookedIsOwed
    <3> QED
      BY <3>1, <3>3, BookedType, BookedIs, BookedIsNext
  <2> QED
    BY <2>2, <2>4, <2>5 DEF PayableFine, PayableRows
<1>2. CASE p \in Owed
  <2>1. PayableFine(p) /\ Booked(p) \in Nat
    BY <1>2, BookedType, PayablesAreFine DEF Kept
  <2>2. CASE payable'[p] = payable[p] /\ Booked(p)' = Booked(p)
    BY <1>0, <2>1, <2>2 DEF PayableFine
  <2>3. ASSUME CommitPay(c), c \in Named, p = req[c].row, payable[p] \in PayableRows,
               payable'[p] = PaidUpTo(payable[p], seen[c].paid + req[c].vnd),
               seen[c].paid \in Nat, req[c].vnd \in Nat \ {0},
               Booked(p)' = Booked(p) + req[c].vnd
        PROVE  PayableFine(p)'
    <3>1. /\ seen[c].paid + req[c].vnd <= payable[p].vnd
          /\ seen[c].paid <= Booked(p)
          /\ p \notin raced => seen[c].paid = payable[p].paid
      BY <1>0, <2>3 DEF Kept, PayFits, CommitPay, At
    <3>2. PICK n \in Nat \ {0} : n = seen[c].paid + req[c].vnd
      BY <2>3
    <3>3. PICK row \in PayableRows : row = payable'[p] /\ row.vnd = payable[p].vnd /\ row.paid = n
                                     /\ row.status = IF n >= payable[p].vnd THEN "PAID" ELSE "OPEN"
      <4>1. PICK old \in PayableRows : old = payable[p]
        BY <2>3
      <4>2. payable'[p] = PaidUpTo(old, n)
        BY <2>3, <3>2, <4>1
      <4>3. /\ PaidUpTo(old, n) \in PayableRows
            /\ PaidUpTo(old, n).vnd = old.vnd /\ PaidUpTo(old, n).paid = n
            /\ PaidUpTo(old, n).status = IF n >= old.vnd THEN "PAID" ELSE "OPEN"
        BY PaidUpToRow
      <4> QED
        BY <4>1, <4>2, <4>3
    <3>4. payable[p].vnd \in Nat
      BY <2>3 DEF PayableRows
    <3> QED
      BY <1>0, <2>1, <2>3, <3>1, <3>2, <3>3, <3>4 DEF PayableFine
  <2> QED
    BY <1>2, <2>2, <2>3, CommitAmounts DEF Kept
<1> QED
  BY <1>1, <1>2

\* What was booked for was owed, also after a commit.
LEMMA CommitBookedIsOwed ==
    ASSUME Typed, BookedIsOwed, NEW c \in Calls, Commits(c)
    PROVE  BookedIsOwed'
<1>1. Owed \subseteq Owed'
  BY CommitRows
<1>2. CASE UNCHANGED entries
  BY <1>1, <1>2 DEF BookedIsOwed
<1>3. CASE CommitPay(c)
  <2>1. PICK e : entries' = entries \cup {e} /\ e.payable = req[c].row
    BY <1>3, FileEntryIs
  <2>2. req[c].row \in Owed
    BY <1>3, CommitPayIs
  <2> QED
    BY <1>1, <2>1, <2>2 DEF BookedIsOwed
<1>4. CASE FileEntry(c)
  <2>1. entries' = entries \cup {[by |-> c, code |-> seen[c].count + 1,
                                  payable |-> None, vnd |-> 0]}
    BY <1>4 DEF FileEntry
  <2> QED
    BY <1>1, <2>1 DEF BookedIsOwed
<1> QED
  BY <1>2, <1>3, <1>4 DEF Commits, FileOrder, CommitStatus, CommitUpdate, CommitReceive

\* At the start nothing is booked.
LEMMA KeptInit == Init => Kept
<1> SUFFICES ASSUME Init PROVE Kept
  OBVIOUS
<1>1. Typed
  BY TypedInit
<1>2. entries = {} /\ Busy = {}
  BY DEF Init, Busy
<1>3. \A p : Booked(p) = 0
  BY <1>1, <1>2, BookedType
<1>4. \A p \in Owed : PayableFine(p)
  <2>1. \A p \in Owed : payable[p].paid = 0 /\ payable[p].status = "OPEN"
                        /\ payable[p].vnd \in Nat
    BY AmountsType DEF Init, Owed
  <2> QED
    BY <1>3, <2>1 DEF PayableFine
<1>5. CodesGapless
  <2>1. PICK r \in FirstOrders :
           order = [o \in Orders |-> IF o = FirstOrder THEN r ELSE None]
    BY DEF Init
  <2>2. r \in OrderRows /\ r.code = 1
    <3>1. PICK v \in LineVnd : r.lines = {Line(FirstEdit, v)}
      BY <2>1 DEF FirstOrders
    <3> QED
      BY <2>1, <3>1 DEF FirstOrders, OrderRows, Line
  <2>3. Filed = {FirstOrder} /\ order[FirstOrder].code = 1
    BY <2>1, <2>2, NoneIsNoRow DEF Filed, Orders
  <2>4. Cardinality(Filed) = 1 /\ Cardinality(entries) = 0
    BY <1>2, <2>3, FS_Singleton, FS_EmptySet
  <2>5. {order[o].code : o \in Filed} = {1}
    BY <2>3
  <2>6. {e.code : e \in entries} = {}
    BY <1>2
  <2>7. 1 .. 1 = {1} /\ 1 .. 0 = {}
    OBVIOUS
  <2> QED
    BY <2>4, <2>5, <2>6, <2>7, Zenon DEF CodesGapless
<1> QED
  BY <1>2, <1>4, <1>5, PayablesAreFine DEF Kept, Alone, Named, PayFits, BookedIsOwed

\* Every step keeps the books.
LEMMA KeptNext == Typed /\ Kept /\ [Next]_vars => Kept'
<1> SUFFICES ASSUME Typed, Kept, [Next]_vars PROVE Kept'
  OBVIOUS
<1>0. Alone'
  BY AloneNext DEF Kept
<1>1. ASSUME UNCHANGED rows, raced \subseteq raced' PROVE BookedIsOwed' /\ BooksAddUp'
  <2>1. Filed' = Filed /\ Owed' = Owed
    BY <1>1 DEF rows, Filed, Owed
  <2>2. \A p : Booked(p)' = Booked(p)
    BY <1>1, BookedIs, BookedIsNext DEF rows
  <2>3. CodesGapless'
    BY <1>1, <2>1 DEF rows, Kept, BooksAddUp, CodesGapless
  <2>4. PaidIsBooked' /\ PaidWithinDebt' /\ PaymentsAddUp'
    BY <1>1, <2>1, <2>2
       DEF rows, Kept, BooksAddUp, PaidIsBooked, PaidWithinDebt, PaymentsAddUp
  <2> QED
    BY <1>1, <2>1, <2>3, <2>4 DEF rows, Kept, BookedIsOwed, BooksAddUp
<1>2. CASE UNCHANGED vars
  <2>1. \A p : Booked(p)' = Booked(p)
    BY <1>2, BookedIs, BookedIsNext DEF vars, rows
  <2>2. PayFits'
    BY <1>2, <2>1 DEF vars, rows, Kept, PayFits, Busy
  <2> QED
    BY <1>0, <1>1, <1>2, <2>2 DEF vars, Kept
<1>3. ASSUME NEW c \in Calls, Arrive(c) PROVE Kept'
  <2>1. PICK r, where, read : Begin(c, r, where, read) /\ Passed(r, where, read)
    BY <1>3, Arrivals
  <2>2. /\ UNCHANGED rows /\ raced \subseteq raced' /\ req'[c] = r /\ seen'[c] = read
        /\ \A d \in Calls \ {c} : at'[d] = at[d] /\ req'[d] = req[d] /\ seen'[d] = seen[d]
    BY <2>1 DEF Begin, Goto, Typed, TypeOK, EachSeen
  <2>3. \A p : Booked(p)' = Booked(p)
    BY <2>2, BookedIs, BookedIsNext DEF rows
  <2>4. ASSUME NEW d \in Busy', req'[d].op = "pay", NEW p, p = req'[d].row
        PROVE  /\ seen'[d].paid + req'[d].vnd <= payable'[p].vnd
               /\ seen'[d].paid <= Booked(p)
               /\ p \notin raced' => seen'[d].paid = payable'[p].paid
    <3>1. CASE d # c
      <4>1. d \in Busy
        BY <2>2, <2>4, <3>1 DEF Busy
      <4> QED
        BY <2>2, <2>4, <3>1, <4>1 DEF rows, Kept, PayFits, Busy
    <3>2. CASE d = c
      <4>1. /\ p \in Owed /\ read.paid = payable[p].paid /\ payable[p] \in PayableRows
            /\ r.vnd + payable[p].paid <= payable[p].vnd /\ r.vnd \in Nat
        BY <2>1, <2>2, <2>4, <3>2, RequestFields, AmountsType DEF Passed
      <4>2. payable[p].paid <= Booked(p)
        BY <4>1 DEF Kept, BooksAddUp, PaidIsBooked
      <4> QED
        BY <2>2, <2>4, <3>2, <4>1, <4>2 DEF rows, PayableRows
    <3> QED
      BY <3>1, <3>2
  <2>5. PayFits'
    BY <2>3, <2>4 DEF PayFits
  <2> QED
    BY <1>0, <1>1, <2>2, <2>5 DEF Kept
<1>4. ASSUME NEW c \in Calls,
             \/ CountOrders(c) \/ DeleteLines(c) \/ CountEntries(c)
             \/ CollideOrders(c) /\ At(c, "createOrder", "counted") /\ Retry(c)
             \/ CollideEntries(c) /\ At(c, "createEntry", "counted") /\ Retry(c)
             \/ RefusePay(c) \/ Fail(c)
      PROVE  Kept'
  <2>1. /\ UNCHANGED <<rows, raced>> /\ c \in Busy
        /\ \A d \in Calls \ {c} : at'[d] = at[d] /\ req'[d] = req[d] /\ seen'[d] = seen[d]
        /\ \/ at'[c] = "done"
           \/ req'[c] = req[c] /\ (req[c].op = "pay" => seen'[c].paid = seen[c].paid)
    BY <1>4, Looks
  <2>2. \A p : Booked(p)' = Booked(p)
    BY <2>1, BookedIs, BookedIsNext DEF rows
  <2>3. ASSUME NEW d \in Busy', req'[d].op = "pay"
        PROVE  d \in Busy /\ req'[d] = req[d] /\ seen'[d].paid = seen[d].paid
    BY <2>1, <2>3 DEF Busy
  <2>4. PayFits'
    BY <2>1, <2>2, <2>3 DEF rows, Kept, PayFits
  <2> QED
    BY <1>0, <1>1, <2>1, <2>4 DEF Kept
<1>5. ASSUME NEW c \in Calls, Commits(c) PROVE Kept'
  <2>1. CodesGapless'
    BY <1>5, OrderCodes, EntryCodes DEF Kept, BooksAddUp, CodesGapless
  <2>2. \A p \in Owed' : PayableFine(p)'
    BY <1>5, CommitBooks
  <2>3. (BooksAddUp <=> CodesGapless /\ \A p \in Owed : PayableFine(p))'
    BY PayablesAreFine, PTL
  <2> QED
    BY <1>0, <1>5, <2>1, <2>2, <2>3, CommitPayFits, CommitBookedIsOwed DEF Kept
<1> QED
  BY <1>2, <1>3, <1>4, <1>5, Steps

\* The codes of orders and entries run without a gap, and no payable claims more
\* than was booked for it or than is owed, in whatever order payments commit
\* (purchase-orders.service.ts, finance.service.ts).
THEOREM BooksAlwaysAddUp == Spec => []BooksAddUp
<1>1. Kept => BooksAddUp
  BY DEF Kept
<1> QED
  BY <1>1, TypedInit, TypedNext, KeptInit, KeptNext, PTL DEF Spec
=============================================================================
