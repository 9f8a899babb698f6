----------------------------- MODULE BillLedger -----------------------------
(***************************************************************************)
(* The server's bill ledger: every call that inserts or cancels a bill,    *)
(* split into the SQL statements other transactions can observe.           *)
(*                                                                         *)
(*   createBill   POST /sales/bills         one transaction, dedup inside  *)
(*   processBill  POST /sales/bills/sync    dedup read BEFORE the          *)
(*                                          transaction                    *)
(*   allocate     the gapless per-(branch, business date) counter          *)
(*   cancelBill   checks BEFORE the transaction, row lock taken by UPDATE  *)
(*   shifts       only OPEN or not: what a bill call reads of a shift      *)
(*                                                                         *)
(* Isolation is PostgreSQL READ COMMITTED (PrismaService.withTx passes no  *)
(* isolation level): each statement sees what is committed when it runs,   *)
(* UPDATE and SELECT ... FOR UPDATE wait for the row's lock holder, and an *)
(* INSERT waits for an uncommitted row with the same unique key.           *)
(*                                                                         *)
(* A bill is identified by the call whose transaction inserted it, so the  *)
(* table is a function on Calls.  Prices, lines, the audit rows and the    *)
(* per-ingredient stock arithmetic are abstracted; that the stock of a     *)
(* bill leaves once and comes back once is kept (moves).                   *)
(***************************************************************************)
EXTENDS Integers, FiniteSets, Sequences

CONSTANTS
    Calls,          \* createBill and processBill calls
    Cancels,        \* cancelBill calls
    Branches,
    Shifts,
    ShiftBranch,    \* the branch each shift was opened at
    LastDay,        \* bound on the business dates: 1..LastDay
    Sales,          \* (deviceId, clientUuid) pairs
    Orders,         \* what else computeContentHash covers: the lines
    NoSale,         \* clientUuid absent (online create only)
    None

ASSUME ShiftBranchType == ShiftBranch \in [Shifts -> Branches]
ASSUME LastDayType == LastDay \in Nat \ {0}
ASSUME NoSaleDistinct == NoSale \notin Sales

VARIABLES
    today,          \* the server's Vietnam calendar day
    shiftOpen,      \* shifts whose status is OPEN
    counter,        \* committed bill_counter.lastNo, -1 when there is no row
    holder,         \* transaction holding the counter row's lock
    bills,          \* committed bill rows, by the call that inserted them
    moves,          \* committed stock movements of a bill: out and back
    pc, req, seq, reply,            \* the bill calls
    xpc, target, returning, rowLock \* the cancel calls, and bill row locks

ledgerVars == <<counter, holder, bills, moves>>
callVars   == <<pc, req, seq, reply>>
cancelVars == <<xpc, target, returning, rowLock>>
vars == <<today, shiftOpen, counter, holder, bills, moves,
          pc, req, seq, reply, xpc, target, returning, rowLock>>

-----------------------------------------------------------------------------
Days == 1..LastDay
Keys == Branches \X Days        \* the counter's primary key
NoRow == -1                     \* the day's counter row does not exist yet

Requests ==
    [path : {"online", "sync"}, sale : Sales \cup {NoSale}, branch : Branches,
     shift : Shifts, day : Days, order : Orders]

\* What computeContentHash covers: shift, createdAt and lines.
Content(r) == <<r.shift, r.day, r.order>>

BillRows ==
    [key : Keys, seq : Nat \ {0}, sale : Sales \cup {NoSale}, shift : Shifts,
     hash : (Shifts \X Days \X Orders) \cup {None},
     status : {"COMPLETED", "CANCELLED"}]

ASSUME NoneDistinct ==
    None \notin Calls \cup Cancels \cup Requests \cup BillRows

Numbers == Keys \X (Nat \ {0})
NumberOf(row) == <<row.key, row.seq>>

Answers ==
    [status : {"none", "refused", "failed", "retry", "mismatch"}]
        \cup [status : {"committed"}, number : Numbers]

KeyOf(c) == <<req[c].branch, req[c].day>>
Issued == {b \in Calls : bills[b] # None}

\* Mutated form: two creates without a clientUuid pass for the same sale.
SameSaleOrNone(s) == {b \in Issued : bills[b].sale = s}
SameSale(s) == {b \in Issued : bills[b].sale = s /\ s # NoSale}

\* States of a bill call in which its database transaction is open.
InTx(c) == pc[c] \in {"validate", "counter", "lock", "insert", "commit"}

-----------------------------------------------------------------------------
Init ==
    /\ today = 1
    /\ shiftOpen = Shifts
    /\ counter = [k \in Keys |-> NoRow]
    /\ holder = [k \in Keys |-> None]
    /\ bills = [c \in Calls |-> None]
    /\ moves = [c \in Calls |-> [out |-> 0, back |-> 0]]
    /\ pc = [c \in Calls |-> "idle"]
    /\ req = [c \in Calls |-> None]
    /\ seq = [c \in Calls |-> 0]
    /\ reply = [c \in Calls |-> [status |-> "none"]]
    /\ xpc = [x \in Cancels |-> "idle"]
    /\ target = [x \in Cancels |-> None]
    /\ returning = [x \in Cancels |-> 0]
    /\ rowLock = [c \in Calls |-> None]

(***************************************************************************)
(* A bill call.                                                            *)
(***************************************************************************)

\* A device posts a bill.  Only the online path may leave clientUuid out and
\* gets its business date from the server's clock (see Validate).
Submit(c, r) ==
    /\ pc[c] = "idle"
    /\ r.path = "sync" => r.sale # NoSale
    /\ r.path = "online" => r.day = today
    /\ pc' = [pc EXCEPT ![c] = "received"]
    /\ req' = [req EXCEPT ![c] = r]
    /\ UNCHANGED <<today, shiftOpen, ledgerVars, seq, reply, cancelVars>>

Answer(c, a) ==
    /\ pc' = [pc EXCEPT ![c] = "done"]
    /\ reply' = [reply EXCEPT ![c] = a]
    /\ UNCHANGED <<req, seq>>

\* Bad lines, a branch or device the token does not allow, a garbled payment:
\* answered before the ledger is looked at.
Refuse(c) ==
    /\ pc[c] = "received"
    /\ Answer(c, [status |-> "refused"])
    /\ UNCHANGED <<today, shiftOpen, ledgerVars, cancelVars>>

\* createBill step 1: inside the transaction, by (deviceId, clientUuid) only.
DedupOnline(c) ==
    /\ pc[c] = "received"
    /\ req[c].path = "online"
    /\ \/ \E b \in SameSale(req[c].sale) :
            Answer(c, [status |-> "committed", number |-> NumberOf(bills[b])])
       \/ /\ SameSale(req[c].sale) = {}
          /\ pc' = [pc EXCEPT ![c] = "validate"]
          /\ UNCHANGED <<req, seq, reply>>
    /\ UNCHANGED <<today, shiftOpen, ledgerVars, cancelVars>>

\* Mutated form: a bill created online has no hash and never matches.
LookupSyncStrict(c) ==
    /\ pc[c] = "received"
    /\ req[c].path = "sync"
    /\ \/ \E b \in SameSale(req[c].sale) :
            IF bills[b].hash # Content(req[c])
            THEN Answer(c, [status |-> "mismatch"])
            ELSE Answer(c, [status |-> "committed",
                            number |-> NumberOf(bills[b])])
       \/ /\ SameSale(req[c].sale) = {}
          /\ pc' = [pc EXCEPT ![c] = "validate"]
          /\ UNCHANGED <<req, seq, reply>>
    /\ UNCHANGED <<today, shiftOpen, ledgerVars, cancelVars>>

\* processBill's lookup, before its transaction.  A bill created online stored
\* no hash and matches any content.
LookupSync(c) ==
    /\ pc[c] = "received"
    /\ req[c].path = "sync"
    /\ \/ \E b \in SameSale(req[c].sale) :
            IF bills[b].hash # None /\ bills[b].hash # Content(req[c])
            THEN Answer(c, [status |-> "mismatch"])
            ELSE Answer(c, [status |-> "committed",
                            number |-> NumberOf(bills[b])])
       \/ /\ SameSale(req[c].sale) = {}
          /\ pc' = [pc EXCEPT ![c] = "validate"]
          /\ UNCHANGED <<req, seq, reply>>
    /\ UNCHANGED <<today, shiftOpen, ledgerVars, cancelVars>>

\* Mutated forms: a counter that, like a database sequence, does not take its
\* increment back, and a rollback that leaves the counter row locked.
RollbackKeepsNumber(c) ==
    /\ holder' = [k \in Keys |-> IF holder[k] = c THEN None ELSE holder[k]]
    /\ counter' = [k \in Keys |-> IF holder[k] = c /\ seq[c] > 0
                                  THEN seq[c] ELSE counter[k]]
    /\ Answer(c, [status |-> "failed"])
    /\ UNCHANGED <<bills, moves>>
RollbackKeepsLock(c) ==
    /\ Answer(c, [status |-> "failed"])
    /\ UNCHANGED <<counter, holder, bills, moves>>

\* Roll back: the counter keeps its committed value and its lock is released.
\* The online path answers an HTTP error, the sync path "retry".
Rollback(c) ==
    /\ holder' = [k \in Keys |-> IF holder[k] = c THEN None ELSE holder[k]]
    /\ Answer(c, [status |-> IF req[c].path = "sync" THEN "retry"
                                                     ELSE "failed"])
    /\ UNCHANGED <<counter, bills, moves>>

\* The shift is read without a lock; online, createdAt is the server's clock.
Validate(c) ==
    /\ pc[c] = "validate"
    /\ req[c].shift \in shiftOpen
    /\ ShiftBranch[req[c].shift] = req[c].branch
    /\ req' = IF req[c].path = "online" THEN [req EXCEPT ![c].day = today]
                                        ELSE req
    /\ pc' = [pc EXCEPT ![c] = "counter"]
    /\ UNCHANGED <<today, shiftOpen, ledgerVars, seq, reply, cancelVars>>

\* Shift missing, not OPEN or of another branch.
RejectShift(c) ==
    /\ pc[c] = "validate"
    /\ \/ req[c].shift \notin shiftOpen
       \/ ShiftBranch[req[c].shift] # req[c].branch
    /\ Rollback(c)
    /\ UNCHANGED <<today, shiftOpen, cancelVars>>

\* A NO_PRICE line, a policy violation (online), a lost connection, Prisma's
\* interactive-transaction timeout or a server crash, at any point of the
\* transaction or of the lookup before it.
Abort(c) ==
    /\ InTx(c) \/ pc[c] = "received"
    /\ Rollback(c)
    /\ UNCHANGED <<today, shiftOpen, cancelVars>>

\* INSERT INTO bill_counter ... ON CONFLICT DO NOTHING.
EnsureCounter(c) ==
    /\ pc[c] = "counter"
    /\ counter[KeyOf(c)] = NoRow => holder[KeyOf(c)] = None
    /\ holder' = IF counter[KeyOf(c)] = NoRow
                 THEN [holder EXCEPT ![KeyOf(c)] = c] ELSE holder
    /\ pc' = [pc EXCEPT ![c] = "lock"]
    /\ UNCHANGED <<today, shiftOpen, counter, bills, moves, req, seq, reply,
                   cancelVars>>

\* A counter row is created with lastNo 0.
NextNoFromMinusOne(k) == counter[k] + 1     \* mutated form: the first bill is 0
NextNo(k) == IF counter[k] = NoRow THEN 1 ELSE counter[k] + 1

\* SELECT lastNo ... FOR UPDATE, then UPDATE lastNo (not yet committed).
LockCounter(c) ==
    /\ pc[c] = "lock"
    /\ holder[KeyOf(c)] \in {None, c}
    /\ holder' = [holder EXCEPT ![KeyOf(c)] = c]
    /\ seq' = [seq EXCEPT ![c] = NextNo(KeyOf(c))]
    /\ pc' = [pc EXCEPT ![c] = "insert"]
    /\ UNCHANGED <<today, shiftOpen, counter, bills, moves, req, reply,
                   cancelVars>>

\* Mutated form: no unique key on (deviceId, clientUuid).
SameNumber(c, sale, key, n) == KeyOf(c) = key /\ seq[c] = n

\* The unique keys of bill: (deviceId, clientUuid), number and
\* (branchId, businessDate, seq).
SameKey(c, sale, key, n) ==
    \/ req[c].sale # NoSale /\ req[c].sale = sale
    \/ KeyOf(c) = key /\ seq[c] = n

Inserting(c) ==
    {d \in Calls : /\ d # c
                   /\ pc[d] = "commit"
                   /\ SameKey(c, req[d].sale, KeyOf(d), seq[d])}
Conflicting(c) ==
    {b \in Issued : SameKey(c, bills[b].sale, bills[b].key, bills[b].seq)}

\* INSERT INTO bill with its lines: waits for an uncommitted twin.
InsertBill(c) ==
    /\ pc[c] = "insert"
    /\ Inserting(c) = {}
    /\ Conflicting(c) = {}
    /\ pc' = [pc EXCEPT ![c] = "commit"]
    /\ UNCHANGED <<today, shiftOpen, ledgerVars, req, seq, reply, cancelVars>>

UniqueViolation(c) ==
    /\ pc[c] = "insert"
    /\ Inserting(c) = {}
    /\ Conflicting(c) # {}
    /\ Rollback(c)
    /\ UNCHANGED <<today, shiftOpen, cancelVars>>

RowOf(c) ==
    [key |-> KeyOf(c), seq |-> seq[c], sale |-> req[c].sale,
     shift |-> req[c].shift,
     hash |-> IF req[c].path = "sync" THEN Content(req[c]) ELSE None,
     status |-> "COMPLETED"]

\* The bill, its counter value and its stock movements become visible at once
\* and the caller gets the number.
Commit(c) ==
    /\ pc[c] = "commit"
    /\ counter' = [counter EXCEPT ![KeyOf(c)] = seq[c]]
    /\ holder' = [holder EXCEPT ![KeyOf(c)] = None]
    /\ bills' = [bills EXCEPT ![c] = RowOf(c)]
    /\ moves' = [moves EXCEPT ![c].out = 1]
    /\ Answer(c, [status |-> "committed", number |-> <<KeyOf(c), seq[c]>>])
    /\ UNCHANGED <<today, shiftOpen, cancelVars>>

-----------------------------------------------------------------------------
(***************************************************************************)
(* A cancel call.                                                          *)
(***************************************************************************)

\* Status, shift and device are read outside the transaction.
CheckCancel(x, b) ==
    /\ xpc[x] = "idle"
    /\ b \in Issued
    /\ \/ /\ bills[b].status = "COMPLETED"
          /\ bills[b].shift \in shiftOpen
          /\ xpc' = [xpc EXCEPT ![x] = "approved"]
          /\ target' = [target EXCEPT ![x] = b]
       \/ \* already cancelled, shift closed, other device or wrong PIN
          /\ xpc' = [xpc EXCEPT ![x] = "done"]
          /\ UNCHANGED target
    /\ UNCHANGED <<today, shiftOpen, ledgerVars, callVars, returning, rowLock>>

\* bill.update sets CANCELLED whatever the row holds, and takes its lock.
UpdateRow(x) ==
    /\ xpc[x] = "approved"
    /\ rowLock[target[x]] = None
    /\ rowLock' = [rowLock EXCEPT ![target[x]] = x]
    /\ xpc' = [xpc EXCEPT ![x] = "updated"]
    /\ UNCHANGED <<today, shiftOpen, ledgerVars, callVars, target, returning>>

\* Mutated form: the second of two racing cancels reverses again.
ReverseAgain(x) ==
    /\ xpc[x] = "updated"
    /\ returning' = [returning EXCEPT ![x] = moves[target[x]].out]
    /\ xpc' = [xpc EXCEPT ![x] = "reversed"]
    /\ UNCHANGED <<today, shiftOpen, ledgerVars, callVars, target, rowLock>>

\* reverseForBill: nothing when a BILL_REVERSAL movement is already there.
ReverseStock(x) ==
    /\ xpc[x] = "updated"
    /\ returning' = [returning EXCEPT ![x] =
                        IF moves[target[x]].back > 0 THEN 0
                                                     ELSE moves[target[x]].out]
    /\ xpc' = [xpc EXCEPT ![x] = "reversed"]
    /\ UNCHANGED <<today, shiftOpen, ledgerVars, callVars, target, rowLock>>

\* Mutated form: the bill's row is deleted.
CommitDelete(x) ==
    /\ xpc[x] = "reversed"
    /\ bills' = [bills EXCEPT ![target[x]] = None]
    /\ moves' = [moves EXCEPT ![target[x]].back = @ + returning[x]]
    /\ rowLock' = [rowLock EXCEPT ![target[x]] = None]
    /\ xpc' = [xpc EXCEPT ![x] = "done"]
    /\ UNCHANGED <<today, shiftOpen, counter, holder, callVars, target,
                   returning>>

CommitCancel(x) ==
    /\ xpc[x] = "reversed"
    /\ bills' = [bills EXCEPT ![target[x]].status = "CANCELLED"]
    /\ moves' = [moves EXCEPT ![target[x]].back = @ + returning[x]]
    /\ rowLock' = [rowLock EXCEPT ![target[x]] = None]
    /\ xpc' = [xpc EXCEPT ![x] = "done"]
    /\ UNCHANGED <<today, shiftOpen, counter, holder, callVars, target,
                   returning>>

\* Mutated form: the row stays locked.
AbortCancelKeepsLock(x) ==
    /\ xpc[x] \in {"approved", "updated", "reversed"}
    /\ xpc' = [xpc EXCEPT ![x] = "done"]
    /\ UNCHANGED <<today, shiftOpen, ledgerVars, callVars, target, returning,
                   rowLock>>

AbortCancel(x) ==
    /\ xpc[x] \in {"approved", "updated", "reversed"}
    /\ rowLock' = [c \in Calls |-> IF rowLock[c] = x THEN None ELSE rowLock[c]]
    /\ xpc' = [xpc EXCEPT ![x] = "done"]
    /\ UNCHANGED <<today, shiftOpen, ledgerVars, callVars, target, returning>>

-----------------------------------------------------------------------------
\* Close or force-close: what a bill call can see of it.
CloseShift(s) ==
    /\ s \in shiftOpen
    /\ shiftOpen' = shiftOpen \ {s}
    /\ UNCHANGED <<today, ledgerVars, callVars, cancelVars>>

Midnight ==
    /\ today < LastDay
    /\ today' = today + 1
    /\ UNCHANGED <<shiftOpen, ledgerVars, callVars, cancelVars>>

\* Every call has been answered: the instance stops here, not in a deadlock.
AllAnswered ==
    /\ \A c \in Calls : pc[c] = "done"
    /\ \A x \in Cancels : xpc[x] \in {"idle", "done"}
    /\ UNCHANGED vars

\* The statements of one bill call, in program order.
Advance(c) ==
    \/ DedupOnline(c) \/ LookupSync(c) \/ Validate(c) \/ RejectShift(c)
    \/ EnsureCounter(c) \/ LockCounter(c)
    \/ InsertBill(c) \/ UniqueViolation(c) \/ Commit(c)

AdvanceCancel(x) == UpdateRow(x) \/ ReverseStock(x) \/ CommitCancel(x)

Next ==
    \/ \E c \in Calls, r \in Requests : Submit(c, r)
    \/ \E c \in Calls : Advance(c) \/ Refuse(c) \/ Abort(c)
    \/ \E x \in Cancels, b \in Calls : CheckCancel(x, b)
    \/ \E x \in Cancels : AdvanceCancel(x) \/ AbortCancel(x)
    \/ \E s \in Shifts : CloseShift(s)
    \/ Midnight
    \/ AllAnswered

Spec == Init /\ [][Next]_vars

\* The event loop runs every continuation and PostgreSQL every statement whose
\* lock is free.  Nothing forces a device to call or a transaction to fail.
Fairness ==
    /\ \A c \in Calls : WF_vars(Advance(c))
    /\ \A x \in Cancels : WF_vars(AdvanceCancel(x))

FairSpec == Spec /\ Fairness

-----------------------------------------------------------------------------
TypeOK ==
    /\ today \in Days
    /\ shiftOpen \subseteq Shifts
    /\ counter \in [Keys -> Nat \cup {NoRow}]
    /\ holder \in [Keys -> Calls \cup {None}]
    /\ bills \in [Calls -> BillRows \cup {None}]
    /\ moves \in [Calls -> [out : Nat, back : Nat]]
    /\ pc \in [Calls -> {"idle", "received", "validate", "counter", "lock",
                         "insert", "commit", "done"}]
    /\ req \in [Calls -> Requests \cup {None}]
    /\ seq \in [Calls -> Nat]
    /\ reply \in [Calls -> Answers]
    /\ xpc \in [Cancels -> {"idle", "approved", "updated", "reversed", "done"}]
    /\ target \in [Cancels -> Calls \cup {None}]
    /\ returning \in [Cancels -> Nat]
    /\ rowLock \in [Calls -> Cancels \cup {None}]

\* The issued numbers of a (branch, day) are exactly 1..lastNo and no two bills
\* share one: bill-number.service.ts promises "no duplicates, no skips" across
\* rolled-back transactions, cancels and concurrent allocations.
Gapless ==
    \A k \in Keys :
        /\ {bills[b].seq : b \in {i \in Issued : bills[i].key = k}}
              = IF counter[k] = NoRow THEN {} ELSE 1..counter[k]
        /\ \A b1, b2 \in Issued :
              /\ bills[b1].key = k /\ bills[b2].key = k
              /\ bills[b1].seq = bills[b2].seq
              => b1 = b2

\* A (deviceId, clientUuid) is at most one bill, however many online creates,
\* syncs and resubmissions of it race (the dedup read is not locked).
OneBillPerSale ==
    \A b1, b2 \in Issued :
        bills[b1].sale = bills[b2].sale /\ bills[b1].sale # NoSale => b1 = b2

\* A caller told "committed" holds the number of the bill that carries its
\* sale, so two answers for one sale can never disagree and a printed number
\* can never be rolled back.
AnswerIsTheBill ==
    \A c \in Calls : reply[c].status = "committed" =>
        \E b \in Issued :
            /\ NumberOf(bills[b]) = reply[c].number
            /\ IF req[c].sale = NoSale THEN b = c
                                       ELSE bills[b].sale = req[c].sale

\* A resubmission is rejected for its content only against a synced bill that
\* really holds other content: sync.service.ts "never rejects a sale that was
\* already committed".
MismatchIsReal ==
    \A c \in Calls : reply[c].status = "mismatch" =>
        \E b \in SameSale(req[c].sale) :
            req[b].path = "sync" /\ Content(req[b]) # Content(req[c])

\* Whatever a caller is told about its sale is true.
AnswersAreTrue == AnswerIsTheBill /\ MismatchIsReal

\* Stock leaves once with a committed bill and comes back exactly once iff the
\* bill is cancelled, also when two cancels of one bill race or one rolls back.
StockFollowsBill ==
    \A b \in Calls :
        moves[b] = [out  |-> IF b \in Issued THEN 1 ELSE 0,
                    back |-> IF b \in Issued /\ bills[b].status = "CANCELLED"
                             THEN 1 ELSE 0]

\* A number, once issued, stays on its bill; a bill changes only from COMPLETED
\* to CANCELLED and never disappears, so the range keeps no hole.
LedgerOnlyGrows ==
    [][\A b \in Issued :
          /\ b \in Issued'
          /\ [bills'[b] EXCEPT !.status = "-"] = [bills[b] EXCEPT !.status = "-"]
          /\ bills[b].status = "CANCELLED" => bills'[b].status = "CANCELLED"
      ]_vars

\* The refinement mapping: page n of a book is the bill numbered n.
LastNo(k) == IF counter[k] = NoRow THEN 0 ELSE counter[k]
PageOf(k, n) ==
    LET numbered == {b \in Issued : bills[b].key = k /\ bills[b].seq = n}
    IN  IF numbered = {} THEN None ELSE CHOOSE b \in numbered : TRUE
Pages == [k \in Keys |-> [n \in 1..LastNo(k) |-> PageOf(k, n)]]
Voided == {b \in Issued : bills[b].status = "CANCELLED"}

Book == INSTANCE ReceiptBook WITH
            Books <- Keys, Receipts <- Calls, pages <- Pages, voided <- Voided

\* The concurrent, crashing, resubmitted ledger implements the receipt book.
ImplementsBook == Book!Spec

\* Every received bill call and every approved cancel is answered: no two
\* transactions of the hot path can wait for each other (lock order counter ->
\* bill unique keys).
EveryCallAnswered ==
    /\ \A c \in Calls : pc[c] = "received" ~> pc[c] = "done"
    /\ \A x \in Cancels : xpc[x] = "approved" ~> xpc[x] = "done"
=============================================================================
