------------------------------ MODULE Pricing ------------------------------
(***************************************************************************)
(* What a ticket costs: the time windows, the price-book versions with     *)
(* their cells, the holiday calendars, the resolver that server and till   *)
(* share, the till's cached snapshot with the sales it prices offline, and *)
(* the vouchers.                                                           *)
(*                                                                         *)
(* Sales and redemptions read through the base client inside an open       *)
(* transaction, so they also need a second connection of the pool.  raced  *)
(* remembers the topics on which two calls were in flight together, and    *)
(* the cell edits that were in flight at midnight.                         *)
(*                                                                         *)
(* The specification's names begin with Price, so that a module can extend *)
(* this one together with another component's.                             *)
(***************************************************************************)
EXTENDS Integers, FiniteSets, FiniteSetsExt

CONSTANTS
    MaxCalls,       \* bound: the calls of a behaviour, numbered as they arrive
    Desks,          \* bound: each says how many calls of which operations may come
    MaxDay,         \* bound: the last day
    MaxMinute,      \* a day's minutes are 0 .. MaxMinute - 1: 1440 in the code
    Weekends,       \* the days that are a Saturday or a Sunday
    Vnd,            \* the prices a cell may get, 0 among them
    Quota,          \* quotaTotal of the voucher's program
    PoolSize,       \* database connections
    Branch,         \* the branch that sells
    None

ASSUME PriceBounds ==
    /\ {MaxCalls, Quota, PoolSize} \subseteq Nat
    /\ {MaxDay, MaxMinute} \subseteq Nat \ {0}
    /\ Vnd \subseteq Nat
    /\ \E least, most \in Vnd : \A v \in Vnd : least <= v /\ v <= most

Calls  == 1 .. MaxCalls
Days   == 1 .. MaxDay
Minute == 0 .. MaxMinute - 1
Ids    == 0 .. MaxCalls         \* a row is named by its createCall, 0 was there
Scope  == {Branch, None}        \* branchId: None is the whole chain
DayType == {"REGULAR", "WEEKEND", "HOLIDAY"}
Intervals == {w \in [from : Minute, to : 1 .. MaxMinute] : w.from < w.to}
CellRows == [window : Ids, type : DayType, branch : Scope, vnd : Vnd]
VersionRows == [day : Days, branch : Scope, cells : SUBSET CellRows]

\* null is no row, and no price is not the price 0.
ASSUME NoneIsNoRow == None \notin Calls \cup Intervals \cup VersionRows \cup Vnd

VARIABLES
    windows,    \* windows[w] : [from, to), or None
    versions,   \* versions[v] : [day, branch, cells], or None
    holidays,   \* holidays[s] : the entries of that scope's calendar
    today,
    till,       \* the till's catalog, the price it shows, its unsynced sale, the answered ones
    bills,      \* the sales priced online
    voucher,    \* the discount_program row with its row lock
    desk,       \* the calls still to come, by operation
    at, req, seen,      \* the calls that came
    raced,      \* history
    published   \* history: writes to windows and versions so far

book == <<windows, versions, holidays>>
call == <<desk, at, req, seen>>
priceVars == <<book, today, till, bills, voucher, call, raced, published>>

-----------------------------------------------------------------------------
(* price-resolver.ts, over the windows W and versions V of a snapshot      *)

Rows(f) == {i \in DOMAIN f : f[i] # None}

Covers(w, m) == w.from <= m /\ m < w.to
Overlap(v, w) == v.from < w.to /\ w.from < v.to

\* The snapshot lists the windows by start: the first that covers m is taken.
WindowAt(W, m) ==
    LET hit == {i \in Rows(W) : Covers(W[i], m)} IN
    IF hit = {} THEN None
    ELSE CHOOSE i \in hit : \A j \in hit : W[i].from <= W[j].from

Newest(V, S) ==
    CHOOSE v \in S : \A u \in S \ {v} :
        V[u].day < V[v].day \/ (V[u].day = V[v].day /\ u < v)

VersionFor(V, day) ==
    LET begun(s) == {v \in Rows(V) : V[v].day <= day /\ V[v].branch = s} IN
    CASE begun(Branch) # {} -> Newest(V, begun(Branch))
      [] begun(Branch) = {} /\ begun(None) # {} -> Newest(V, begun(None))
      [] OTHER -> None

DayTypeOf(day, holiday) ==
    CASE holiday -> "HOLIDAY"
      [] ~holiday /\ day \in Weekends -> "WEEKEND"
      [] OTHER -> "REGULAR"

CellFor(cells, w, type) ==
    LET of(s) == {x \in cells : x.window = w /\ x.type = type /\ x.branch = s} IN
    CASE of(Branch) # {} -> (CHOOSE x \in of(Branch) : TRUE).vnd
      [] of(Branch) = {} /\ of(None) # {} -> (CHOOSE x \in of(None) : TRUE).vnd
      [] OTHER -> None

Resolve(W, V, holiday, day, m) ==
    LET w == WindowAt(W, m)
        v == VersionFor(V, day)
    IN  IF w = None \/ v = None THEN None
        ELSE CellFor(V[v].cells, w, DayTypeOf(day, holiday))

IsHoliday(day) == day \in holidays[Branch] \/ day \in holidays[None]
PriceAt(day, m) == Resolve(windows, versions, IsHoliday(day), day, m)

-----------------------------------------------------------------------------
Requests(op) ==
    CASE op = "createWindow" -> [op : {op}, window : Intervals]
      [] op = "updateWindow" -> [op : {op}, id : Rows(windows), window : Intervals]
      [] op = "createVersion" ->
            [op : {op}, day : Days, branch : Scope, clone : Rows(versions) \cup {None}]
      [] op = "upsertCell" ->
            [op : {op}, version : Rows(versions), window : Rows(windows),
             type : DayType, branch : Scope, vnd : Vnd]
      [] op = "setHolidays" -> [op : {op}, branch : Scope, days : SUBSET Days]
      [] op = "sell" -> [op : {op}, minute : Minute]
      [] OTHER -> [op : {op}]

\* The requests of one of ops that may arrive as call c.
Arriving(c, ops) ==
    IF at[c] = "idle" /\ \A d \in 1 .. c - 1 : at[d] # "idle"
      THEN UNION {Requests(op) : op \in {o \in ops \cap DOMAIN desk : desk[o] > 0}}
      ELSE {}

Topic(op) ==
    CASE op \in {"createWindow", "updateWindow"} -> "windows"
      [] op \in {"createVersion", "upsertCell"} -> "versions"
      [] op = "setHolidays" -> "holidays"
      [] OTHER -> op

\* The parts of the book a sale reads; two calls meet on what one of them writes.
Touches(op) == IF op \in {"sell", "sync"} THEN {"windows", "versions", "holidays"} ELSE {Topic(op)}

InFlight == {c \in Calls : at[c] \notin {"idle", "done"}}

Row(first) == [i \in Ids |-> IF i = 0 THEN first ELSE None]

FirstCell(type, vnd) == [window |-> 0, type |-> type, branch |-> None, vnd |-> vnd]
FirstVersion ==
    [day |-> 1, branch |-> None,
     cells |-> {FirstCell("REGULAR", Max(Vnd)), FirstCell("WEEKEND", Max(Vnd)),
                FirstCell("HOLIDAY", Min(Vnd))}]

Snapshot == [windows |-> windows, versions |-> versions, stamp |-> published]

PriceInit ==
    /\ windows = Row([from |-> 0, to |-> 1])
    /\ versions = Row(FirstVersion)
    /\ holidays = [s \in Scope |-> {}]
    /\ today = 1
    /\ raced = {} /\ published = 0
    /\ till = [cache |-> Snapshot, shown |-> None, sale |-> None, synced |-> {}]
    /\ bills = {}
    /\ voucher = [left |-> Quota, used |-> 0, active |-> TRUE, lock |-> None]
    /\ desk \in Desks
    /\ at = [c \in Calls |-> "idle"]
    /\ req = [c \in Calls |-> None]
    /\ seen = [c \in Calls |-> None]

Goto(c, where, v) ==
    /\ at' = [at EXCEPT ![c] = where]
    /\ seen' = [seen EXCEPT ![c] = v]
    /\ UNCHANGED <<desk, req>>

\* Call c answers and is forgotten.
Done(c) ==
    /\ at' = [at EXCEPT ![c] = "done"]
    /\ req' = [req EXCEPT ![c] = None]
    /\ seen' = [seen EXCEPT ![c] = None]
    /\ UNCHANGED desk

Arrive(c, r, where, v) ==
    /\ at' = [at EXCEPT ![c] = where]
    /\ req' = [req EXCEPT ![c] = r]
    /\ seen' = [seen EXCEPT ![c] = v]
    /\ raced' = raced \cup UNION {Touches(r.op) \cap Touches(req[d].op) : d \in InFlight}
    /\ desk' = [desk EXCEPT ![r.op] = @ - 1]

Refuse(c, r) ==
    /\ at' = [at EXCEPT ![c] = "done"]
    /\ desk' = [desk EXCEPT ![r.op] = @ - 1]
    /\ UNCHANGED <<req, seen, raced>>

\* An edit answers once its transaction commits.
Published(c) ==
    /\ published' = published + 1
    /\ Done(c)
    /\ UNCHANGED <<holidays, today, till, bills, voucher, raced>>

-----------------------------------------------------------------------------
(* Time windows: the overlap is checked inside the transaction, unlocked.  *)

\* Mutant: only a window that starts inside another is refused.
NoOverlapStart(new, id) ==
    \A w \in Rows(windows) \ {id} : ~Covers(windows[w], new.from)

NoOverlap(new, id) == \A w \in Rows(windows) \ {id} : ~Overlap(new, windows[w])

CheckWindow(c) ==
    /\ \E r \in Arriving(c, {"createWindow", "updateWindow"}) :
          /\ LET id == IF r.op = "updateWindow" THEN r.id ELSE c
             IN  IF NoOverlap(r.window, id) THEN Arrive(c, r, "window", id)
                                            ELSE Refuse(c, r)
    /\ UNCHANGED <<book, today, till, bills, voucher, published>>

WriteWindow(c) ==
    /\ at[c] = "window"
    /\ windows' = [windows EXCEPT ![seen[c]] = req[c].window]
    /\ Published(c)
    /\ UNCHANGED versions

-----------------------------------------------------------------------------
(* Price-book versions and their cells                                     *)

\* The rows a clone copies are read after the version's row is inserted.
CreateVersion(c) ==
    /\ \E r \in Arriving(c, {"createVersion"}) :
          /\ Arrive(c, r, "version", IF r.clone = None THEN {} ELSE versions[r.clone].cells)
    /\ UNCHANGED <<book, today, till, bills, voucher, published>>

WriteVersion(c) ==
    /\ at[c] = "version"
    /\ versions' = [versions EXCEPT ![c] =
          [day |-> req[c].day, branch |-> req[c].branch, cells |-> seen[c]]]
    /\ Published(c)
    /\ UNCHANGED windows

\* Mutant: the version that starts today may still be edited.
EditableToday(v) == versions[v].day >= today

Editable(v) == versions[v].day > today

CheckCell(c) ==
    /\ \E r \in Arriving(c, {"upsertCell"}) :
          /\ IF Editable(r.version) THEN Arrive(c, r, "cell", None) ELSE Refuse(c, r)
    /\ UNCHANGED <<book, today, till, bills, voucher, published>>

SameKey(x, r) == x.window = r.window /\ x.type = r.type /\ x.branch = r.branch
CellsLike(r) == {x \in versions[r.version].cells : SameKey(x, r)}

FindCell(c) ==
    /\ at[c] = "cell"
    /\ Goto(c, IF CellsLike(req[c]) = {} THEN "insert" ELSE "update", None)
    /\ UNCHANGED <<book, today, till, bills, voucher, raced, published>>

PutCell(r, kept) ==
    versions' = [versions EXCEPT ![r.version].cells = kept \cup
        {[window |-> r.window, type |-> r.type, branch |-> r.branch, vnd |-> r.vnd]}]

\* Mutant: the new row is added beside the old one.
UpdateCellAdding(c) ==
    /\ at[c] = "update"
    /\ PutCell(req[c], versions[req[c].version].cells)
    /\ Published(c)
    /\ UNCHANGED windows

UpdateCell(c) ==
    /\ at[c] = "update"
    /\ PutCell(req[c], versions[req[c].version].cells \ CellsLike(req[c]))
    /\ Published(c)
    /\ UNCHANGED windows

\* One of the two partial unique indexes rejects a second row of the same key.
InsertCell(c) ==
    /\ at[c] = "insert" /\ CellsLike(req[c]) = {}
    /\ PutCell(req[c], versions[req[c].version].cells)
    /\ Published(c)
    /\ UNCHANGED windows

InsertRejected(c) ==
    /\ at[c] = "insert" /\ CellsLike(req[c]) # {}
    /\ Done(c)
    /\ UNCHANGED <<book, today, till, bills, voucher, raced, published>>

-----------------------------------------------------------------------------
(* master-data: a calendar's entries are deleted and inserted again        *)

DeleteEntries(c) ==
    /\ \E r \in Arriving(c, {"setHolidays"}) :
          /\ Arrive(c, r, "entries", holidays[r.branch])
    /\ UNCHANGED <<book, today, till, bills, voucher, published>>

\* Entries committed since the delete stay; a date already there is rejected.
InsertEntries(c) ==
    LET r == req[c]
        kept == holidays[r.branch] \ seen[c]
    IN  /\ at[c] = "entries"
        /\ holidays' = [holidays EXCEPT ![r.branch] =
              IF kept \cap r.days = {} THEN kept \cup r.days ELSE @]
        /\ Done(c)
        /\ UNCHANGED <<windows, versions, today, till, bills, voucher, raced, published>>

-----------------------------------------------------------------------------
(* The pool: a transaction holds a connection, a read beside it needs one  *)

Holding == {c \in InFlight : req[c].op \in {"sell", "sync", "redeem"} /\ at[c] # "begin"}
FreeConnection == Cardinality(Holding) < PoolSize

Ask(c, op) ==
    /\ \E r \in Arriving(c, {op}) : Arrive(c, r, "begin", None)
    /\ UNCHANGED <<book, today, till, bills, voucher, published>>

(* bills.service createBill and sync.service with pricing.buildResolver,   *)
(* and the till's GET of a snapshot: buildSnapshot sends both queries.     *)

Reading(day, minute, asked) ==
    [day |-> day, minute |-> minute, asked |-> asked, windows |-> None, versions |-> None]

\* asked: what the book says when the bill is dated; for a snapshot, its stamp.
BeginSale(c) ==
    /\ at[c] = "begin" /\ FreeConnection
    /\ \/ req[c].op = "sell" /\ Goto(c, "reads",
             Reading(today, req[c].minute, PriceAt(today, req[c].minute)))
       \/ req[c].op = "sync" /\ Goto(c, "reads",
             Reading(till.sale.day, till.sale.minute, None))
    /\ UNCHANGED <<book, today, till, bills, voucher, raced, published>>

RefreshCatalog(c) ==
    /\ \E r \in Arriving(c, {"refresh"}) : Arrive(c, r, "reads", Reading(None, None, published))
    /\ UNCHANGED <<book, today, till, bills, voucher, published>>

ReadBook(c) ==
    /\ at[c] = "reads" /\ FreeConnection
    /\ \/ /\ seen[c].windows = None
          /\ Goto(c, "reads", [seen[c] EXCEPT !.windows = windows])
       \/ /\ seen[c].versions = None
          /\ Goto(c, "reads", [seen[c] EXCEPT !.versions = versions])
    /\ UNCHANGED <<book, today, till, bills, voucher, raced, published>>

HasBook(c) == at[c] = "reads" /\ seen[c].windows # None /\ seen[c].versions # None

PutCatalog(c) ==
    /\ HasBook(c) /\ req[c].op = "refresh"
    /\ till' = [till EXCEPT !.cache = [windows |-> seen[c].windows,
          versions |-> seen[c].versions, stamp |-> seen[c].asked]]
    /\ Done(c)
    /\ UNCHANGED <<book, today, bills, voucher, raced, published>>

\* Mutant: the bill is priced for the day on which the reads end.
PriceToday(c) ==
    Resolve(seen[c].windows, seen[c].versions, IsHoliday(today), today, seen[c].minute)

\* The holiday is looked up last, then the lines are priced and the bill commits.
PriceNow(c) ==
    Resolve(seen[c].windows, seen[c].versions, IsHoliday(seen[c].day),
            seen[c].day, seen[c].minute)

CommitSale(c) ==
    /\ HasBook(c) /\ req[c].op = "sell" /\ FreeConnection
    /\ bills' = IF PriceNow(c) = None THEN bills        \* rejectOnNoPrice
                  ELSE bills \cup {[vnd |-> PriceNow(c), asked |-> seen[c].asked]}
    /\ Done(c)
    /\ UNCHANGED <<book, today, till, voucher, raced, published>>

Paid(vnd) == IF vnd = None THEN 0 ELSE vnd

\* The sale is answered; due is what the server's book says of it.
Answered(answer, due) ==
    till' = [till EXCEPT !.sale = None, !.synced = @ \cup
        {[answer |-> answer, due |-> due, late |-> till.sale.late,
          holiday |-> IsHoliday(till.sale.day), moved |-> published # till.sale.stamp]}]

CommitSync(c) ==
    /\ HasBook(c) /\ req[c].op = "sync" /\ FreeConnection
    /\ Answered(IF Paid(PriceNow(c)) = till.sale.paid THEN "committed" ELSE "quarantined",
                PriceNow(c))
    /\ Done(c)
    /\ UNCHANGED <<book, today, bills, voucher, raced, published>>

\* What a call waits for does not come: Prisma gives up and rolls back.
Waits(c) ==
    \/ at[c] \in {"begin", "reads", "reread"} /\ ~FreeConnection
    \/ at[c] = "row" /\ voucher.lock # None

\* Mutant: a read waits for its connection for ever.
TimeOutForRow(c) ==
    /\ Waits(c) /\ at[c] = "row"
    /\ Done(c)
    /\ UNCHANGED <<book, today, till, bills, voucher, raced, published>>

TimeOut(c) ==
    /\ Waits(c)
    /\ voucher' = IF voucher.lock = c THEN [voucher EXCEPT !.lock = None] ELSE voucher
    /\ Done(c)
    /\ UNCHANGED <<book, today, till, bills, raced, published>>

-----------------------------------------------------------------------------
(* The till: catalog-cache, offline-pricing, sell-page                     *)

\* Mutant: one price is kept for the whole day.
OfflineAllDay(day, minute) ==
    Paid(Resolve(till.cache.windows, till.cache.versions, FALSE, day, 0))

Offline(day, minute) ==
    Paid(Resolve(till.cache.windows, till.cache.versions, FALSE, day, minute))

\* The screen prices its tickets when the query runs, for as long as it stays fresh.
ShowPrices ==
    /\ "sync" \in DOMAIN desk /\ till.sale = None
    /\ \E m \in Minute :
          till' = [till EXCEPT !.shown =
              [day |-> today, minute |-> m, vnd |-> Offline(today, m),
               stamp |-> till.cache.stamp]]
    /\ UNCHANGED <<book, today, bills, voucher, call, raced, published>>

\* A sale is dated when it is paid and keeps the price the screen showed.
SellOffline ==
    /\ till.shown # None /\ till.sale = None
    /\ \E m \in Minute :
          till' = [till EXCEPT !.shown = None, !.sale =
              [day |-> today, minute |-> m, paid |-> till.shown.vnd,
               stamp |-> till.shown.stamp,
               late |-> till.shown.day # today \/ till.shown.minute # m]]
    /\ UNCHANGED <<book, today, bills, voucher, call, raced, published>>

\* The outbox uploads one batch at a time.
MayUpload == till.sale # None /\ \A d \in InFlight : req[d].op # "sync"

AskSync(c) ==
    /\ MayUpload /\ till.sale.paid > 0
    /\ Ask(c, "sync")

\* A payment of 0 is no payment: refused before any transaction, and again at
\* every later upload of the row.
RejectSync(c) ==
    /\ MayUpload /\ till.sale.paid = 0
    /\ \E r \in Arriving(c, {"sync"}) : Refuse(c, r)
    /\ Answered("rejected", PriceAt(till.sale.day, till.sale.minute))
    /\ UNCHANGED <<book, today, bills, voucher, published>>

-----------------------------------------------------------------------------
(* discounts.service: vouchers                                             *)

BeginRedeem(c) ==
    /\ at[c] = "begin" /\ req[c].op = "redeem" /\ FreeConnection
    /\ Goto(c, "row", None)
    /\ UNCHANGED <<book, today, till, bills, voucher, raced, published>>

\* Mutant: the row is read without FOR UPDATE.
ReadVoucher(c) ==
    /\ at[c] = "row"
    /\ IF voucher.active /\ voucher.left > 0
         THEN Goto(c, "reread", None)
         ELSE Done(c)
    /\ UNCHANGED <<book, today, till, bills, voucher, raced, published>>

\* SELECT ... FOR UPDATE, then the checks; a refusal rolls back.
LockVoucher(c) ==
    /\ at[c] = "row" /\ voucher.lock = None
    /\ IF voucher.active /\ voucher.left > 0
         THEN /\ voucher' = [voucher EXCEPT !.lock = c]
              /\ Goto(c, "reread", None)
         ELSE Done(c) /\ UNCHANGED voucher
    /\ UNCHANGED <<book, today, till, bills, raced, published>>

\* The answer is read through the base client; then the decrement commits.
CommitRedeem(c) ==
    /\ at[c] = "reread" /\ FreeConnection
    /\ voucher' = [voucher EXCEPT !.left = @ - 1, !.used = @ + 1, !.lock = None]
    /\ Done(c)
    /\ UNCHANGED <<book, today, till, bills, raced, published>>

\* deactivateProgram: its UPDATE waits for the row.
Deactivate(c) ==
    /\ voucher.lock = None
    /\ \E r \in Arriving(c, {"deactivate"}) : Arrive(c, r, "done", None)
    /\ voucher' = [voucher EXCEPT !.active = FALSE]
    /\ UNCHANGED <<book, today, till, bills, published>>

-----------------------------------------------------------------------------
Midnight ==
    /\ today < MaxDay
    /\ today' = today + 1
    /\ raced' = raced \cup
          {"midnight" : c \in {d \in InFlight : at[d] \in {"cell", "insert", "update"}}}
    /\ UNCHANGED <<book, till, bills, voucher, call, published>>

Start(c) ==
    \/ CheckWindow(c) \/ CreateVersion(c) \/ CheckCell(c) \/ DeleteEntries(c)
    \/ Ask(c, "sell") \/ AskSync(c) \/ RejectSync(c) \/ Ask(c, "redeem")
    \/ Deactivate(c) \/ RefreshCatalog(c)

Step(c) ==
    \/ WriteWindow(c) \/ WriteVersion(c)
    \/ FindCell(c) \/ UpdateCell(c) \/ InsertCell(c) \/ InsertRejected(c)
    \/ InsertEntries(c)
    \/ BeginSale(c) \/ ReadBook(c) \/ PutCatalog(c) \/ CommitSale(c) \/ CommitSync(c)
    \/ BeginRedeem(c) \/ LockVoucher(c) \/ CommitRedeem(c)
    \/ TimeOut(c)

PriceNext ==
    \/ \E c \in Calls : Start(c) \/ Step(c)
    \/ ShowPrices \/ SellOffline \/ Midnight

PriceSpec == PriceInit /\ [][PriceNext]_priceVars

\* While some call can go on, or be timed out, one does.
FairPriceSpec == PriceSpec /\ WF_priceVars(\E c \in Calls : Step(c))

-----------------------------------------------------------------------------
(* Properties                                                              *)

\* The rows are rows, and no version has two cells of one key.
PriceTypeOK ==
    /\ \A w \in Rows(windows) : windows[w] \in Intervals
    /\ \A v \in Rows(versions) : versions[v] \in VersionRows
    /\ \A v \in Rows(versions) : \A x, y \in versions[v].cells : SameKey(x, y) => x = y
    /\ holidays \in [Scope -> SUBSET Days]
    /\ voucher.left \in Int /\ voucher.lock \in Calls \cup {None}

\* A minute belongs to one window, unless two edits of windows overlapped.
WindowsDisjoint ==
    \/ "windows" \in raced
    \/ \A v, w \in Rows(windows) : v # w => ~Overlap(windows[v], windows[w])

\* The version in force on a day, or an exact clone of it.
ClonesInForce(v, day) ==
    LET u == VersionFor(versions, day) IN u # None /\ versions'[v].cells = versions[u].cells

\* What a ticket cost on a day that has begun stands, whatever is done to the
\* versions: no edit of a cell changes it, nor does a clone of the version in
\* force; only a version back-dated with other cells, or an edit caught by midnight.
PastStands ==
    [][ versions' # versions => \A day \in 1 .. today, m \in Minute :
          PriceAt(day, m)' # PriceAt(day, m) =>
              \/ "midnight" \in raced
              \/ \E v \in Rows(versions') \ Rows(versions) :
                    versions'[v].day <= day /\ ~ClonesInForce(v, day) ]_priceVars

\* An online bill bears the price the book gave when the bill was dated, however
\* long its reads took, unless an edit was in flight with it.
BillBearsItsPrice ==
    \A b \in bills :
        b.vnd # b.asked => raced \cap {"windows", "versions", "holidays"} # {}

\* A sale priced offline by the cached book is committed at that price, or the
\* book was published again since, the day is a holiday, or the sale was paid at
\* another time than it was priced: till and server agree otherwise, on a cached
\* version that starts after the cache was filled, too.  A sale is also refused, for
\* its payment of 0, when the server has no price for it or the price 0 (against
\* sync.service.ts:169, "never rejects a printed sale on a missing price").
OfflineHasCause ==
    \A s \in till.synced :
        s.answer # "committed" =>
            \/ s.moved \/ s.holiday \/ s.late
            \/ s.answer = "rejected" /\ Paid(s.due) = 0

\* A ticket has one price, the same on server and till, however and whenever the
\* book is read.
PricesAgree == WindowsDisjoint /\ BillBearsItsPrice /\ OfflineHasCause

\* Uses and remaining uses add up to the quota and never exceed it, whoever
\* redeems together and whichever redemptions are rolled back.
QuotaAddsUp == voucher.left + voucher.used = Quota /\ voucher.used <= Quota

\* Calls that hold a connection while they wait for another, or for the row of
\* one that does, all end.
EveryCallEnds == []<>(InFlight = {})
=============================================================================
