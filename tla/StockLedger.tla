---------------------------- MODULE StockLedger ----------------------------
(***************************************************************************)
(* The ingredient stock of the branches: balances kept from an append-only *)
(* table of movements by every transaction that moves goods.               *)
(*                                                                         *)
(*   sale      consumeForBill, in the bill's transaction                   *)
(*   cancel    reverseForBill, in the cancel's transaction                 *)
(*   issue     manual wastage         adjust    stock-take                 *)
(*   receive   goods receipt of a purchase order, in the order of its lines*)
(*   transfer  source and destination, ingredient by ingredient            *)
(*                                                                         *)
(* A transaction is a sequence of legs.  Each leg locks one balance row    *)
(* (INSERT ... ON CONFLICT DO NOTHING, then SELECT ... FOR UPDATE), holds  *)
(* it until the transaction ends, and writes a movement and the new        *)
(* balance, which the others see when it commits.  PostgreSQL breaks a     *)
(* circle of waiting transactions by failing one of them.                  *)
(***************************************************************************)
EXTENDS Integers, Sequences, FiniteSets, FiniteSetsExt, SequencesExt

CONSTANTS
    Calls,
    Branches,
    IdOrder,        \* the ingredients, in the order of their ids
    Kinds,          \* the handlers this instance exercises
    Recipes,        \* [Ingredients -> quantity per bill]: what a bill can take
    Counts,         \* quantities a stock-take counts
    Lots,           \* [qty, cost] of received goods, cost per base unit
    None

Ingredients == ToSet(IdOrder)
Cells == Branches \X Ingredients        \* primary key of inventory_balance

ASSUME IdOrderType == IdOrder \in Seq(Ingredients) /\ IsInjective(IdOrder)
ASSUME NoneIsNoCall == None \notin Calls
ASSUME KindsType ==
    Kinds \subseteq {"sale", "cancel", "issue", "adjust", "receive", "transfer"}
ASSUME QuantitiesType ==
    /\ Recipes \subseteq [Ingredients -> Nat]
    /\ Counts \subseteq Nat
    /\ Lots \subseteq [qty : Nat \ {0}, cost : Nat]

VARIABLES
    balance,    \* committed rows: [qty, avg]; an absent row reads as zero
    movements,  \* committed movement rows
    recipe,     \* the recipe in force
    cancelled,  \* bills (sale calls) that a cancel committed
    lock,       \* holders of the balance rows
    billLock,   \* holders of the bill rows
    pc, op,     \* the calls and what they were asked
    legs,       \* legs a transaction has not done yet
    view,       \* balances as the transaction sees them: the rows it locked
    written     \* movement rows it has not committed yet

stock == <<balance, movements, cancelled>>
vars  == <<stock, recipe, lock, billLock, pc, op, legs, view, written>>

-----------------------------------------------------------------------------
\* A goods receipt may name an ingredient on two lines, in any order.
Requests ==
    [kind : {"sale"}, branch : Branches]
      \cup [kind : {"cancel"}, bill : Calls]
      \cup [kind : {"issue"}, cell : Cells]
      \cup [kind : {"adjust"}, cell : Cells, counted : Counts]
      \cup [kind : {"receive"}, branch : Branches, lot : Lots,
            lines : BoundedSeq(Ingredients, Len(IdOrder)) \ {<< >>}]
      \cup [kind : {"transfer"}, from : Branches, to : Branches]

Leg(kind, cell, qty, cost) ==
    [kind |-> kind, cell |-> cell, qty |-> qty, cost |-> cost]

Comes(i, j, order) ==
    \E m, n \in DOMAIN order : m < n /\ order[m] = i /\ order[n] = j

\* The members of ids, as the order has them.
Sorted(ids, order) ==
    CHOOSE s \in SetToSeqs(ids) :
        \A m, n \in DOMAIN s : m < n => Comes(s[m], s[n], order)

\* consumeForBill: Map keys sorted, ingredients of no quantity skipped.
SaleLegs(branch) ==
    LET used == Sorted({i \in Ingredients : recipe[i] > 0}, IdOrder)
    IN  [n \in DOMAIN used |->
            Leg("sale", <<branch, used[n]>>, -recipe[used[n]], 0)]

\* reverseForBill: nothing when a BILL_REVERSAL row exists, else the recorded
\* movements of the bill, sorted by ingredient.
Of(kind, bill) == {m \in movements : m.kind = kind /\ m.bill = bill}

ReturnLegs(bill, order) ==
    LET back == Sorted({m.cell[2] : m \in Of("sale", bill)}, order)
        row(i) == CHOOSE m \in Of("sale", bill) : m.cell[2] = i
    IN  IF Of("return", bill) # {} THEN << >>
        ELSE [n \in DOMAIN back |->
                Leg("return", row(back[n]).cell, -row(back[n]).qty, 0)]

\* Mutated forms: against the order of the ids; taken back by today's recipe.
UnorderedLegs(bill) == ReturnLegs(bill, Reverse(IdOrder))
RecipeLegs(bill) ==
    IF Of("return", bill) # {} THEN << >>
    ELSE [n \in DOMAIN IdOrder |->
            Leg("return", <<op[bill].branch, IdOrder[n]>>, recipe[IdOrder[n]], 0)]
CancelLegs(bill) == ReturnLegs(bill, IdOrder)

\* A transfer of one unit of every ingredient: ISSUE at the source, RECEIPT at
\* the destination at the cost the source has ("carry").
TransferLegs(from, to) ==
    LET line(n) == IdOrder[(n + 1) \div 2]
    IN  [n \in 1 .. 2 * Len(IdOrder) |->
            IF n % 2 = 1 THEN Leg("issue", <<from, line(n)>>, -1, 0)
            ELSE Leg("carry", <<to, line(n)>>, 1, <<from, line(n)>>)]

ReceiptLegs(branch, lines, lot) ==
    [n \in DOMAIN lines |->
        Leg("receive", <<branch, lines[n]>>, lot.qty, lot.cost)]

LegsOf(r) ==
    CASE r.kind = "sale"     -> SaleLegs(r.branch)
      [] r.kind = "cancel"   -> CancelLegs(r.bill)
      [] r.kind = "issue"    -> <<Leg("issue", r.cell, -1, 0)>>
      [] r.kind = "adjust"   -> <<Leg("adjust", r.cell, r.counted, 0)>>
      [] r.kind = "receive"  -> ReceiptLegs(r.branch, r.lines, r.lot)
      [] r.kind = "transfer" -> TransferLegs(r.from, r.to)

Sold == {c \in Calls : pc[c] = "committed" /\ op[c].kind = "sale"}

Init ==
    /\ balance = [cell \in Cells |-> [qty |-> 0, avg |-> 0]]
    /\ movements = {}
    /\ recipe \in Recipes
    /\ cancelled = {}
    /\ lock = [cell \in Cells |-> None]
    /\ billLock = [c \in Calls |-> None]
    /\ pc = [c \in Calls |-> "idle"]
    /\ op = [c \in Calls |-> None]
    /\ legs = [c \in Calls |-> << >>]
    /\ view = [c \in Calls |-> << >>]
    /\ written = [c \in Calls |-> {}]

-----------------------------------------------------------------------------
\* The handler has checked its request and opens its transaction.  The recipe
\* of a sale is read in it; a cancel first updates (and locks) the bill's row.
Begin(c, r) ==
    /\ pc[c] = "idle"
    /\ r.kind \in Kinds
    /\ r.kind = "cancel" => r.bill \in Sold \ cancelled
    /\ r.kind = "transfer" => r.from # r.to
    /\ op' = [op EXCEPT ![c] = r]
    /\ IF r.kind = "cancel"
       THEN /\ pc' = [pc EXCEPT ![c] = "checked"]
            /\ UNCHANGED legs
       ELSE /\ pc' = [pc EXCEPT ![c] = "moving"]
            /\ legs' = [legs EXCEPT ![c] = LegsOf(r)]
    /\ UNCHANGED <<stock, recipe, lock, billLock, view, written>>

\* bill.update, then reverseForBill reads the movements under the row's lock.
LockBill(c) ==
    /\ pc[c] = "checked"
    /\ billLock[op[c].bill] = None
    /\ billLock' = [billLock EXCEPT ![op[c].bill] = c]
    /\ legs' = [legs EXCEPT ![c] = CancelLegs(op[c].bill)]
    /\ pc' = [pc EXCEPT ![c] = "moving"]
    /\ UNCHANGED <<stock, recipe, lock, op, view, written>>

\* Math.round of a / b, for b > 0.
Rounded(a, b) == (2 * a + b) \div (2 * b)

\* The moving average after a receipt; from an empty balance (or one that sales
\* drove below zero) the incoming cost stands alone.
AverageUnlessEmpty(old, qty, cost) ==       \* mutated form
    IF old.qty = 0 \/ old.qty + qty = 0 THEN cost
    ELSE Rounded(old.qty * old.avg + qty * cost, old.qty + qty)
AverageAfter(old, qty, cost) ==
    IF old.qty <= 0 THEN cost
    ELSE Rounded(old.qty * old.avg + qty * cost, old.qty + qty)

\* The balance a leg leaves; seen is the transaction's view of all rows.
AfterLeg(leg, old, seen) ==
    CASE leg.kind \in {"sale", "return", "issue"} ->
            [old EXCEPT !.qty = @ + leg.qty]
      [] leg.kind = "adjust" ->
            [old EXCEPT !.qty = leg.qty]
      [] leg.kind = "receive" ->
            [qty |-> old.qty + leg.qty, avg |-> AverageAfter(old, leg.qty, leg.cost)]
      [] leg.kind = "carry" ->
            [qty |-> old.qty + leg.qty,
             avg |-> AverageAfter(old, leg.qty, seen[leg.cost].avg)]

Refused(leg, qty) == leg.kind \in {"issue", "receive", "carry"} /\ qty < 0

Seen(c, cell) == IF cell \in DOMAIN view[c] THEN view[c][cell] ELSE balance[cell]

\* writeMovement and updateBalance for the first leg.
Write(c, leg, old, new) ==
    /\ view' = [view EXCEPT ![c] =
          [cell \in DOMAIN view[c] \cup {leg.cell} |->
              IF cell = leg.cell THEN new ELSE view[c][cell]]]
    /\ written' = [written EXCEPT ![c] = @ \cup
          {[by |-> c, nth |-> Cardinality(written[c]), kind |-> leg.kind,
            cell |-> leg.cell, qty |-> new.qty - old.qty,
            bill |-> IF leg.kind = "return" THEN op[c].bill ELSE c]}]
    /\ legs' = [legs EXCEPT ![c] = Tail(@)]

\* Mutated form: the balance row is read without waiting for its lock.
MoveUnlocked(c) ==
    /\ pc[c] = "moving" /\ legs[c] # << >>
    /\ LET leg == Head(legs[c])
           old == Seen(c, leg.cell)
           new == AfterLeg(leg, old, view[c])
       IN  ~Refused(leg, new.qty) /\ Write(c, leg, old, new)
    /\ UNCHANGED <<stock, recipe, lock, billLock, pc, op>>

\* One leg: lockBalance waits for the row, then the leg is written.
Move(c) ==
    /\ pc[c] = "moving" /\ legs[c] # << >>
    /\ LET leg == Head(legs[c])
           old == Seen(c, leg.cell)
           new == AfterLeg(leg, old, view[c])
       IN  /\ lock[leg.cell] \in {None, c}
           /\ ~Refused(leg, new.qty)
           /\ lock' = [lock EXCEPT ![leg.cell] = c]
           /\ Write(c, leg, old, new)
    /\ UNCHANGED <<stock, recipe, billLock, pc, op>>

\* End a transaction: its locks are free and its private state is gone.
EndButKeepRow(c, how) ==                    \* mutated form
    /\ pc' = [pc EXCEPT ![c] = how]
    /\ lock' = [cell \in Cells |-> IF lock[cell] = c THEN None ELSE lock[cell]]
    /\ legs' = [legs EXCEPT ![c] = << >>]
    /\ view' = [view EXCEPT ![c] = << >>]
    /\ written' = [written EXCEPT ![c] = {}]
    /\ UNCHANGED <<recipe, op, billLock>>
EndButKeepView(c, how) ==                   \* mutated form
    /\ pc' = [pc EXCEPT ![c] = how]
    /\ lock' = [cell \in Cells |-> IF lock[cell] = c THEN None ELSE lock[cell]]
    /\ billLock' = [b \in Calls |-> IF billLock[b] = c THEN None ELSE billLock[b]]
    /\ legs' = [legs EXCEPT ![c] = << >>]
    /\ written' = [written EXCEPT ![c] = {}]
    /\ UNCHANGED <<recipe, op, view>>
End(c, how) ==
    /\ pc' = [pc EXCEPT ![c] = how]
    /\ lock' = [cell \in Cells |-> IF lock[cell] = c THEN None ELSE lock[cell]]
    /\ billLock' = [b \in Calls |-> IF billLock[b] = c THEN None ELSE billLock[b]]
    /\ legs' = [legs EXCEPT ![c] = << >>]
    /\ view' = [view EXCEPT ![c] = << >>]
    /\ written' = [written EXCEPT ![c] = {}]
    /\ UNCHANGED <<recipe, op>>

Commit(c) ==
    /\ pc[c] = "moving" /\ legs[c] = << >>
    /\ balance' = [cell \in Cells |-> Seen(c, cell)]
    /\ movements' = movements \cup written[c]
    /\ cancelled' = IF op[c].kind = "cancel" THEN cancelled \cup {op[c].bill}
                                             ELSE cancelled
    /\ End(c, "committed")

\* "Not enough stock": the exception rolls the transaction back.
Refuse(c) ==
    /\ pc[c] = "moving" /\ legs[c] # << >>
    /\ LET leg == Head(legs[c])
       IN  /\ lock[leg.cell] \in {None, c}
           /\ Refused(leg, AfterLeg(leg, Seen(c, leg.cell), view[c]).qty)
    /\ End(c, "failed")
    /\ UNCHANGED stock

\* A timeout, a lost connection or a crash.
Fail(c) ==
    /\ pc[c] \in {"checked", "moving"}
    /\ End(c, "failed")
    /\ UNCHANGED stock

\* c waits for a row that d holds.
WaitsFor(c, d) ==
    /\ c # d
    /\ \/ pc[c] = "checked" /\ billLock[op[c].bill] = d
       \/ pc[c] = "moving" /\ legs[c] # << >> /\ lock[Head(legs[c]).cell] = d

\* Sets of calls each member of which waits for another.
Circles ==
    {circle \in (SUBSET Calls) \ {{}} :
        \A c \in circle : \E d \in circle : WaitsFor(c, d)}

\* PostgreSQL's deadlock detection.
BreakCircle(c) ==
    /\ \E circle \in Circles : c \in circle
    /\ End(c, "failed")
    /\ UNCHANGED stock

\* An admin edits the recipe; bills in flight have read theirs.
EditRecipe ==
    /\ \E r \in Recipes \ {recipe} : recipe' = r
    /\ UNCHANGED <<stock, lock, billLock, pc, op, legs, view, written>>

AllEnded ==
    /\ \A c \in Calls : pc[c] \in {"committed", "failed"}
    /\ UNCHANGED vars

Advance(c) == LockBill(c) \/ Move(c) \/ Refuse(c) \/ Commit(c) \/ BreakCircle(c)

Next ==
    \/ \E c \in Calls : (\E r \in Requests : Begin(c, r)) \/ Advance(c) \/ Fail(c)
    \/ EditRecipe
    \/ AllEnded

Spec == Init /\ [][Next]_vars

\* Statements run, locks are granted and deadlocks are detected.
FairSpec ==
    /\ Spec
    /\ \A c \in Calls : WF_vars(Advance(c))

-----------------------------------------------------------------------------
TypeOK ==
    /\ balance \in [Cells -> [qty : Int, avg : Nat]]
    /\ movements \subseteq
          [by : Calls, nth : Nat, cell : Cells, qty : Int, bill : Calls,
           kind : {"sale", "return", "issue", "adjust", "receive", "carry"}]
    /\ recipe \in Recipes
    /\ cancelled \subseteq Calls
    /\ lock \in [Cells -> Calls \cup {None}]
    /\ billLock \in [Calls -> Calls \cup {None}]
    /\ pc \in [Calls -> {"idle", "checked", "moving", "committed", "failed"}]
    /\ op \in [Calls -> Requests \cup {None}]
    /\ \A c \in Calls : DOMAIN view[c] = {cell \in Cells : lock[cell] = c}

Total(rows) == FoldSet(LAMBDA m, sum : m.qty + sum, 0, rows)

\* The on-hand quantity is the sum of the committed movements, row by row, for
\* all interleavings and half-done transactions (stock-transfers.service.ts:
\* "balance == sum of movements"; inventory-balance.service.ts: concurrent
\* receipts and issues "can't lose an update").
BalanceIsSumOfMovements ==
    \A cell \in Cells :
        balance[cell].qty = Total({m \in movements : m.cell = cell})

\* No average cost leaves the range of the prices paid, also when a receipt
\* lands on a balance that sales drove negative, or after a transfer.
AverageWithinPrices ==
    \A cell \in Cells : \E dearest \in {0} \cup {l.cost : l \in Lots} :
        balance[cell].avg \in 0..dearest

\* A balance row is what its movements and the prices paid make of it.
BalancesAddUp == BalanceIsSumOfMovements /\ AverageWithinPrices

\* A bill's goods are out once while it is COMPLETED and back exactly, cell by
\* cell, once it is cancelled, although the recipe was edited in between or two
\* cancels raced (recipe-consumption.service.ts).
ReturnsWhatItTook ==
    \A b \in Sold : \A cell \in Cells :
        LET out  == Total({m \in Of("sale", b) : m.cell = cell})
            back == Total({m \in Of("return", b) : m.cell = cell})
        IN  back = IF b \in cancelled THEN -out ELSE 0

\* A circle of waiting calls always has a goods receipt or a transfer in it:
\* bills, cancels, issues and stock-takes alone never deadlock, because
\* consumption and its reversal lock in one order (recipe-consumption.service.ts:
\* "a stable lock ordering across concurrent bills").
BillsNeverCircle ==
    \A circle \in Circles : \E c \in circle : op[c].kind \in {"receive", "transfer"}

\* Every transaction on the stock commits or rolls back: no lock outlives its
\* holder, and waiting in a circle is broken.
EveryTransactionEnds ==
    \A c \in Calls :
        pc[c] \in {"checked", "moving"} ~> pc[c] \in {"committed", "failed"}
=============================================================================
