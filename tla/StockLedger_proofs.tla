------------------------- MODULE StockLedger_proofs -------------------------
(***************************************************************************)
(* Machine-checked proofs about StockLedger, for every set of branches,    *)
(* calls and handlers, every order of the ingredients and every recipe,    *)
(* count and lot.                                                          *)
(***************************************************************************)
EXTENDS StockLedger, Sums

LegKinds == {"sale", "return", "issue", "adjust", "receive", "carry"}
BalanceRows == [qty : Int, avg : Nat]
LegRows == [kind : LegKinds, cell : Cells, qty : Int, cost : Nat \cup Cells]
MovementRows ==
    [by : Calls, nth : Nat, cell : Cells, qty : Int, bill : Calls, kind : LegKinds]

\* What a transaction has in memory and what it wrote are rows.
PrivateRows ==
    /\ legs \in [Calls -> Seq(LegRows)]
    /\ view = [c \in Calls |-> view[c]]
    /\ \A c \in Calls : view[c] \in [DOMAIN view[c] -> BalanceRows]
    /\ written \in [Calls -> SUBSET MovementRows]
    /\ IsFiniteSet(movements) /\ \A c \in Calls : IsFiniteSet(written[c])

\* Only a call that moves goods has locked, written or still to do anything.
OnlyMoving ==
    \A c \in Calls :
        /\ pc[c] # "idle" => op[c] \in Requests
        /\ pc[c] # "moving" => legs[c] = << >> /\ DOMAIN view[c] = {} /\ written[c] = {}
        /\ pc[c] = "checked" => op[c].kind = "cancel"

KindsOf(kind) ==
    CASE kind = "sale"     -> {"sale"}
      [] kind = "cancel"   -> {"return"}
      [] kind = "issue"    -> {"issue"}
      [] kind = "adjust"   -> {"adjust"}
      [] kind = "receive"  -> {"receive"}
      [] kind = "transfer" -> {"issue", "carry"}

\* The n-th of a request's legs is of its kind, and a cost that is carried is read from
\* a row the transaction holds by then.
Fits(s, n, kind, held) ==
    /\ s[n].kind \in KindsOf(kind)
    /\ s[n].kind = "receive" => \E l \in Lots : s[n].qty = l.qty /\ s[n].cost = l.cost
    /\ s[n].kind = "carry" =>
          /\ s[n].qty = 1 /\ s[n].cost \in Cells
          /\ s[n].cost \in held \/ \E m \in 1 .. n - 1 : s[m].cell = s[n].cost

LegsFit ==
    \A c \in Calls : \A n \in DOMAIN legs[c] : Fits(legs[c], n, op[c].kind, DOMAIN view[c])

\* A transaction's rows are the committed ones and what it wrote on top.
InBooks ==
    \A c \in Calls :
        /\ \A m \in written[c] : m.by = c /\ m.nth < Cardinality(written[c])
        /\ \A m \in written[c] : m.cell \in DOMAIN view[c]
        /\ \A cell \in DOMAIN view[c] :
              view[c][cell].qty = balance[cell].qty + Total({m \in written[c] : m.cell = cell})

\* A committed movement was written by a committed call.
CommittedOnly == \A m \in movements : pc[m.by] = "committed"

Fair(a) == \E dearest \in {0} \cup {l.cost : l \in Lots} : a \in 0 .. dearest

\* No average, committed or not, leaves the range of the prices paid.
AveragesFair ==
    /\ \A cell \in Cells : Fair(balance[cell].avg)
    /\ \A c \in Calls : \A cell \in DOMAIN view[c] : Fair(view[c][cell].avg)

\* The branch whose stock a bill or its cancel moves.
BranchOf(c) == IF op[c].kind = "sale" THEN op[c].branch ELSE op[op[c].bill].branch

\* Bills, cancels, issues and stock-takes lock in the order of the ids.
OrderOf(c) ==
    /\ pc[c] = "moving" /\ op[c].kind \in {"sale", "cancel"} =>
          /\ \A n \in DOMAIN legs[c] : legs[c][n].cell[1] = BranchOf(c)
          /\ \A cell \in DOMAIN view[c] : cell[1] = BranchOf(c)
          /\ \A m, n \in DOMAIN legs[c] :
                m < n => Comes(legs[c][m].cell[2], legs[c][n].cell[2], IdOrder)
          /\ \A cell \in DOMAIN view[c] : \A n \in DOMAIN legs[c] :
                Comes(cell[2], legs[c][n].cell[2], IdOrder)
    /\ pc[c] = "moving" /\ op[c].kind \in {"issue", "adjust"} /\ legs[c] # << >> =>
          DOMAIN view[c] = {} /\ Len(legs[c]) = 1

InOrder == \A c \in Calls : OrderOf(c)

\* A cancel that moves goods is alone with the bill's row.
BillRowsHeld ==
    /\ cancelled \subseteq Sold
    /\ \A b \in Calls : billLock[b] # None =>
          LET c == billLock[b]
          IN  pc[c] = "moving" /\ op[c].kind = "cancel" /\ op[c].bill = b
    /\ \A c \in Calls : pc[c] # "idle" /\ op[c].kind = "cancel" =>
          /\ op[c].bill \in Sold
          /\ pc[c] = "moving" => billLock[op[c].bill] = c
          /\ pc[c] = "committed" => op[c].bill \in cancelled

\* Movements of a bill: one for a cell, and of the bill's branch.
BillMovements ==
    /\ \A c \in Calls : \A m \in written[c] \cup {x \in movements : x.by = c} :
          /\ m.kind = "sale" => op[c].kind = "sale" /\ m.bill = c /\ m.cell[1] = op[c].branch
          /\ m.kind = "return" => op[c].kind = "cancel" /\ m.bill = op[c].bill
          /\ op[c].kind = "sale" => m.kind = "sale"
          /\ op[c].kind = "cancel" => m.kind = "return"
    /\ \A c \in Calls : \A m, w \in written[c] :
          m.kind \in {"sale", "return"} /\ m.cell = w.cell => m = w
    /\ \A m, w \in movements :
          m.kind \in {"sale", "return"} /\ w.kind = m.kind /\ m.bill = w.bill /\ m.cell = w.cell
            => m = w
    /\ \A m \in movements : m.kind = "return" => m.bill \in cancelled

\* Row r takes back movement m.
TakesBack(r, m) == r.cell = m.cell /\ r.qty = -m.qty

\* What a cancel has still to take back, and what it has taken back, is what the bill
\* took, unless the bill was cancelled before.
TakingBack ==
    \A c \in Calls : pc[c] = "moving" /\ op[c].kind = "cancel" =>
        LET out == Of("sale", op[c].bill)
        IN  IF Of("return", op[c].bill) # {} THEN legs[c] = << >> /\ written[c] = {}
            ELSE /\ \A m \in out : \/ \E n \in DOMAIN legs[c] : TakesBack(legs[c][n], m)
                                   \/ \E w \in written[c] : TakesBack(w, m)
                 /\ \A n \in DOMAIN legs[c] : \E m \in out : TakesBack(legs[c][n], m)
                 /\ \A w \in written[c] : \E m \in out : TakesBack(w, m)

\* A cancelled bill's goods are back.
TakenBack ==
    \A b \in cancelled :
        /\ \A m \in Of("sale", b) : \E r \in Of("return", b) : TakesBack(r, m)
        /\ \A r \in Of("return", b) : \E m \in Of("sale", b) : TakesBack(r, m)

-----------------------------------------------------------------------------
(***************************************************************************)
(* The order of the ingredients.                                           *)
(***************************************************************************)
\* Each ingredient comes in one place, after those before it.
LEMMA ComesIs ==
  /\ \A i, j : Comes(i, j, IdOrder) => i \in Ingredients /\ j \in Ingredients /\ i # j
  /\ \A i, j, k : Comes(i, j, IdOrder) /\ Comes(j, k, IdOrder) => Comes(i, k, IdOrder)
  /\ \A i, j \in Ingredients : i = j \/ Comes(i, j, IdOrder) \/ Comes(j, i, IdOrder)
  <1>1. DOMAIN IdOrder = 1 .. Len(IdOrder) /\ Len(IdOrder) \in Nat
    BY IdOrderType
  <1>2. \A m, n \in DOMAIN IdOrder : IdOrder[m] = IdOrder[n] => m = n
    BY IdOrderType DEF IsInjective
  <1>3. \A i \in Ingredients : \E n \in DOMAIN IdOrder : IdOrder[n] = i
    BY DEF Ingredients, ToSet
  <1>4. \A n \in DOMAIN IdOrder : IdOrder[n] \in Ingredients
    BY DEF Ingredients, ToSet
  <1>5. ASSUME NEW i, NEW j, Comes(i, j, IdOrder)
        PROVE  i \in Ingredients /\ j \in Ingredients /\ i # j
    BY <1>1, <1>2, <1>4, <1>5 DEF Comes
  <1>6. ASSUME NEW i, NEW j, NEW k, Comes(i, j, IdOrder), Comes(j, k, IdOrder)
        PROVE  Comes(i, k, IdOrder)
    <2>1. PICK m \in DOMAIN IdOrder, n \in DOMAIN IdOrder :
             m < n /\ IdOrder[m] = i /\ IdOrder[n] = j
      BY <1>6 DEF Comes
    <2>2. PICK p \in DOMAIN IdOrder, q \in DOMAIN IdOrder :
             p < q /\ IdOrder[p] = j /\ IdOrder[q] = k
      BY <1>6 DEF Comes
    <2>3. n = p
      BY <1>2, <2>1, <2>2
    <2>4. m < q
      BY <1>1, <2>1, <2>2, <2>3
    <2> QED BY <2>1, <2>2, <2>4 DEF Comes
  <1>7. ASSUME NEW i \in Ingredients, NEW j \in Ingredients, i # j
        PROVE  Comes(i, j, IdOrder) \/ Comes(j, i, IdOrder)
    <2>1. PICK m \in DOMAIN IdOrder, n \in DOMAIN IdOrder : IdOrder[m] = i /\ IdOrder[n] = j
      BY <1>3
    <2>2. m < n \/ n < m
      BY <1>1, <1>7, <2>1
    <2> QED BY <2>1, <2>2 DEF Comes
  <1> QED BY <1>5, <1>6, <1>7

\* They are finitely many.
LEMMA IngredientsFinite == IsFiniteSet(Ingredients)
  <1>1. IdOrder \in [1 .. Len(IdOrder) -> Ingredients] /\ Len(IdOrder) \in Nat
    BY IdOrderType
  <1>2. \A i \in Ingredients : \E n \in 1 .. Len(IdOrder) : IdOrder[n] = i
    BY <1>1 DEF Ingredients, ToSet
  <1>3. IdOrder \in Surjection(1 .. Len(IdOrder), Ingredients)
    BY <1>1, <1>2 DEF Surjection
  <1>4. IsFiniteSet(1 .. Len(IdOrder))
    BY <1>1, FS_Interval
  <1> QED BY <1>3, <1>4, FS_Surjection

\* Of some ingredients one comes last.
LEMMA LastComes ==
  ASSUME NEW ids \in SUBSET Ingredients, ids # {}
  PROVE  \E last \in ids : \A i \in ids \ {last} : Comes(i, last, IdOrder)
  <1> DEFINE After(j) == {i \in Ingredients : Comes(j, i, IdOrder)}
  <1> DEFINE B == {After(j) : j \in ids}
  <1>1. B \in SUBSET SUBSET Ingredients /\ B # {}
    OBVIOUS
  <1>2. PICK T \in B : \A U \in B : ~(U \subseteq T /\ U # T)
    <2> HIDE DEF B
    <2> QED BY <1>1, IngredientsFinite, MinimalSubset
  <1>3. PICK last \in ids : T = After(last)
    BY <1>2
  <1>4. ASSUME NEW i \in ids \ {last}, ~Comes(i, last, IdOrder)
        PROVE  FALSE
    <2>1. Comes(last, i, IdOrder)
      BY <1>4, ComesIs
    <2>2. After(i) \subseteq T
      BY <1>3, <2>1, ComesIs
    <2>3. i \in T /\ i \notin After(i)
      BY <1>3, <2>1, ComesIs
    <2> QED BY <1>2, <2>2, <2>3
  <1> QED BY <1>4

\* s has the members of ids once each, as the order has them.
SortedList(s, ids, order) ==
    s \in SetToSeqs(ids) /\ \A m, n \in DOMAIN s : m < n => Comes(s[m], s[n], order)

\* Any ingredients can be sorted.
LEMMA SortedExists ==
  ASSUME NEW ids \in SUBSET Ingredients
  PROVE  \E s : SortedList(s, ids, IdOrder)
  <1> DEFINE B == {T \in SUBSET Ingredients : ~ \E s : SortedList(s, T, IdOrder)}
  <1> SUFFICES ASSUME B # {} PROVE FALSE
    OBVIOUS
  <1>0. B \in SUBSET SUBSET Ingredients
    OBVIOUS
  <1>1. PICK T \in B : \A U \in B : ~(U \subseteq T /\ U # T)
    <2> HIDE DEF B
    <2> QED BY <1>0, IngredientsFinite, MinimalSubset
  <1>2. T \in SUBSET Ingredients /\ ~ \E s : SortedList(s, T, IdOrder)
    OBVIOUS
  <1>3. CASE T = {}
    <2>1. Cardinality({}) = 0
      BY FS_EmptySet
    <2>2. SortedList(<< >>, {}, IdOrder)
      BY <2>1 DEF SortedList, SetToSeqs
    <2> QED BY <1>2, <1>3, <2>2
  <1>4. CASE T # {}
    <2>1. PICK last \in T : \A i \in T \ {last} : Comes(i, last, IdOrder)
      BY <1>2, <1>4, LastComes
    <2> DEFINE R == T \ {last}
    <2>2. R \in SUBSET Ingredients /\ R \notin B
      BY <1>1, <1>2, <2>1
    <2>3. PICK s : SortedList(s, R, IdOrder)
      BY <2>2
    <2>4. /\ Cardinality(R) \in Nat /\ Cardinality(T) = Cardinality(R) + 1
      BY <1>2, IngredientsFinite, FS_Subset, FS_RemoveElement, FS_CardinalityType
    <2> DEFINE k == Cardinality(R)
    <2> DEFINE t == [n \in 1 .. k + 1 |-> IF n = k + 1 THEN last ELSE s[n]]
    <2>5. /\ s \in [1 .. k -> R]
          /\ \A m, n \in 1 .. k : m # n => s[m] # s[n]
          /\ \A m, n \in 1 .. k : m < n => Comes(s[m], s[n], IdOrder)
      BY <2>3 DEF SortedList, SetToSeqs
    <2> HIDE DEF R, k
    <2>6. k \in Nat /\ Cardinality(T) = k + 1
      BY <2>4 DEF k
    <2>7. R \subseteq T /\ last \notin R /\ last \in T
      BY DEF R
    <2>8. t \in [1 .. k + 1 -> T]
      BY <2>5, <2>6, <2>7
    <2>9. \A m, n \in 1 .. k + 1 : m # n => t[m] # t[n]
      BY <2>5, <2>6, <2>7
    <2>10. \A m, n \in 1 .. k + 1 : m < n => Comes(t[m], t[n], IdOrder)
      BY <2>1, <2>5, <2>6, <2>7 DEF R
    <2>11. SortedList(t, T, IdOrder)
      <3> HIDE DEF t
      <3>1. t \in SetToSeqs(T)
        BY <2>6, <2>8, <2>9 DEF SetToSeqs
      <3> QED BY <2>8, <2>10, <3>1 DEF SortedList
    <2> QED BY <1>2, <2>11
  <1> QED BY <1>3, <1>4

\* What Sorted returns.
LEMMA SortedIs ==
  ASSUME NEW ids \in SUBSET Ingredients
  PROVE  LET s == Sorted(ids, IdOrder)
         IN  /\ s \in [1 .. Cardinality(ids) -> ids] /\ Cardinality(ids) \in Nat
             /\ \A m, n \in DOMAIN s : m < n => Comes(s[m], s[n], IdOrder)
             /\ \A i \in ids : \E n \in DOMAIN s : s[n] = i
  <1> DEFINE s == Sorted(ids, IdOrder)
  <1>1. SortedList(s, ids, IdOrder)
    <2>1. \E x \in SetToSeqs(ids) : \A m, n \in DOMAIN x : m < n => Comes(x[m], x[n], IdOrder)
      BY SortedExists DEF SortedList
    <2> QED BY <2>1 DEF Sorted, SortedList
  <1>2. IsFiniteSet(ids) /\ Cardinality(ids) \in Nat
    BY IngredientsFinite, FS_Subset, FS_CardinalityType
  <1>3. /\ s \in [1 .. Cardinality(ids) -> ids]
        /\ \A m, n \in 1 .. Cardinality(ids) : m # n => s[m] # s[n]
    BY <1>1 DEF SortedList, SetToSeqs
  <1> HIDE DEF s
  <1>4. s \in Injection(1 .. Cardinality(ids), ids)
    BY <1>3 DEF Injection, IsInjective
  <1>5. Cardinality(1 .. Cardinality(ids)) = Cardinality(ids)
    BY <1>2, FS_Interval
  <1>6. s \in Surjection(1 .. Cardinality(ids), ids)
    BY <1>2, <1>4, <1>5, FS_Injection
  <1>7. \A i \in ids : \E n \in DOMAIN s : s[n] = i
    BY <1>3, <1>6 DEF Surjection
  <1>8. \A m, n \in DOMAIN s : m < n => Comes(s[m], s[n], IdOrder)
    BY <1>1 DEF SortedList
  <1> QED BY <1>2, <1>3, <1>7, <1>8 DEF s

-----------------------------------------------------------------------------
(***************************************************************************)
(* What a request asks and a leg leaves.                                   *)
(***************************************************************************)
\* The fields a request has.
LEMMA RequestIs ==
  ASSUME NEW r \in Requests
  PROVE  /\ r.kind \in {"sale", "cancel", "issue", "adjust", "receive", "transfer"}
         /\ r.kind = "sale" => r.branch \in Branches
         /\ r.kind = "cancel" => r.bill \in Calls
         /\ r.kind \in {"issue", "adjust"} => r.cell \in Cells
         /\ r.kind = "adjust" => r.counted \in Counts
         /\ r.kind = "receive" =>
               /\ r.branch \in Branches /\ r.lot \in Lots
               /\ r.lines \in Seq(Ingredients)
         /\ r.kind = "transfer" => r.from \in Branches /\ r.to \in Branches
  <1>1. Len(IdOrder) \in Nat
    BY IdOrderType
  <1>2. BoundedSeq(Ingredients, Len(IdOrder)) \subseteq Seq(Ingredients)
    BY <1>1 DEF BoundedSeq, SeqOf
  <1> QED BY <1>2 DEF Requests

\* An average of two costs is a cost that lies between.
LEMMA AverageIs ==
  ASSUME NEW old \in BalanceRows, NEW qty \in Nat \ {0}, NEW cost \in Nat
  PROVE  /\ AverageAfter(old, qty, cost) \in Nat
         /\ \A top \in Nat : old.avg <= top /\ cost <= top => AverageAfter(old, qty, cost) <= top
  <1>1. old.qty \in Int /\ old.avg \in Nat
    BY DEF BalanceRows
  <1>2. CASE old.qty <= 0
    BY <1>2 DEF AverageAfter
  <1>3. CASE old.qty > 0
    <2> DEFINE a == old.qty * old.avg + qty * cost
    <2> DEFINE b == old.qty + qty
    <2> DEFINE d == (2 * a + b) \div (2 * b)
    <2>1. b \in Nat /\ b > 0
      BY <1>1, <1>3
    <2>2. a \in Nat
      <3>1. \A x, y \in Nat : x * y \in Nat
        OBVIOUS
      <3>2. old.qty * old.avg \in Nat /\ qty * cost \in Nat
        BY <1>1, <1>3, <3>1
      <3> QED BY <3>2
    <2>3. AverageAfter(old, qty, cost) = d
      BY <1>1, <1>3 DEF AverageAfter, Rounded
    <2>4. ASSUME NEW top \in Nat, old.avg <= top, cost <= top
          PROVE  a <= top * b
      <3>1. \A x, y, z \in Nat : x <= y => z * x <= z * y
        OBVIOUS
      <3>2. old.qty * old.avg <= old.qty * top /\ qty * cost <= qty * top
        BY <1>1, <1>3, <2>4, <3>1
      <3>3. top * b = old.qty * top + qty * top
        BY <1>1
      <3>4. /\ old.qty * old.avg \in Int /\ qty * cost \in Int
            /\ old.qty * top \in Int /\ qty * top \in Int
        BY <1>1
      <3> QED BY <3>2, <3>3, <3>4
    <2> HIDE DEF a, b
    <2>5. \A x \in Nat, y \in Nat \ {0} : x \div y \in Nat /\ y * (x \div y) <= x
      OBVIOUS
    <2>6. d \in Nat /\ (2 * b) * d <= 2 * a + b
      <3> DEFINE x == 2 * a + b
      <3> DEFINE y == 2 * b
      <3>1. x \in Nat /\ y \in Nat \ {0}
        BY <2>1, <2>2
      <3> HIDE DEF x, y
      <3>2. x \div y \in Nat /\ y * (x \div y) <= x
        BY <2>5, <3>1
      <3> QED BY <3>2 DEF x, y
    <2> HIDE DEF d
    <2>7. ASSUME NEW top \in Nat, a <= top * b
          PROVE  d <= top
      <3> SUFFICES ASSUME d >= top + 1 PROVE FALSE
        BY <2>6
      <3>1. \A x, y, z \in Nat : x <= y => z * x <= z * y
        OBVIOUS
      <3>2. (2 * b) * (top + 1) <= (2 * b) * d
        BY <2>1, <2>6, <3>1
      <3>3. (2 * b) * (top + 1) = 2 * (top * b) + 2 * b
        BY <2>1
      <3>4. top * b \in Nat
        BY <2>1
      <3>5. (2 * b) * d \in Nat
        BY <2>1, <2>6
      <3> QED BY <2>1, <2>2, <2>6, <2>7, <3>2, <3>3, <3>4, <3>5
    <2> QED BY <2>3, <2>4, <2>6, <2>7
  <1> QED BY <1>1, <1>2, <1>3

\* A leg's record.
LEMMA LegIs ==
  ASSUME NEW kind \in LegKinds, NEW cell \in Cells, NEW qty \in Int, NEW cost \in Nat \cup Cells
  PROVE  LET leg == Leg(kind, cell, qty, cost)
         IN  /\ leg \in LegRows /\ leg.kind = kind /\ leg.cell = cell
             /\ leg.qty = qty /\ leg.cost = cost
  BY DEF Leg, LegRows

\* The legs of a sale: of the branch, in the order of the ids.
LEMMA SaleLegsAre ==
  ASSUME TypeOK, NEW b \in Branches
  PROVE  LET s == SaleLegs(b)
         IN  /\ s \in Seq(LegRows)
             /\ \A n \in DOMAIN s : s[n].kind = "sale" /\ s[n].cell[1] = b
             /\ \A m, n \in DOMAIN s : m < n => Comes(s[m].cell[2], s[n].cell[2], IdOrder)
  <1> DEFINE ids == {i \in Ingredients : recipe[i] > 0}
  <1> DEFINE used == Sorted(ids, IdOrder)
  <1> DEFINE s == [n \in DOMAIN used |-> Leg("sale", <<b, used[n]>>, -recipe[used[n]], 0)]
  <1>1. SaleLegs(b) = s
    BY DEF SaleLegs
  <1>2. recipe \in [Ingredients -> Nat]
    BY QuantitiesType DEF TypeOK
  <1>3. /\ used \in [1 .. Cardinality(ids) -> ids] /\ Cardinality(ids) \in Nat
        /\ \A m, n \in DOMAIN used : m < n => Comes(used[m], used[n], IdOrder)
    BY SortedIs
  <1> HIDE DEF used
  <1>4. ids \subseteq Ingredients
    OBVIOUS
  <1> HIDE DEF ids
  <1>5. ASSUME NEW n \in DOMAIN used
        PROVE  /\ s[n] \in LegRows /\ s[n].kind = "sale"
               /\ s[n].cell[1] = b /\ s[n].cell[2] = used[n]
    <2>1. used[n] \in Ingredients
      BY <1>3, <1>4, <1>5
    <2>2. <<b, used[n]>> \in Cells /\ -recipe[used[n]] \in Int /\ 0 \in Nat \cup Cells
      BY <1>2, <2>1 DEF Cells
    <2>3. "sale" \in LegKinds
      BY DEF LegKinds
    <2> QED BY <2>2, <2>3, LegIs
  <1>6. s \in [1 .. Cardinality(ids) -> LegRows]
    BY <1>3, <1>5
  <1>7. DOMAIN s = DOMAIN used
    OBVIOUS
  <1> HIDE DEF s
  <1>8. s \in Seq(LegRows)
    BY <1>3, <1>6
  <1> QED BY <1>1, <1>3, <1>5, <1>7, <1>8

\* The legs of a cancel: each takes back a movement of the bill, in the order of the ids.
LEMMA CancelLegsAre ==
  ASSUME TypeOK, NEW b \in Calls
  PROVE  LET s == CancelLegs(b)
         IN  /\ s \in Seq(LegRows)
             /\ \A n \in DOMAIN s :
                   s[n].kind = "return" /\ \E m \in Of("sale", b) : TakesBack(s[n], m)
             /\ \A m, n \in DOMAIN s : m < n => Comes(s[m].cell[2], s[n].cell[2], IdOrder)
             /\ Of("return", b) # {} => s = << >>
             /\ Of("return", b) = {} =>
                   \A m \in Of("sale", b) : \E n \in DOMAIN s : s[n].cell[2] = m.cell[2]
  <1> DEFINE ids == {m.cell[2] : m \in Of("sale", b)}
  <1> DEFINE back == Sorted(ids, IdOrder)
  <1> DEFINE row(i) == CHOOSE m \in Of("sale", b) : m.cell[2] = i
  <1> DEFINE s == [n \in DOMAIN back |-> Leg("return", row(back[n]).cell, -row(back[n]).qty, 0)]
  <1>1. CancelLegs(b) = IF Of("return", b) # {} THEN << >> ELSE s
    BY DEF CancelLegs, ReturnLegs
  <1>2. CASE Of("return", b) # {}
    <2>1. CancelLegs(b) = << >> /\ << >> \in Seq(LegRows) /\ DOMAIN << >> = {}
      BY <1>1, <1>2
    <2> QED BY <1>2, <2>1
  <1>3. CASE Of("return", b) = {}
    <2>1. \A m \in Of("sale", b) : m.cell \in Cells /\ m.cell[2] \in Ingredients /\ m.qty \in Int
      BY DEF TypeOK, Of, Cells
    <2>2. ids \subseteq Ingredients
      BY <2>1
    <2>3. /\ back \in [1 .. Cardinality(ids) -> ids] /\ Cardinality(ids) \in Nat
          /\ \A m, n \in DOMAIN back : m < n => Comes(back[m], back[n], IdOrder)
          /\ \A i \in ids : \E n \in DOMAIN back : back[n] = i
      <3> HIDE DEF ids
      <3> QED BY <2>2, SortedIs
    <2>4. \A i \in ids : row(i) \in Of("sale", b) /\ row(i).cell[2] = i
      OBVIOUS
    <2> HIDE DEF back
    <2>5. \A m \in Of("sale", b) : m.cell[2] \in ids
      OBVIOUS
    <2> HIDE DEF ids, row
    <2>6. ASSUME NEW n \in DOMAIN back
          PROVE  /\ s[n] \in LegRows /\ s[n].kind = "return" /\ s[n].cell[2] = back[n]
                 /\ \E m \in Of("sale", b) : TakesBack(s[n], m)
      <3>1. back[n] \in ids
        BY <2>3, <2>6
      <3>2. PICK m \in Of("sale", b) : m = row(back[n]) /\ m.cell[2] = back[n]
        BY <2>4, <3>1
      <3>3. m.cell \in Cells /\ -m.qty \in Int /\ 0 \in Nat \cup Cells
        BY <2>1, <3>2
      <3>4. "return" \in LegKinds
        BY DEF LegKinds
      <3>5. s[n] = Leg("return", m.cell, -m.qty, 0)
        BY <2>6, <3>2
      <3> HIDE DEF s
      <3>6. /\ s[n] \in LegRows /\ s[n].kind = "return" /\ s[n].cell = m.cell
            /\ s[n].qty = -m.qty
        BY <3>3, <3>4, <3>5, LegIs
      <3> QED BY <3>2, <3>6 DEF TakesBack
    <2>7. s \in [1 .. Cardinality(ids) -> LegRows]
      BY <2>3, <2>6
    <2>8. s \in Seq(LegRows) /\ DOMAIN s = DOMAIN back
      BY <2>3, <2>7
    <2> HIDE DEF s
    <2>9. CancelLegs(b) = s
      BY <1>1, <1>3
    <2>10. \A m \in Of("sale", b) : \E n \in DOMAIN s : s[n].cell[2] = m.cell[2]
      BY <2>3, <2>5, <2>6, <2>8
    <2>11. \A m, n \in DOMAIN s : m < n => Comes(s[m].cell[2], s[n].cell[2], IdOrder)
      BY <2>3, <2>6, <2>8
    <2>12. \A n \in DOMAIN s :
              s[n].kind = "return" /\ \E m \in Of("sale", b) : TakesBack(s[n], m)
      BY <2>6, <2>8
    <2> QED BY <1>3, <2>8, <2>9, <2>10, <2>11, <2>12
  <1> QED BY <1>2, <1>3

\* The legs of a transfer.
LEMMA TransferLegsAre ==
  ASSUME NEW from \in Branches, NEW to \in Branches
  PROVE  LET s == TransferLegs(from, to)
         IN  /\ s \in Seq(LegRows)
             /\ \A n \in DOMAIN s :
                   \/ s[n].kind = "issue"
                   \/ /\ s[n].kind = "carry" /\ s[n].qty = 1 /\ s[n].cost \in Cells
                      /\ \E m \in 1 .. n - 1 : s[m].cell = s[n].cost
  <1> DEFINE line(n) == IdOrder[(n + 1) \div 2]
  <1> DEFINE s == [n \in 1 .. 2 * Len(IdOrder) |->
                     IF n % 2 = 1 THEN Leg("issue", <<from, line(n)>>, -1, 0)
                     ELSE Leg("carry", <<to, line(n)>>, 1, <<from, line(n)>>)]
  <1>1. TransferLegs(from, to) = s
    BY DEF TransferLegs
  <1>2. Len(IdOrder) \in Nat /\ \A n \in 1 .. Len(IdOrder) : IdOrder[n] \in Ingredients
    BY IdOrderType
  <1>3. \A n \in 1 .. 2 * Len(IdOrder) : (n + 1) \div 2 \in 1 .. Len(IdOrder)
    BY <1>2
  <1>4. \A n \in 1 .. 2 * Len(IdOrder) : line(n) \in Ingredients
    BY <1>2, <1>3
  <1>5. \A n \in 1 .. 2 * Len(IdOrder) : n % 2 # 1 =>
           n - 1 \in 1 .. 2 * Len(IdOrder) /\ (n - 1) % 2 = 1 /\ line(n - 1) = line(n)
    <2> TAKE n \in 1 .. 2 * Len(IdOrder)
    <2> HAVE n % 2 # 1
    <2>1. n - 1 \in 1 .. 2 * Len(IdOrder) /\ (n - 1) % 2 = 1
      BY <1>2
    <2>2. ((n - 1) + 1) \div 2 = (n + 1) \div 2
      BY <1>2
    <2> QED BY <2>1, <2>2
  <1> HIDE DEF line
  <1>6. ASSUME NEW n \in 1 .. 2 * Len(IdOrder), n % 2 = 1
        PROVE  s[n] \in LegRows /\ s[n].kind = "issue" /\ s[n].cell = <<from, line(n)>>
    <2>1. <<from, line(n)>> \in Cells /\ -1 \in Int /\ 0 \in Nat \cup Cells
      BY <1>4, <1>6 DEF Cells
    <2>2. "issue" \in LegKinds
      BY DEF LegKinds
    <2>3. s[n] = Leg("issue", <<from, line(n)>>, -1, 0)
      BY <1>6
    <2> DEFINE cell == <<from, line(n)>>
    <2> HIDE DEF s, cell
    <2>4. LET leg == Leg("issue", cell, -1, 0)
          IN  leg \in LegRows /\ leg.kind = "issue" /\ leg.cell = cell
      BY <2>1, <2>2, LegIs DEF cell
    <2> QED BY <2>3, <2>4 DEF cell
  <1>7. ASSUME NEW n \in 1 .. 2 * Len(IdOrder), n % 2 # 1
        PROVE  /\ s[n] \in LegRows /\ s[n].kind = "carry" /\ s[n].qty = 1
               /\ s[n].cost = <<from, line(n)>> /\ s[n].cost \in Cells
    <2>1. <<to, line(n)>> \in Cells /\ 1 \in Int /\ <<from, line(n)>> \in Cells
      BY <1>4, <1>7 DEF Cells
    <2>2. "carry" \in LegKinds
      BY DEF LegKinds
    <2>3. s[n] = Leg("carry", <<to, line(n)>>, 1, <<from, line(n)>>)
      BY <1>7
    <2> DEFINE cell == <<to, line(n)>>
    <2> DEFINE cost == <<from, line(n)>>
    <2> HIDE DEF s, cell, cost
    <2>4. LET leg == Leg("carry", cell, 1, cost)
          IN  leg \in LegRows /\ leg.kind = "carry" /\ leg.qty = 1 /\ leg.cost = cost
      <3>1. cell \in Cells /\ cost \in Cells /\ 1 \in Int /\ cost \in Nat \cup Cells
        BY <2>1 DEF cell, cost
      <3> QED BY <2>2, <3>1, LegIs
    <2> QED BY <2>1, <2>3, <2>4 DEF cell, cost
  <1>8. 2 * Len(IdOrder) \in Nat
    BY <1>2
  <1>9. s \in [1 .. 2 * Len(IdOrder) -> LegRows]
    BY <1>6, <1>7
  <1>10. s \in Seq(LegRows) /\ DOMAIN s = 1 .. 2 * Len(IdOrder)
    BY <1>8, <1>9
  <1> HIDE DEF s
  <1>11. ASSUME NEW n \in 1 .. 2 * Len(IdOrder), n % 2 # 1
         PROVE  \E m \in 1 .. n - 1 : s[m].cell = s[n].cost
    <2>1. /\ n - 1 \in 1 .. 2 * Len(IdOrder) /\ (n - 1) % 2 = 1
          /\ line(n - 1) = line(n)
      BY <1>5, <1>11
    <2>2. s[n - 1].cell = s[n].cost
      BY <1>6, <1>7, <1>11, <2>1
    <2>3. n - 1 \in 1 .. n - 1
      BY <2>1
    <2> QED BY <2>2, <2>3
  <1> QED BY <1>1, <1>6, <1>7, <1>10, <1>11

\* A request's legs are rows, and fit.
LEMMA LegsOfFit ==
  ASSUME TypeOK, NEW r \in Requests
  PROVE  /\ LegsOf(r) \in Seq(LegRows)
         /\ \A n \in DOMAIN LegsOf(r) : Fits(LegsOf(r), n, r.kind, {})
  <1> DEFINE s == LegsOf(r)
  <1>1. CASE r.kind = "sale"
    <2>1. s = SaleLegs(r.branch) /\ r.branch \in Branches
      BY <1>1, RequestIs DEF LegsOf
    <2> HIDE DEF s
    <2>2. s \in Seq(LegRows) /\ \A n \in DOMAIN s : s[n].kind = "sale"
      BY <2>1, SaleLegsAre
    <2>3. \A n \in DOMAIN s : Fits(s, n, r.kind, {})
      BY <1>1, <2>2 DEF Fits, KindsOf
    <2> QED BY <2>2, <2>3 DEF s
  <1>2. CASE r.kind = "cancel"
    <2>1. s = CancelLegs(r.bill) /\ r.bill \in Calls
      BY <1>2, RequestIs DEF LegsOf
    <2> HIDE DEF s
    <2>2. s \in Seq(LegRows) /\ \A n \in DOMAIN s : s[n].kind = "return"
      BY <2>1, CancelLegsAre
    <2>3. \A n \in DOMAIN s : Fits(s, n, r.kind, {})
      BY <1>2, <2>2 DEF Fits, KindsOf
    <2> QED BY <2>2, <2>3 DEF s
  <1>3. CASE r.kind = "issue"
    <2> DEFINE leg == Leg("issue", r.cell, -1, 0)
    <2>1. s = <<leg>> /\ r.cell \in Cells
      BY <1>3, RequestIs DEF LegsOf
    <2>2. leg \in LegRows /\ leg.kind = "issue"
      BY <2>1 DEF Leg, LegRows, LegKinds
    <2> HIDE DEF s, leg
    <2>3. s \in Seq(LegRows) /\ \A n \in DOMAIN s : s[n].kind = "issue"
      BY <2>1, <2>2
    <2>4. \A n \in DOMAIN s : Fits(s, n, r.kind, {})
      BY <1>3, <2>3 DEF Fits, KindsOf
    <2> QED BY <2>3, <2>4 DEF s
  <1>4. CASE r.kind = "adjust"
    <2> DEFINE leg == Leg("adjust", r.cell, r.counted, 0)
    <2>1. s = <<leg>> /\ r.cell \in Cells /\ r.counted \in Int
      BY <1>4, RequestIs, QuantitiesType DEF LegsOf
    <2>2. leg \in LegRows /\ leg.kind = "adjust"
      BY <2>1 DEF Leg, LegRows, LegKinds
    <2> HIDE DEF s, leg
    <2>3. s \in Seq(LegRows) /\ \A n \in DOMAIN s : s[n].kind = "adjust"
      BY <2>1, <2>2
    <2>4. \A n \in DOMAIN s : Fits(s, n, r.kind, {})
      BY <1>4, <2>3 DEF Fits, KindsOf
    <2> QED BY <2>3, <2>4 DEF s
  <1>5. CASE r.kind = "receive"
    <2>1. r.branch \in Branches /\ r.lot \in Lots /\ r.lines \in Seq(Ingredients)
      BY <1>5, RequestIs
    <2>2. r.lot.qty \in Nat \ {0} /\ r.lot.cost \in Nat
      BY <2>1, QuantitiesType
    <2>3. s = [n \in DOMAIN r.lines |->
                 Leg("receive", <<r.branch, r.lines[n]>>, r.lot.qty, r.lot.cost)]
      BY <1>5 DEF LegsOf, ReceiptLegs
    <2>4. Len(r.lines) \in Nat /\ DOMAIN r.lines = 1 .. Len(r.lines)
      BY <2>1
    <2> HIDE DEF s
    <2>5. ASSUME NEW n \in DOMAIN r.lines
          PROVE  /\ s[n] \in LegRows /\ s[n].kind = "receive"
                 /\ s[n].qty = r.lot.qty /\ s[n].cost = r.lot.cost
      <3>1. <<r.branch, r.lines[n]>> \in Cells
        BY <2>1, <2>5 DEF Cells
      <3>2. "receive" \in LegKinds
        BY DEF LegKinds
      <3>3. s[n] = Leg("receive", <<r.branch, r.lines[n]>>, r.lot.qty, r.lot.cost)
        BY <2>3, <2>5
      <3> QED BY <2>2, <3>1, <3>2, <3>3, LegIs
    <2>6. s \in [1 .. Len(r.lines) -> LegRows]
      BY <2>3, <2>4, <2>5
    <2>7. s \in Seq(LegRows) /\ DOMAIN s = DOMAIN r.lines
      BY <2>4, <2>6
    <2>8. \A n \in DOMAIN s : Fits(s, n, r.kind, {})
      BY <1>5, <2>1, <2>5, <2>7 DEF Fits, KindsOf
    <2> QED BY <2>7, <2>8 DEF s
  <1>6. CASE r.kind = "transfer"
    <2>1. s = TransferLegs(r.from, r.to) /\ r.from \in Branches /\ r.to \in Branches
      BY <1>6, RequestIs DEF LegsOf
    <2> HIDE DEF s
    <2>2. /\ s \in Seq(LegRows)
          /\ \A n \in DOMAIN s :
                \/ s[n].kind = "issue"
                \/ /\ s[n].kind = "carry" /\ s[n].qty = 1 /\ s[n].cost \in Cells
                   /\ \E m \in 1 .. n - 1 : s[m].cell = s[n].cost
      BY <2>1, TransferLegsAre
    <2>3. \A n \in DOMAIN s : Fits(s, n, r.kind, {})
      BY <1>6, <2>2 DEF Fits, KindsOf
    <2> QED BY <2>2, <2>3 DEF s
  <1> QED BY <1>1, <1>2, <1>3, <1>4, <1>5, <1>6, RequestIs

-----------------------------------------------------------------------------
(***************************************************************************)
(* Types.                                                                  *)
(***************************************************************************)
Typed == TypeOK /\ PrivateRows /\ OnlyMoving /\ LegsFit

\* The rest of a list of legs.
LEMMA TailIs ==
  ASSUME NEW s \in Seq(LegRows), s # << >>
  PROVE  /\ Head(s) = s[1] /\ s[1] \in LegRows /\ 1 \in DOMAIN s
         /\ Tail(s) \in Seq(LegRows)
         /\ \A n \in DOMAIN Tail(s) :
               n \in Nat \ {0} /\ n + 1 \in DOMAIN s /\ Tail(s)[n] = s[n + 1]
         /\ \A n \in DOMAIN s : n = 1 \/ (n - 1 \in DOMAIN Tail(s) /\ Tail(s)[n - 1] = s[n])
         /\ Len(Tail(s)) = Len(s) - 1 /\ Len(s) \in Nat \ {0}
  OBVIOUS

\* What a call sees of a cell is a balance.
LEMMA SeenIs ==
  ASSUME Typed, NEW c \in Calls, NEW cell \in Cells
  PROVE  Seen(c, cell) \in BalanceRows
  BY DEF Typed, TypeOK, PrivateRows, Seen, BalanceRows

\* What a leg leaves is a balance.
LEMMA AfterIs ==
  ASSUME NEW leg \in LegRows, NEW old \in BalanceRows, NEW seen, seen \in [DOMAIN seen -> BalanceRows],
         leg.kind = "receive" => \E l \in Lots : leg.qty = l.qty /\ leg.cost = l.cost,
         leg.kind = "carry" => leg.qty = 1 /\ leg.cost \in DOMAIN seen
  PROVE  AfterLeg(leg, old, seen) \in BalanceRows
  <1>1. /\ old.qty \in Int /\ old.avg \in Nat /\ leg.qty \in Int /\ leg.kind \in LegKinds
        /\ old = [qty |-> old.qty, avg |-> old.avg]
    BY DEF BalanceRows, LegRows
  <1>2. CASE leg.kind \in {"sale", "return", "issue"}
    <2>1. AfterLeg(leg, old, seen) = [old EXCEPT !.qty = old.qty + leg.qty]
      BY <1>2 DEF AfterLeg
    <2> QED BY <1>1, <2>1 DEF BalanceRows
  <1>3. CASE leg.kind = "adjust"
    <2>1. AfterLeg(leg, old, seen) = [old EXCEPT !.qty = leg.qty]
      BY <1>3 DEF AfterLeg
    <2> QED BY <1>1, <2>1 DEF BalanceRows
  <1>4. CASE leg.kind = "receive"
    <2>1. leg.qty \in Nat \ {0} /\ leg.cost \in Nat
      BY <1>4, QuantitiesType
    <2>2. AfterLeg(leg, old, seen) =
             [qty |-> old.qty + leg.qty, avg |-> AverageAfter(old, leg.qty, leg.cost)]
      BY <1>4 DEF AfterLeg
    <2>3. AverageAfter(old, leg.qty, leg.cost) \in Nat
      BY <2>1, AverageIs
    <2> QED BY <1>1, <2>2, <2>3 DEF BalanceRows
  <1>5. CASE leg.kind = "carry"
    <2>1. leg.qty = 1 /\ seen[leg.cost].avg \in Nat
      BY <1>5 DEF BalanceRows
    <2>2. AfterLeg(leg, old, seen) =
             [qty |-> old.qty + leg.qty, avg |-> AverageAfter(old, leg.qty, seen[leg.cost].avg)]
      BY <1>5 DEF AfterLeg
    <2>3. 1 \in Nat \ {0}
      OBVIOUS
    <2>4. AverageAfter(old, 1, seen[leg.cost].avg) \in Nat
      BY <2>1, <2>3, AverageIs
    <2> QED BY <1>1, <2>1, <2>2, <2>4 DEF BalanceRows
  <1> QED BY <1>1, <1>2, <1>3, <1>4, <1>5 DEF LegKinds

\* The first leg of a call that moves goods.
LEMMA LegToDo ==
  ASSUME Typed, NEW c \in Calls, legs[c] # << >>
  PROVE  /\ Head(legs[c]) = legs[c][1] /\ legs[c][1] \in LegRows
         /\ op[c] \in Requests
         /\ legs[c][1].kind \in KindsOf(op[c].kind)
         /\ legs[c][1].kind = "return" <=> op[c].kind = "cancel"
         /\ legs[c][1].kind = "sale" <=> op[c].kind = "sale"
         /\ legs[c][1].kind = "receive" =>
               \E l \in Lots : legs[c][1].qty = l.qty /\ legs[c][1].cost = l.cost
         /\ legs[c][1].kind = "carry" =>
               legs[c][1].qty = 1 /\ legs[c][1].cost \in DOMAIN view[c]
  <1>1. legs[c] \in Seq(LegRows)
    BY DEF Typed, PrivateRows
  <1>2. Head(legs[c]) = legs[c][1] /\ legs[c][1] \in LegRows /\ 1 \in DOMAIN legs[c]
    BY <1>1, TailIs
  <1>3. Fits(legs[c], 1, op[c].kind, DOMAIN view[c])
    BY <1>2 DEF Typed, LegsFit
  <1>4. op[c] \in Requests
    <2>1. pc[c] = "moving"
      BY DEF Typed, OnlyMoving
    <2> QED BY <2>1 DEF Typed, OnlyMoving
  <1>5. op[c].kind \in {"sale", "cancel", "issue", "adjust", "receive", "transfer"}
    BY <1>4, RequestIs
  <1>6. legs[c][1].kind \in KindsOf(op[c].kind)
    BY <1>3 DEF Fits
  <1>7. /\ legs[c][1].kind = "return" <=> op[c].kind = "cancel"
        /\ legs[c][1].kind = "sale" <=> op[c].kind = "sale"
    BY <1>5, <1>6 DEF KindsOf
  <1>8. ~ \E m \in 1 .. 1 - 1 : TRUE
    OBVIOUS
  <1> QED BY <1>2, <1>3, <1>4, <1>6, <1>7, <1>8 DEF Fits

\* What one leg does.
Moved(c, leg, old, new, row) ==
    /\ leg = legs[c][1] /\ old = Seen(c, leg.cell) /\ new = AfterLeg(leg, old, view[c])
    /\ row = [by |-> c, nth |-> Cardinality(written[c]), kind |-> leg.kind,
              cell |-> leg.cell, qty |-> new.qty - old.qty,
              bill |-> IF leg.kind = "return" THEN op[c].bill ELSE c]
    /\ pc[c] = "moving" /\ legs[c] # << >> /\ lock[leg.cell] \in {None, c}
    /\ lock' = [lock EXCEPT ![leg.cell] = c]
    /\ legs' = [legs EXCEPT ![c] = Tail(legs[c])]
    /\ written' = [written EXCEPT ![c] = written[c] \cup {row}]
    /\ view' = [view EXCEPT ![c] =
          [cell \in DOMAIN view[c] \cup {leg.cell} |->
              IF cell = leg.cell THEN new ELSE view[c][cell]]]
    /\ UNCHANGED <<stock, recipe, billLock, pc, op>>

\* A leg locks one row, and writes a movement and the balance it leaves.
LEMMA MoveIs ==
  ASSUME Typed, NEW c \in Calls, Move(c)
  PROVE  \E leg \in LegRows, old \in BalanceRows, new \in BalanceRows, row \in MovementRows :
            Moved(c, leg, old, new, row)
  <1> DEFINE leg == legs[c][1]
  <1> DEFINE old == Seen(c, leg.cell)
  <1> DEFINE new == AfterLeg(leg, old, view[c])
  <1> DEFINE row == [by |-> c, nth |-> Cardinality(written[c]), kind |-> leg.kind,
              cell |-> leg.cell, qty |-> new.qty - old.qty,
              bill |-> IF leg.kind = "return" THEN op[c].bill ELSE c]
  <1>1. pc[c] = "moving" /\ legs[c] # << >>
    BY DEF Move
  <1>2. /\ Head(legs[c]) = leg /\ leg \in LegRows
        /\ leg.kind = "return" => op[c].bill \in Calls
        /\ leg.kind = "receive" => \E l \in Lots : leg.qty = l.qty /\ leg.cost = l.cost
        /\ leg.kind = "carry" => leg.qty = 1 /\ leg.cost \in DOMAIN view[c]
    BY <1>1, LegToDo, RequestIs
  <1>3. leg.cell \in Cells /\ leg.kind \in LegKinds
    BY <1>2 DEF LegRows
  <1> HIDE DEF leg
  <1>4. old \in BalanceRows
    BY <1>3, SeenIs
  <1>5. view[c] \in [DOMAIN view[c] -> BalanceRows]
    BY DEF Typed, PrivateRows
  <1>6. new \in BalanceRows
    <2> HIDE DEF old
    <2> QED BY <1>2, <1>4, <1>5, AfterIs
  <1>7. row \in MovementRows
    <2>1. Cardinality(written[c]) \in Nat
      BY FS_CardinalityType DEF Typed, PrivateRows
    <2>2. new.qty - old.qty \in Int
      <3> HIDE DEF old, new
      <3> QED BY <1>4, <1>6 DEF BalanceRows
    <2> HIDE DEF old, new
    <2> QED BY <1>2, <1>3, <2>1, <2>2 DEF MovementRows
  <1>8. Moved(c, leg, old, new, row)
    BY <1>1, <1>2 DEF Move, Write, Moved, leg
  <1> HIDE DEF old, new, row
  <1> QED BY <1>2, <1>4, <1>6, <1>7, <1>8

\* Begin keeps the types.
LEMMA TypedBegin ==
  ASSUME Typed, NEW c \in Calls, NEW r \in Requests, Begin(c, r)
  PROVE  Typed'
  <1> USE DEF Typed
  <1>1. r.kind \in {"sale", "cancel", "issue", "adjust", "receive", "transfer"}
    BY RequestIs
  <1>2. LegsOf(r) \in Seq(LegRows) /\ \A n \in DOMAIN LegsOf(r) : Fits(LegsOf(r), n, r.kind, {})
    BY LegsOfFit
  <1>3. /\ pc[c] = "idle" /\ op' = [op EXCEPT ![c] = r]
        /\ UNCHANGED <<stock, recipe, lock, billLock, view, written>>
        /\ \/ r.kind = "cancel" /\ pc' = [pc EXCEPT ![c] = "checked"] /\ legs' = legs
           \/ /\ r.kind # "cancel" /\ pc' = [pc EXCEPT ![c] = "moving"]
              /\ legs' = [legs EXCEPT ![c] = LegsOf(r)]
    BY DEF Begin
  <1>4. TypeOK'
    BY <1>3 DEF TypeOK, stock
  <1>5. PrivateRows'
    BY <1>2, <1>3 DEF PrivateRows, stock
  <1>6. legs[c] = << >> /\ DOMAIN view[c] = {} /\ written[c] = {}
    BY <1>3 DEF OnlyMoving
  <1>7. OnlyMoving'
    BY <1>3, <1>6 DEF OnlyMoving, TypeOK, PrivateRows, stock
  <1>8. LegsFit'
    <2> SUFFICES ASSUME NEW d \in Calls, NEW n \in DOMAIN legs'[d]
                 PROVE  Fits(legs'[d], n, op'[d].kind, DOMAIN view'[d])
      BY DEF LegsFit
    <2>1. CASE d # c
      <3>1. op'[d] = op[d] /\ view'[d] = view[d]
        BY <1>3, <2>1
      <3>2. legs'[d] = legs[d]
        <4>1. CASE legs' = legs
          BY <4>1
        <4>2. CASE legs' = [legs EXCEPT ![c] = LegsOf(r)]
          BY <2>1, <4>2 DEF PrivateRows
        <4> QED BY <1>3, <4>1, <4>2
      <3> QED BY <3>1, <3>2 DEF LegsFit
    <2>2. CASE d = c
      <3>1. op'[c] = r /\ DOMAIN view'[c] = {}
        BY <1>3, <1>6 DEF TypeOK
      <3>2. CASE r.kind = "cancel"
        <4>1. legs'[c] = << >>
          BY <1>3, <1>6, <3>2
        <4> QED BY <2>2, <4>1
      <3>3. CASE r.kind # "cancel"
        <4>1. legs'[c] = LegsOf(r)
          BY <1>3, <3>3 DEF PrivateRows
        <4> QED BY <1>2, <2>2, <3>1, <4>1
      <3> QED BY <3>2, <3>3
    <2> QED BY <2>1, <2>2
  <1> QED BY <1>4, <1>5, <1>7, <1>8

\* LockBill keeps the types.
LEMMA TypedLockBill ==
  ASSUME Typed, NEW c \in Calls, LockBill(c)
  PROVE  Typed'
  <1> USE DEF Typed
  <1>1. /\ pc[c] = "checked" /\ pc' = [pc EXCEPT ![c] = "moving"]
        /\ legs' = [legs EXCEPT ![c] = CancelLegs(op[c].bill)]
        /\ billLock' = [billLock EXCEPT ![op[c].bill] = c]
        /\ UNCHANGED <<stock, recipe, lock, op, view, written>>
    BY DEF LockBill
  <1>2. op[c] \in Requests /\ op[c].kind = "cancel" /\ op[c].bill \in Calls
    <2>1. op[c] \in Requests /\ op[c].kind = "cancel"
      BY <1>1 DEF OnlyMoving
    <2> QED BY <2>1, RequestIs
  <1>3. LegsOf(op[c]) = CancelLegs(op[c].bill)
    BY <1>2 DEF LegsOf
  <1>4. /\ CancelLegs(op[c].bill) \in Seq(LegRows)
        /\ \A n \in DOMAIN CancelLegs(op[c].bill) : Fits(CancelLegs(op[c].bill), n, "cancel", {})
    BY <1>2, <1>3, LegsOfFit
  <1>5. TypeOK'
    BY <1>1, <1>2 DEF TypeOK, stock
  <1>6. PrivateRows'
    BY <1>1, <1>4 DEF PrivateRows, stock
  <1>7. OnlyMoving'
    BY <1>1 DEF OnlyMoving, TypeOK, PrivateRows, stock
  <1>8. LegsFit'
    <2> SUFFICES ASSUME NEW d \in Calls, NEW n \in DOMAIN legs'[d]
                 PROVE  Fits(legs'[d], n, op'[d].kind, DOMAIN view'[d])
      BY DEF LegsFit
    <2>1. CASE d # c
      <3>1. legs'[d] = legs[d] /\ op'[d] = op[d] /\ view'[d] = view[d]
        BY <1>1, <2>1
      <3> QED BY <3>1 DEF LegsFit
    <2>2. CASE d = c
      <3>1. op'[c] = op[c] /\ DOMAIN view'[c] = {} /\ legs'[c] = CancelLegs(op[c].bill)
        BY <1>1 DEF OnlyMoving, PrivateRows
      <3> QED BY <1>2, <1>4, <2>2, <3>1
    <2> QED BY <2>1, <2>2
  <1> QED BY <1>5, <1>6, <1>7, <1>8

\* A leg keeps the types.
LEMMA TypedMove ==
  ASSUME Typed, NEW c \in Calls, Move(c)
  PROVE  Typed'
  <1> USE DEF Typed
  <1>1. PICK leg \in LegRows, old \in BalanceRows, new \in BalanceRows, row \in MovementRows :
           Moved(c, leg, old, new, row)
    BY MoveIs
  <1>2. /\ leg = legs[c][1] /\ pc[c] = "moving" /\ legs[c] # << >>
        /\ lock[leg.cell] \in {None, c}
        /\ lock' = [lock EXCEPT ![leg.cell] = c]
        /\ legs' = [legs EXCEPT ![c] = Tail(legs[c])]
        /\ written' = [written EXCEPT ![c] = written[c] \cup {row}]
        /\ view' = [view EXCEPT ![c] =
              [cell \in DOMAIN view[c] \cup {leg.cell} |->
                  IF cell = leg.cell THEN new ELSE view[c][cell]]]
        /\ UNCHANGED <<stock, recipe, billLock, pc, op>>
    BY <1>1 DEF Moved
  <1>3. leg.cell \in Cells
    BY DEF LegRows
  <1>4. /\ view'[c] = [cell \in DOMAIN view[c] \cup {leg.cell} |->
                         IF cell = leg.cell THEN new ELSE view[c][cell]]
        /\ DOMAIN view'[c] = DOMAIN view[c] \cup {leg.cell}
        /\ \A d \in Calls \ {c} : view'[d] = view[d]
        /\ view' = [d \in Calls |-> view'[d]]
    BY <1>2 DEF PrivateRows
  <1>5. TypeOK'
    <2>1. \A d \in Calls : DOMAIN view'[d] = {cell \in Cells : lock'[cell] = d}
      BY <1>2, <1>3, <1>4, NoneIsNoCall DEF TypeOK
    <2> QED BY <1>2, <1>3, <2>1 DEF TypeOK, stock
  <1>6. PrivateRows'
    <2>1. legs[c] \in Seq(LegRows)
      BY DEF PrivateRows
    <2>2. Tail(legs[c]) \in Seq(LegRows)
      BY <1>2, <2>1, TailIs
    <2>3. legs' \in [Calls -> Seq(LegRows)]
      BY <1>2, <2>2 DEF PrivateRows
    <2>4. \A d \in Calls : view'[d] \in [DOMAIN view'[d] -> BalanceRows]
      <3>1. \A cell \in DOMAIN view[c] : view[c][cell] \in BalanceRows
        BY DEF PrivateRows
      <3>2. view'[c] \in [DOMAIN view[c] \cup {leg.cell} -> BalanceRows]
        BY <1>4, <3>1
      <3> QED BY <1>4, <3>2 DEF PrivateRows
    <2>5. written' \in [Calls -> SUBSET MovementRows]
      BY <1>2 DEF PrivateRows
    <2>6. \A d \in Calls : IsFiniteSet(written'[d])
      <3>1. IsFiniteSet(written[c] \cup {row})
        BY FS_AddElement DEF PrivateRows
      <3> QED BY <1>2, <3>1 DEF PrivateRows
    <2>7. IsFiniteSet(movements')
      BY <1>2 DEF PrivateRows, stock
    <2> QED BY <1>4, <2>3, <2>4, <2>5, <2>6, <2>7 DEF PrivateRows
  <1>7. OnlyMoving'
    BY <1>2, <1>4 DEF OnlyMoving, PrivateRows
  <1>8. LegsFit'
    <2> SUFFICES ASSUME NEW d \in Calls, NEW n \in DOMAIN legs'[d]
                 PROVE  Fits(legs'[d], n, op'[d].kind, DOMAIN view'[d])
      BY DEF LegsFit
    <2>1. CASE d # c
      <3>1. legs'[d] = legs[d] /\ op'[d] = op[d] /\ view'[d] = view[d]
        BY <1>2, <2>1
      <3> QED BY <3>1 DEF LegsFit
    <2>2. CASE d = c
      <3>1. op'[c] = op[c] /\ legs'[c] = Tail(legs[c]) /\ legs[c] \in Seq(LegRows)
        BY <1>2 DEF PrivateRows
      <3>2. /\ n \in Nat \ {0} /\ n + 1 \in DOMAIN legs[c] /\ legs'[c][n] = legs[c][n + 1]
            /\ \A k \in DOMAIN legs[c] : k = 1 \/ legs'[c][k - 1] = legs[c][k]
        BY <1>2, <2>2, <3>1, TailIs
      <3>3. Fits(legs[c], n + 1, op[c].kind, DOMAIN view[c])
        BY <3>2 DEF LegsFit
      <3>4. ASSUME legs[c][n + 1].kind = "carry"
            PROVE  \/ legs[c][n + 1].cost \in DOMAIN view'[c]
                   \/ \E m \in 1 .. n - 1 : legs'[c][m].cell = legs[c][n + 1].cost
        <4>1. CASE legs[c][n + 1].cost \in DOMAIN view[c]
          BY <1>4, <4>1
        <4>2. ASSUME NEW m \in 1 .. (n + 1) - 1, legs[c][m].cell = legs[c][n + 1].cost
              PROVE  \/ legs[c][n + 1].cost \in DOMAIN view'[c]
                     \/ \E k \in 1 .. n - 1 : legs'[c][k].cell = legs[c][n + 1].cost
          <5>1. CASE m = 1
            BY <1>2, <1>4, <4>2, <5>1
          <5>2. CASE m # 1
            <6>1. m - 1 \in 1 .. n - 1 /\ m \in DOMAIN legs[c]
              BY <3>1, <3>2, <5>2
            <6>2. legs'[c][m - 1].cell = legs[c][n + 1].cost
              BY <3>2, <4>2, <5>2, <6>1
            <6> QED BY <6>1, <6>2
          <5> QED BY <5>1, <5>2
        <4> QED BY <3>3, <3>4, <4>1, <4>2 DEF Fits
      <3> QED BY <2>2, <3>1, <3>2, <3>3, <3>4 DEF Fits
    <2> QED BY <2>1, <2>2
  <1> QED BY <1>5, <1>6, <1>7, <1>8

\* What the end of a transaction does.
LEMMA EndIs ==
  ASSUME Typed, NEW c \in Calls, NEW how, End(c, how)
  PROVE  /\ pc' = [pc EXCEPT ![c] = how] /\ pc'[c] = how
         /\ legs'[c] = << >> /\ DOMAIN view'[c] = {} /\ written'[c] = {}
         /\ \A d \in Calls \ {c} : /\ legs'[d] = legs[d] /\ view'[d] = view[d]
                                   /\ written'[d] = written[d] /\ pc'[d] = pc[d]
         /\ \A cell \in Cells : lock'[cell] = IF lock[cell] = c THEN None ELSE lock[cell]
         /\ \A b \in Calls : billLock'[b] = IF billLock[b] = c THEN None ELSE billLock[b]
         /\ op' = op /\ recipe' = recipe
  BY DEF Typed, TypeOK, PrivateRows, End

\* The end of a transaction keeps the types.
LEMMA TypedEnd ==
  ASSUME Typed, NEW c \in Calls, NEW how \in {"committed", "failed"}, End(c, how),
         balance' \in [Cells -> BalanceRows], movements' \subseteq MovementRows,
         IsFiniteSet(movements'), cancelled' \subseteq Calls, pc[c] # "idle"
  PROVE  Typed'
  <1> USE DEF Typed
  <1>1. /\ pc' = [pc EXCEPT ![c] = how] /\ pc'[c] = how
        /\ legs'[c] = << >> /\ DOMAIN view'[c] = {} /\ written'[c] = {}
        /\ \A d \in Calls \ {c} : /\ legs'[d] = legs[d] /\ view'[d] = view[d]
                                  /\ written'[d] = written[d] /\ pc'[d] = pc[d]
        /\ \A cell \in Cells : lock'[cell] = IF lock[cell] = c THEN None ELSE lock[cell]
        /\ \A b \in Calls : billLock'[b] = IF billLock[b] = c THEN None ELSE billLock[b]
        /\ op' = op /\ recipe' = recipe
    BY EndIs
  <1>2. /\ legs' = [legs EXCEPT ![c] = << >>] /\ view' = [view EXCEPT ![c] = << >>]
        /\ written' = [written EXCEPT ![c] = {}]
        /\ lock' = [cell \in Cells |-> IF lock[cell] = c THEN None ELSE lock[cell]]
        /\ billLock' = [b \in Calls |-> IF billLock[b] = c THEN None ELSE billLock[b]]
    BY DEF End
  <1>3. TypeOK'
    <2>1. \A d \in Calls : DOMAIN view'[d] = {cell \in Cells : lock'[cell] = d}
      <3>1. DOMAIN view'[c] = {cell \in Cells : lock'[cell] = c}
        <4>1. \A cell \in Cells : lock'[cell] # c
          BY <1>1, NoneIsNoCall
        <4>2. DOMAIN view'[c] = {}
          BY <1>1
        <4> QED BY <4>1, <4>2
      <3>2. \A d \in Calls \ {c} : DOMAIN view'[d] = {cell \in Cells : lock'[cell] = d}
        <4>1. \A d \in Calls \ {c} : \A cell \in Cells : lock'[cell] = d <=> lock[cell] = d
          BY <1>1, NoneIsNoCall
        <4>2. \A d \in Calls \ {c} : DOMAIN view'[d] = {cell \in Cells : lock[cell] = d}
          <5>1. \A d \in Calls \ {c} : view'[d] = view[d]
            BY <1>1
          <5>2. \A d \in Calls : DOMAIN view[d] = {cell \in Cells : lock[cell] = d}
            BY DEF TypeOK
          <5> QED BY <5>1, <5>2
        <4> QED BY <4>1, <4>2
      <3> QED BY <3>1, <3>2
    <2>2. pc' \in [Calls -> {"idle", "checked", "moving", "committed", "failed"}]
      BY <1>1 DEF TypeOK
    <2>3. lock' \in [Cells -> Calls \cup {None}] /\ billLock' \in [Calls -> Calls \cup {None}]
      BY <1>2 DEF TypeOK
    <2> QED BY <1>1, <2>1, <2>2, <2>3 DEF TypeOK, BalanceRows, MovementRows, LegKinds
  <1>4. PrivateRows'
    <2>1. legs' \in [Calls -> Seq(LegRows)] /\ written' \in [Calls -> SUBSET MovementRows]
      BY <1>2 DEF PrivateRows
    <2>2. view' = [d \in Calls |-> view'[d]]
      BY <1>2 DEF PrivateRows
    <2>3. view'[c] \in [DOMAIN view'[c] -> BalanceRows]
      <3>1. view'[c] = << >> /\ \A x \in DOMAIN << >> : FALSE
        BY <1>1, <1>2 DEF PrivateRows
      <3> QED BY <3>1
    <2>4. IsFiniteSet(written'[c])
      BY <1>1, FS_EmptySet
    <2> QED BY <1>1, <2>1, <2>2, <2>3, <2>4 DEF PrivateRows
  <1>5. OnlyMoving'
    BY <1>1 DEF OnlyMoving
  <1>6. LegsFit'
    BY <1>1 DEF LegsFit
  <1> QED BY <1>3, <1>4, <1>5, <1>6

\* Rolling back is ending with the stock as it was.
RolledBack(c) == pc[c] \in {"checked", "moving"} /\ End(c, "failed") /\ UNCHANGED stock

\* A refusal, a failure and a broken circle roll back.
LEMMA Rollbacks ==
  ASSUME NEW c \in Calls, Refuse(c) \/ Fail(c) \/ BreakCircle(c)
  PROVE  RolledBack(c)
  BY DEF Refuse, Fail, BreakCircle, Circles, WaitsFor, RolledBack

\* Every step keeps the types.
LEMMA TypedNext ==
  ASSUME Typed, [Next]_vars
  PROVE  Typed'
  <1>1. CASE \E c \in Calls, r \in Requests : Begin(c, r)
    BY <1>1, TypedBegin
  <1>2. CASE \E c \in Calls : LockBill(c)
    BY <1>2, TypedLockBill
  <1>3. CASE \E c \in Calls : Move(c)
    BY <1>3, TypedMove
  <1>4. CASE \E c \in Calls : Commit(c)
    <2>1. PICK c \in Calls : Commit(c)
      BY <1>4
    <2>2. balance' \in [Cells -> BalanceRows]
      BY <2>1, SeenIs DEF Commit
    <2>3. movements' \subseteq MovementRows /\ IsFiniteSet(movements')
      BY <2>1, FS_Union DEF Commit, Typed, TypeOK, PrivateRows, MovementRows, LegKinds
    <2>4. cancelled' \subseteq Calls
      <3>1. op[c] \in Requests
        BY <2>1 DEF Commit, Typed, OnlyMoving
      <3> QED BY <2>1, <3>1, RequestIs DEF Commit, Typed, TypeOK
    <2> QED BY <2>1, <2>2, <2>3, <2>4, TypedEnd DEF Commit
  <1>5. CASE \E c \in Calls : Refuse(c) \/ Fail(c) \/ BreakCircle(c)
    <2>1. PICK c \in Calls : RolledBack(c)
      BY <1>5, Rollbacks
    <2> QED BY <2>1, TypedEnd
            DEF RolledBack, stock, Typed, TypeOK, PrivateRows, BalanceRows, MovementRows, LegKinds
  <1>6. CASE EditRecipe
    BY <1>6 DEF EditRecipe, Typed, TypeOK, PrivateRows, OnlyMoving, LegsFit, stock
  <1>7. CASE UNCHANGED vars
    BY <1>7 DEF vars, Typed, TypeOK, PrivateRows, OnlyMoving, LegsFit, stock
  <1> QED BY <1>1, <1>2, <1>3, <1>4, <1>5, <1>6, <1>7 DEF Next, Advance, AllEnded

\* The first state has the types.
LEMMA TypedInit == Init => Typed
  <1> SUFFICES ASSUME Init PROVE Typed
    OBVIOUS
  <1>1. TypeOK
    BY NoneIsNoCall DEF Init, TypeOK
  <1>2. PrivateRows
    <2>1. \A c \in Calls : view[c] = << >> /\ DOMAIN view[c] = {}
      BY DEF Init
    <2>2. \A c \in Calls : view[c] \in [DOMAIN view[c] -> BalanceRows]
      <3>1. << >> \in [DOMAIN << >> -> BalanceRows]
        <4>1. \A x \in DOMAIN << >> : FALSE
          OBVIOUS
        <4> QED BY <4>1
      <3> QED BY <2>1, <3>1
    <2> QED BY <2>2, FS_EmptySet DEF Init, PrivateRows
  <1>3. OnlyMoving
    BY DEF Init, OnlyMoving
  <1>4. LegsFit
    BY DEF Init, LegsFit
  <1> QED BY <1>1, <1>2, <1>3, <1>4 DEF Typed

\* Rows, locks, requests and transactions have their types, and a transaction's own
\* view of the balances has exactly the rows it locked (inventory-balance.service.ts
\* lockBalance).
THEOREM StockTyped == Spec => []TypeOK
  <1>1. Typed /\ [Next]_vars => Typed'
    BY TypedNext
  <1>2. Typed => TypeOK
    BY DEF Typed
  <1> QED BY TypedInit, <1>1, <1>2, PTL DEF Spec

-----------------------------------------------------------------------------
(***************************************************************************)
(* Balances.                                                               *)
(***************************************************************************)
Qty == [m \in MovementRows |-> m.qty]

\* The total of movement rows is a sum of a function of the row.
LEMMA TotalIs ==
  ASSUME NEW rows \in SUBSET MovementRows
  PROVE  Total(rows) = Sum(Qty, rows)
  <1>1. \A r \in rows : Qty[r] = r.qty
    BY DEF Qty
  <1>2. Quantities(rows) = Sum(Qty, rows)
    BY <1>1, QuantitiesSum
  <1> QED BY <1>2 DEF Total, Quantities

\* Totals of movement rows.
LEMMA Totals ==
  ASSUME NEW rows \in SUBSET MovementRows, IsFiniteSet(rows)
  PROVE  /\ Total(rows) \in Int /\ Total({}) = 0
         /\ \A m \in MovementRows \ rows : Total(rows \cup {m}) = m.qty + Total(rows)
         /\ \A m \in MovementRows : Total({m}) = m.qty
  <1>1. \A m \in MovementRows : Qty[m] \in Int /\ Qty[m] = m.qty
    BY DEF Qty, MovementRows
  <1>2. Total(rows) \in Int
    <2>1. \A m \in rows : Qty[m] \in Int
      BY <1>1
    <2> QED BY <2>1, SumType, TotalIs
  <1>3. Total({}) = 0
    BY SumEmpty, TotalIs
  <1>4. ASSUME NEW s \in SUBSET MovementRows, IsFiniteSet(s), NEW m \in MovementRows, m \notin s
        PROVE  Total(s \cup {m}) = m.qty + Total(s)
    <2>1. Total(s \cup {m}) = Sum(Qty, s \cup {m}) /\ Total(s) = Sum(Qty, s)
      BY <1>4, TotalIs
    <2>2. \A x \in s \cup {m} : Qty[x] \in Int
      BY <1>1, <1>4
    <2>3. Sum(Qty, s \cup {m}) = Qty[m] + Sum(Qty, s)
      BY <1>4, <2>2, SumAdd
    <2> QED BY <1>1, <2>1, <2>3
  <1>5. ASSUME NEW m \in MovementRows PROVE Total({m}) = m.qty
    <2>1. Total({} \cup {m}) = m.qty + Total({})
      BY <1>4, FS_EmptySet
    <2>2. {} \cup {m} = {m} /\ m.qty \in Int
      BY DEF MovementRows
    <2> QED BY <1>3, <2>1, <2>2
  <1> QED BY <1>2, <1>3, <1>4, <1>5

\* Rows committed together add to what was there.
LEMMA TotalUnion ==
  ASSUME NEW rows \in SUBSET MovementRows, IsFiniteSet(rows),
         NEW more \in SUBSET MovementRows, IsFiniteSet(more), rows \cap more = {}
  PROVE  Total(rows \cup more) = Total(rows) + Total(more)
  <1>1. \A x \in rows \cup more : Qty[x] \in Int
    BY DEF Qty, MovementRows
  <1>2. Sum(Qty, rows \cup more) = Sum(Qty, rows) + Sum(Qty, more)
    BY <1>1, SumUnion
  <1> QED BY <1>2, TotalIs

\* An average of two prices in range is in range.
LEMMA FairAverage ==
  ASSUME NEW old \in BalanceRows, NEW qty \in Nat \ {0}, NEW cost \in Nat,
         Fair(old.avg), Fair(cost)
  PROVE  Fair(AverageAfter(old, qty, cost))
  <1>1. PICK d \in {0} \cup {l.cost : l \in Lots} : old.avg \in 0 .. d
    BY DEF Fair
  <1>2. PICK e \in {0} \cup {l.cost : l \in Lots} : cost \in 0 .. e
    BY DEF Fair
  <1>3. d \in Nat /\ e \in Nat
    BY QuantitiesType
  <1>4. CASE d <= e
    <2>1. old.avg <= e /\ cost <= e
      BY <1>1, <1>2, <1>3, <1>4
    <2>2. AverageAfter(old, qty, cost) \in Nat /\ AverageAfter(old, qty, cost) <= e
      BY <1>3, <2>1, AverageIs
    <2> QED BY <1>3, <2>2 DEF Fair
  <1>5. CASE e <= d
    <2>1. old.avg <= d /\ cost <= d
      BY <1>1, <1>2, <1>3, <1>5
    <2>2. AverageAfter(old, qty, cost) \in Nat /\ AverageAfter(old, qty, cost) <= d
      BY <1>3, <2>1, AverageIs
    <2> QED BY <1>3, <2>2 DEF Fair
  <1> QED BY <1>3, <1>4, <1>5

Balanced == InBooks /\ CommittedOnly /\ AveragesFair /\ BalanceIsSumOfMovements

\* A leg leaves an average in range.
LEMMA FairAfter ==
  ASSUME Typed, AveragesFair, NEW c \in Calls, legs[c] # << >>, NEW old \in BalanceRows, Fair(old.avg)
  PROVE  Fair(AfterLeg(legs[c][1], old, view[c]).avg)
  <1> DEFINE leg == legs[c][1]
  <1>1. /\ leg \in LegRows
        /\ leg.kind = "receive" => \E l \in Lots : leg.qty = l.qty /\ leg.cost = l.cost
        /\ leg.kind = "carry" => leg.qty = 1 /\ leg.cost \in DOMAIN view[c]
    BY LegToDo
  <1> HIDE DEF leg
  <1>2. leg.kind \in LegKinds /\ old = [qty |-> old.qty, avg |-> old.avg]
    BY <1>1 DEF LegRows, BalanceRows
  <1>3. CASE leg.kind \in {"sale", "return", "issue", "adjust"}
    <2>1. AfterLeg(leg, old, view[c]).avg = old.avg
      BY <1>2, <1>3 DEF AfterLeg
    <2> QED BY <2>1 DEF leg
  <1>4. CASE leg.kind = "receive"
    <2>1. leg.qty \in Nat \ {0} /\ leg.cost \in Nat /\ leg.cost \in {l.cost : l \in Lots}
      BY <1>1, <1>4, QuantitiesType
    <2>2. Fair(leg.cost)
      BY <2>1 DEF Fair
    <2>3. AfterLeg(leg, old, view[c]).avg = AverageAfter(old, leg.qty, leg.cost)
      BY <1>4 DEF AfterLeg
    <2> QED BY <2>1, <2>2, <2>3, FairAverage DEF leg
  <1>5. CASE leg.kind = "carry"
    <2> DEFINE cost == view[c][leg.cost].avg
    <2>1. leg.qty \in Nat \ {0} /\ cost \in Nat /\ Fair(cost)
      BY <1>1, <1>5 DEF AveragesFair, Typed, PrivateRows, BalanceRows
    <2>2. AfterLeg(leg, old, view[c]).avg = AverageAfter(old, leg.qty, cost)
      BY <1>5 DEF AfterLeg
    <2> HIDE DEF cost
    <2> QED BY <2>1, <2>2, FairAverage DEF leg
  <1> QED BY <1>2, <1>3, <1>4, <1>5 DEF LegKinds

\* A leg keeps the balances right.
LEMMA BalancedMove ==
  ASSUME Typed, Balanced, NEW c \in Calls, Move(c)
  PROVE  Balanced'
  <1> USE DEF Typed, Balanced
  <1>1. PICK leg \in LegRows, old \in BalanceRows, new \in BalanceRows, row \in MovementRows :
           Moved(c, leg, old, new, row)
    BY MoveIs
  <1>2. /\ leg = legs[c][1] /\ pc[c] = "moving" /\ legs[c] # << >>
        /\ old = Seen(c, leg.cell) /\ new = AfterLeg(leg, old, view[c])
        /\ row.by = c /\ row.nth = Cardinality(written[c]) /\ row.cell = leg.cell
        /\ row.qty = new.qty - old.qty
        /\ written' = [written EXCEPT ![c] = written[c] \cup {row}]
        /\ view' = [view EXCEPT ![c] =
              [cell \in DOMAIN view[c] \cup {leg.cell} |->
                  IF cell = leg.cell THEN new ELSE view[c][cell]]]
        /\ UNCHANGED <<balance, movements, pc>>
    BY <1>1 DEF Moved, stock
  <1>3. leg.cell \in Cells
    BY DEF LegRows
  <1>4. /\ view'[c] = [cell \in DOMAIN view[c] \cup {leg.cell} |->
                         IF cell = leg.cell THEN new ELSE view[c][cell]]
        /\ \A d \in Calls \ {c} : view'[d] = view[d] /\ written'[d] = written[d]
        /\ written'[c] = written[c] \cup {row}
    BY <1>2 DEF PrivateRows
  <1>5. written[c] \subseteq MovementRows /\ IsFiniteSet(written[c])
    BY DEF PrivateRows
  <1>6. row \notin written[c] /\ Cardinality(written'[c]) = Cardinality(written[c]) + 1
        /\ Cardinality(written[c]) \in Nat
    <2>1. \A m \in written[c] : m.nth < Cardinality(written[c])
      BY DEF InBooks
    <2>2. Cardinality(written[c]) \in Nat
      BY <1>5, FS_CardinalityType
    <2>3. row \notin written[c]
      BY <1>2, <2>1, <2>2
    <2> QED BY <1>4, <1>5, <2>2, <2>3, FS_AddElement
  <1>7. InBooks'
    <2>1. ASSUME NEW m \in written'[c]
          PROVE  m.by = c /\ m.nth < Cardinality(written'[c]) /\ m.cell \in DOMAIN view'[c]
      <3>1. CASE m = row
        BY <1>2, <1>4, <1>6, <3>1
      <3>2. CASE m \in written[c]
        <4>1. m.nth \in Nat
          BY <1>5, <3>2 DEF MovementRows
        <4> QED BY <1>4, <1>6, <3>2, <4>1 DEF InBooks
      <3> QED BY <1>4, <2>1, <3>1, <3>2
    <2>2. ASSUME NEW cell \in DOMAIN view'[c]
          PROVE  view'[c][cell].qty =
                    balance[cell].qty + Total({m \in written'[c] : m.cell = cell})
      <3> DEFINE before == {m \in written[c] : m.cell = cell}
      <3>1. before \subseteq MovementRows /\ IsFiniteSet(before)
        BY <1>5, FS_Subset
      <3>2. CASE cell # leg.cell
        <4>1. cell \in DOMAIN view[c] /\ view'[c][cell] = view[c][cell]
          BY <1>4, <2>2, <3>2
        <4>2. {m \in written'[c] : m.cell = cell} = before
          BY <1>2, <1>4, <3>2
        <4> QED BY <4>1, <4>2 DEF InBooks
      <3>3. CASE cell = leg.cell
        <4>1. view'[c][cell] = new
          BY <1>4, <3>3
        <4>2. {m \in written'[c] : m.cell = cell} = before \cup {row} /\ row \notin before
          BY <1>2, <1>4, <1>6, <3>3
        <4>3. Total(before \cup {row}) = row.qty + Total(before) /\ Total(before) \in Int
          <5> HIDE DEF before
          <5> QED BY <3>1, <4>2, Totals
        <4>4. old.qty = balance[cell].qty + Total(before)
          <5>1. CASE cell \in DOMAIN view[c]
            BY <1>2, <3>3, <5>1 DEF Seen, InBooks
          <5>2. CASE cell \notin DOMAIN view[c]
            <6>1. before = {}
              BY <5>2 DEF InBooks
            <6>2. Total(before) = 0
              BY <6>1, FS_EmptySet, Totals
            <6>3. old = balance[cell] /\ balance[cell].qty \in Int
              BY <1>2, <1>3, <3>3, <5>2 DEF Seen, TypeOK
            <6> QED BY <6>2, <6>3
          <5> QED BY <5>1, <5>2
        <4>5. new.qty \in Int /\ old.qty \in Int /\ balance[cell].qty \in Int
          BY <1>3, <3>3 DEF BalanceRows, TypeOK
        <4> HIDE DEF before
        <4>6. new.qty = balance[cell].qty + Total(before \cup {row})
          BY <1>2, <4>3, <4>4, <4>5
        <4> QED BY <4>1, <4>2, <4>6
      <3> QED BY <3>2, <3>3
    <2>3. ASSUME NEW d \in Calls, d # c
          PROVE  /\ \A m \in written'[d] : m.by = d /\ m.nth < Cardinality(written'[d])
                 /\ \A m \in written'[d] : m.cell \in DOMAIN view'[d]
                 /\ \A cell \in DOMAIN view'[d] :
                       view'[d][cell].qty =
                          balance'[cell].qty + Total({m \in written'[d] : m.cell = cell})
      <3>1. view'[d] = view[d] /\ written'[d] = written[d] /\ balance' = balance
        BY <1>2, <1>4, <2>3
      <3> QED BY <3>1 DEF InBooks
    <2>4. balance' = balance
      BY <1>2
    <2> QED BY <2>1, <2>2, <2>3, <2>4 DEF InBooks
  <1>8. CommittedOnly'
    BY <1>2 DEF CommittedOnly
  <1>9. AveragesFair'
    <2>1. Fair(old.avg)
      BY <1>2, <1>3 DEF Seen, AveragesFair
    <2>2. Fair(new.avg)
      BY <1>2, <2>1, FairAfter
    <2>3. \A cell \in DOMAIN view'[c] : Fair(view'[c][cell].avg)
      BY <1>4, <2>2 DEF AveragesFair
    <2> QED BY <1>2, <1>4, <2>3 DEF AveragesFair, Fair
  <1>10. BalanceIsSumOfMovements'
    BY <1>2 DEF BalanceIsSumOfMovements
  <1> QED BY <1>7, <1>8, <1>9, <1>10

\* A commit keeps the balances right: the rows it writes are locked.
LEMMA BalancedCommit ==
  ASSUME Typed, Balanced, NEW c \in Calls, Commit(c)
  PROVE  Balanced'
  <1> USE DEF Typed, Balanced
  <1>1. /\ pc[c] = "moving" /\ End(c, "committed")
        /\ balance' = [cell \in Cells |-> Seen(c, cell)]
        /\ movements' = movements \cup written[c]
    BY DEF Commit
  <1>2. /\ pc' = [pc EXCEPT ![c] = "committed"] /\ pc'[c] = "committed"
        /\ DOMAIN view'[c] = {} /\ written'[c] = {}
        /\ \A d \in Calls \ {c} : view'[d] = view[d] /\ written'[d] = written[d] /\ pc'[d] = pc[d]
    BY <1>1, EndIs
  <1>3. \A d \in Calls \ {c} : \A cell \in DOMAIN view[d] :
           cell \in Cells /\ cell \notin DOMAIN view[c]
    BY DEF TypeOK
  <1>4. \A d \in Calls \ {c} : \A cell \in DOMAIN view[d] : balance'[cell] = balance[cell]
    BY <1>1, <1>3 DEF Seen
  <1>5. InBooks'
    BY <1>2, <1>4 DEF InBooks
  <1>6. CommittedOnly'
    <2>1. \A m \in movements : m.by \in Calls /\ pc'[m.by] = "committed"
      BY <1>2 DEF CommittedOnly, TypeOK
    <2>2. \A m \in written[c] : pc'[m.by] = "committed"
      BY <1>2 DEF InBooks
    <2> QED BY <1>1, <2>1, <2>2 DEF CommittedOnly
  <1>7. AveragesFair'
    <2>1. \A cell \in Cells : Fair(balance'[cell].avg)
      BY <1>1 DEF Seen, AveragesFair
    <2>2. \A d \in Calls : \A cell \in DOMAIN view'[d] : Fair(view'[d][cell].avg)
      BY <1>2 DEF AveragesFair
    <2> QED BY <2>1, <2>2 DEF AveragesFair, Fair
  <1>8. BalanceIsSumOfMovements'
    <2> SUFFICES ASSUME NEW cell \in Cells
                 PROVE  balance'[cell].qty = Total({m \in movements' : m.cell = cell})
      BY DEF BalanceIsSumOfMovements
    <2> DEFINE before == {m \in movements : m.cell = cell}
    <2> DEFINE more == {m \in written[c] : m.cell = cell}
    <2>1. /\ before \subseteq MovementRows /\ IsFiniteSet(before)
          /\ more \subseteq MovementRows /\ IsFiniteSet(more)
      <3>1. movements \subseteq MovementRows /\ written[c] \subseteq MovementRows
        BY DEF TypeOK, PrivateRows, MovementRows, LegKinds
      <3> QED BY <3>1, FS_Subset DEF PrivateRows
    <2>2. before \cap more = {}
      BY <1>1 DEF CommittedOnly, InBooks
    <2>3. {m \in movements' : m.cell = cell} = before \cup more
      BY <1>1
    <2>4. balance[cell].qty = Total(before)
      BY DEF BalanceIsSumOfMovements
    <2>5. balance'[cell] = Seen(c, cell)
      BY <1>1
    <2>6. CASE cell \in DOMAIN view[c]
      <3>1. balance'[cell].qty = balance[cell].qty + Total(more)
        BY <2>5, <2>6 DEF Seen, InBooks
      <3> HIDE DEF before, more
      <3> QED BY <2>1, <2>2, <2>3, <2>4, <3>1, TotalUnion
    <2>7. CASE cell \notin DOMAIN view[c]
      <3>1. balance'[cell].qty = balance[cell].qty
        BY <2>5, <2>7 DEF Seen
      <3>2. more = {}
        BY <2>7 DEF InBooks
      <3>3. before \cup more = before
        BY <3>2
      <3> HIDE DEF before, more
      <3> QED BY <2>3, <2>4, <3>1, <3>3
    <2> QED BY <2>6, <2>7
  <1> QED BY <1>5, <1>6, <1>7, <1>8

\* Every step keeps the balances right.
LEMMA BalancedNext ==
  ASSUME Typed, Balanced, [Next]_vars
  PROVE  Balanced'
  <1> USE DEF Balanced
  <1>1. CASE \E c \in Calls, r \in Requests : Begin(c, r)
    <2>1. PICK c \in Calls, r \in Requests : Begin(c, r)
      BY <1>1
    <2>2. /\ UNCHANGED <<balance, movements, view, written>>
          /\ pc[c] = "idle" /\ pc' \in [Calls -> {pc'[d] : d \in Calls}]
          /\ \A d \in Calls \ {c} : pc'[d] = pc[d]
      BY <2>1 DEF Begin, stock, Typed, TypeOK
    <2>3. CommittedOnly'
      BY <2>2 DEF CommittedOnly, Typed, TypeOK
    <2> QED BY <2>2, <2>3 DEF InBooks, AveragesFair, Fair, BalanceIsSumOfMovements
  <1>2. CASE \E c \in Calls : LockBill(c)
    <2>1. PICK c \in Calls : LockBill(c)
      BY <1>2
    <2>2. /\ UNCHANGED <<balance, movements, view, written>>
          /\ pc[c] = "checked" /\ \A d \in Calls \ {c} : pc'[d] = pc[d]
      BY <2>1 DEF LockBill, stock, Typed, TypeOK
    <2>3. CommittedOnly'
      BY <2>2 DEF CommittedOnly, Typed, TypeOK
    <2> QED BY <2>2, <2>3 DEF InBooks, AveragesFair, Fair, BalanceIsSumOfMovements
  <1>3. CASE \E c \in Calls : Move(c)
    BY <1>3, BalancedMove
  <1>4. CASE \E c \in Calls : Commit(c)
    BY <1>4, BalancedCommit
  <1>5. CASE \E c \in Calls : Refuse(c) \/ Fail(c) \/ BreakCircle(c)
    <2>1. PICK c \in Calls : RolledBack(c)
      BY <1>5, Rollbacks
    <2>2. /\ DOMAIN view'[c] = {} /\ written'[c] = {}
          /\ \A d \in Calls \ {c} : view'[d] = view[d] /\ written'[d] = written[d] /\ pc'[d] = pc[d]
          /\ UNCHANGED <<balance, movements>> /\ pc[c] # "committed"
      BY <2>1, EndIs DEF RolledBack, stock
    <2>3. CommittedOnly'
      BY <2>2 DEF CommittedOnly, Typed, TypeOK
    <2>4. InBooks'
      BY <2>2 DEF InBooks
    <2>5. AveragesFair'
      BY <2>2 DEF AveragesFair, Fair
    <2>6. BalanceIsSumOfMovements'
      BY <2>2 DEF BalanceIsSumOfMovements
    <2> QED BY <2>3, <2>4, <2>5, <2>6
  <1>6. CASE EditRecipe
    BY <1>6 DEF EditRecipe, stock, InBooks, CommittedOnly, AveragesFair, Fair, BalanceIsSumOfMovements
  <1>7. CASE UNCHANGED vars
    BY <1>7 DEF vars, stock, InBooks, CommittedOnly, AveragesFair, Fair, BalanceIsSumOfMovements
  <1> QED BY <1>1, <1>2, <1>3, <1>4, <1>5, <1>6, <1>7 DEF Next, Advance, AllEnded

\* The balances start right.
LEMMA BalancedInit == Init => Balanced
  <1> SUFFICES ASSUME Init PROVE Balanced
    OBVIOUS
  <1>1. \A c \in Calls : view[c] = << >> /\ DOMAIN view[c] = {} /\ written[c] = {}
    BY DEF Init
  <1>2. Fair(0)
    BY DEF Fair
  <1>3. \A cell \in Cells : balance[cell].qty = 0 /\ balance[cell].avg = 0
    BY DEF Init
  <1>4. \A cell \in Cells : {m \in movements : m.cell = cell} = {}
    BY DEF Init
  <1>5. Total({}) = 0
    BY Totals, FS_EmptySet
  <1>6. BalanceIsSumOfMovements
    BY <1>3, <1>4, <1>5 DEF BalanceIsSumOfMovements
  <1> QED BY <1>1, <1>2, <1>3, <1>6
          DEF Init, Balanced, InBooks, CommittedOnly, AveragesFair

\* Every balance row is the sum of its committed movements, whatever transactions are half
\* done, and no average leaves the range of the prices paid (inventory-balance.service.ts
\* applyDelta, applyConsumption, setCounted).
THEOREM BalancesAlwaysAddUp == Spec => []BalancesAddUp
  <1>1. Typed /\ Balanced /\ [Next]_vars => Typed' /\ Balanced'
    BY TypedNext, BalancedNext
  <1>2. Typed /\ Balanced => BalancesAddUp
    BY DEF Balanced, BalancesAddUp, AveragesFair, Fair, AverageWithinPrices
  <1> QED BY TypedInit, BalancedInit, <1>1, <1>2, PTL DEF Spec

-----------------------------------------------------------------------------
(***************************************************************************)
(* Bills and their cancels.                                                *)
(***************************************************************************)
Bills == Typed /\ Balanced /\ InOrder /\ BillRowsHeld /\ BillMovements /\ TakingBack /\ TakenBack

\* A call that is past its first step keeps its request, and a sold bill stays sold.
LEMMA RequestsStay ==
  ASSUME Typed, [Next]_vars
  PROVE  /\ \A c \in Calls : pc[c] # "idle" => op'[c] = op[c] /\ pc'[c] # "idle"
         /\ \A c \in Calls : pc[c] \in {"committed", "failed"} => pc'[c] = pc[c]
         /\ Sold \subseteq Sold'
  <1>1. /\ \A c \in Calls : pc[c] # "idle" => op'[c] = op[c] /\ pc'[c] # "idle"
        /\ \A c \in Calls : pc[c] \in {"committed", "failed"} => pc'[c] = pc[c]
    <2>1. CASE \E c \in Calls, r \in Requests : Begin(c, r)
      <3>1. PICK c \in Calls, r \in Requests : Begin(c, r)
        BY <2>1
      <3>2. /\ pc[c] = "idle" /\ op' = [op EXCEPT ![c] = r]
            /\ \A d \in Calls \ {c} : pc'[d] = pc[d]
        BY <3>1 DEF Begin, Typed, TypeOK
      <3> QED BY <3>2
    <2>2. CASE \E c \in Calls : LockBill(c)
      BY <2>2 DEF LockBill, Typed, TypeOK
    <2>3. CASE \E c \in Calls : Move(c)
      BY <2>3 DEF Move
    <2>4. CASE \E c \in Calls : Commit(c)
      <3>1. PICK c \in Calls : pc[c] = "moving" /\ End(c, "committed")
        BY <2>4 DEF Commit
      <3> QED BY <3>1, EndIs
    <2>5. CASE \E c \in Calls : Refuse(c) \/ Fail(c) \/ BreakCircle(c)
      <3>1. PICK c \in Calls : pc[c] \in {"checked", "moving"} /\ End(c, "failed")
        BY <2>5, Rollbacks DEF RolledBack
      <3> QED BY <3>1, EndIs
    <2>6. CASE EditRecipe
      BY <2>6 DEF EditRecipe
    <2>7. CASE UNCHANGED vars
      BY <2>7 DEF vars
    <2> QED BY <2>1, <2>2, <2>3, <2>4, <2>5, <2>6, <2>7 DEF Next, Advance, AllEnded
  <1> QED BY <1>1 DEF Sold

\* A sold bill's movements are its own, one for a cell of its branch.
LEMMA SoldRows ==
  ASSUME Bills, NEW b \in Calls, NEW m \in Of("sale", b)
  PROVE  /\ m \in movements /\ m.kind = "sale" /\ m.bill = b /\ m.by = b
         /\ m.cell \in Cells /\ m.cell = <<op[b].branch, m.cell[2]>>
         /\ \A w \in Of("sale", b) : w.cell[2] = m.cell[2] => w = m
  <1>1. \A w \in Of("sale", b) :
           /\ w \in movements /\ w.kind = "sale" /\ w.bill = b /\ w.by \in Calls /\ w.cell \in Cells
    BY DEF Of, Bills, Typed, TypeOK
  <1>2. \A w \in Of("sale", b) : w.by = b /\ w.cell[1] = op[b].branch
    BY <1>1 DEF Bills, BillMovements
  <1>3. \A w \in Of("sale", b) : w.cell = <<op[b].branch, w.cell[2]>>
    BY <1>1, <1>2 DEF Cells
  <1>4. \A w \in Of("sale", b) : w.cell[2] = m.cell[2] => w = m
    BY <1>1, <1>3 DEF Bills, BillMovements
  <1> QED BY <1>1, <1>2, <1>3, <1>4

\* A step of one call.
StepOf(c) ==
    \/ \E r \in Requests : Begin(c, r)
    \/ LockBill(c) \/ Move(c) \/ Commit(c) \/ RolledBack(c)

\* Every other step leaves the calls and the stock alone.
Quiet == UNCHANGED <<balance, movements, cancelled, lock, billLock, pc, op, legs, view, written>>

\* A step is one call's, or touches neither calls nor stock.
LEMMA Steps == [Next]_vars => (\E c \in Calls : StepOf(c)) \/ Quiet
  <1>1. EditRecipe \/ UNCHANGED vars => Quiet
    BY DEF EditRecipe, vars, stock, Quiet
  <1> QED BY <1>1, Rollbacks DEF Next, Advance, AllEnded, StepOf

\* A step of one call leaves the others alone.
LEMMA OthersStay ==
  ASSUME Typed, NEW c \in Calls, StepOf(c)
  PROVE  \A d \in Calls \ {c} :
            /\ pc'[d] = pc[d] /\ op'[d] = op[d] /\ legs'[d] = legs[d]
            /\ view'[d] = view[d] /\ written'[d] = written[d]
  <1> USE DEF Typed
  <1>1. ASSUME NEW r \in Requests, Begin(c, r), NEW d \in Calls \ {c}
        PROVE  /\ pc'[d] = pc[d] /\ op'[d] = op[d] /\ legs'[d] = legs[d]
               /\ view'[d] = view[d] /\ written'[d] = written[d]
    <2>1. legs' = legs \/ legs' = [legs EXCEPT ![c] = LegsOf(r)]
      BY <1>1 DEF Begin
    <2>2. legs'[d] = legs[d]
      BY <2>1 DEF PrivateRows
    <2> QED BY <1>1, <2>2 DEF Begin, TypeOK
  <1>2. CASE LockBill(c)
    BY <1>2 DEF LockBill, TypeOK, PrivateRows
  <1>3. CASE Move(c)
    <2>1. PICK leg \in LegRows, old \in BalanceRows, new \in BalanceRows, row \in MovementRows :
             Moved(c, leg, old, new, row)
      BY <1>3, MoveIs
    <2> QED BY <2>1 DEF Moved, PrivateRows
  <1>4. CASE Commit(c) \/ RolledBack(c)
    <2>1. PICK how : End(c, how)
      BY <1>4 DEF Commit, RolledBack
    <2> QED BY <2>1, EndIs
  <1> QED BY <1>1, <1>2, <1>3, <1>4 DEF StepOf

\* What the end of a call does.
LEMMA EndOf ==
  ASSUME Typed, NEW c \in Calls, Commit(c) \/ RolledBack(c)
  PROVE  /\ pc[c] \in {"checked", "moving"} /\ pc'[c] \in {"committed", "failed"}
         /\ legs'[c] = << >> /\ DOMAIN view'[c] = {} /\ written'[c] = {} /\ op' = op
         /\ \A b \in Calls : billLock'[b] = IF billLock[b] = c THEN None ELSE billLock[b]
         /\ RolledBack(c) => movements' = movements /\ cancelled' = cancelled
                             /\ pc'[c] = "failed"
  BY EndIs DEF Commit, RolledBack, stock

\* What Begin does to a call.
LEMMA BeginIs ==
  ASSUME Typed, NEW c \in Calls, NEW r \in Requests, Begin(c, r)
  PROVE  /\ pc[c] = "idle" /\ op'[c] = r
         /\ DOMAIN view'[c] = {} /\ written'[c] = {}
         /\ r.kind = "cancel" => pc'[c] = "checked" /\ legs'[c] = << >>
                                 /\ r.bill \in Sold \ cancelled
         /\ r.kind # "cancel" => pc'[c] = "moving" /\ legs'[c] = LegsOf(r)
         /\ UNCHANGED <<movements, cancelled, billLock>>
  BY DEF Begin, Typed, TypeOK, PrivateRows, OnlyMoving, stock

\* What LockBill does to a call.
LEMMA LockBillIs ==
  ASSUME Typed, NEW c \in Calls, LockBill(c)
  PROVE  /\ pc[c] = "checked" /\ pc'[c] = "moving" /\ op' = op
         /\ op[c] \in Requests /\ op[c].kind = "cancel" /\ op[c].bill \in Calls
         /\ legs'[c] = CancelLegs(op[c].bill) /\ DOMAIN view'[c] = {} /\ written'[c] = {}
         /\ billLock[op[c].bill] = None
         /\ billLock' = [billLock EXCEPT ![op[c].bill] = c]
         /\ UNCHANGED <<movements, cancelled>>
  <1>1. op[c] \in Requests /\ op[c].kind = "cancel"
    BY DEF LockBill, Typed, OnlyMoving
  <1> QED BY <1>1, RequestIs DEF LockBill, Typed, TypeOK, PrivateRows, OnlyMoving, stock

\* The branch of a bill in progress stays.
LEMMA BranchStays ==
  ASSUME Bills, [Next]_vars, NEW c \in Calls, pc[c] # "idle", op[c].kind \in {"sale", "cancel"}
  PROVE  BranchOf(c)' = BranchOf(c)
  <1>1. op'[c] = op[c]
    BY RequestsStay DEF Bills
  <1>2. op[c].kind = "cancel" => op[c].bill \in Calls /\ pc[op[c].bill] # "idle"
    BY DEF Bills, BillRowsHeld, Sold
  <1>3. op[c].kind = "cancel" => op'[op[c].bill] = op[op[c].bill]
    BY <1>2, RequestsStay DEF Bills
  <1> QED BY <1>1, <1>3 DEF BranchOf

\* Every step keeps the order of the locks.
LEMMA InOrderNext ==
  ASSUME Bills, [Next]_vars
  PROVE  InOrder'
  <1> SUFFICES ASSUME NEW d \in Calls
               PROVE  OrderOf(d)'
    BY DEF InOrder
  <1> Typed
    BY DEF Bills
  <1>1. ASSUME pc'[d] = pc[d], op'[d] = op[d], legs'[d] = legs[d], view'[d] = view[d]
        PROVE  OrderOf(d)'
    <2>1. CASE pc[d] = "moving" /\ op[d].kind \in {"sale", "cancel"}
      <3>1. BranchOf(d)' = BranchOf(d)
        BY <2>1, BranchStays
      <3> QED BY <1>1, <2>1, <3>1 DEF Bills, InOrder, OrderOf
    <2>2. CASE ~(pc[d] = "moving" /\ op[d].kind \in {"sale", "cancel"})
      BY <1>1, <2>2 DEF Bills, InOrder, OrderOf
    <2> QED BY <2>1, <2>2
  <1>2. CASE Quiet
    BY <1>1, <1>2 DEF Quiet
  <1>3. ASSUME NEW c \in Calls, StepOf(c), d # c
        PROVE  OrderOf(d)'
    BY <1>1, <1>3, OthersStay
  <1>4. ASSUME NEW r \in Requests, Begin(d, r)
        PROVE  OrderOf(d)'
    <2>1. /\ op'[d] = r /\ DOMAIN view'[d] = {}
          /\ r.kind = "cancel" => pc'[d] = "checked"
          /\ r.kind # "cancel" => legs'[d] = LegsOf(r)
      BY <1>4, BeginIs
    <2>2. CASE r.kind = "sale"
      <3>1. legs'[d] = SaleLegs(r.branch) /\ r.branch \in Branches
        BY <2>1, <2>2, RequestIs DEF LegsOf
      <3>2. BranchOf(d)' = r.branch
        BY <2>1, <2>2 DEF BranchOf
      <3>3. TypeOK
        BY DEF Typed
      <3> QED BY <2>1, <2>2, <3>1, <3>2, <3>3, SaleLegsAre DEF OrderOf
    <2>3. CASE r.kind \in {"issue", "adjust"}
      <3>1. Len(legs'[d]) = 1
        BY <2>1, <2>3 DEF LegsOf
      <3> QED BY <2>1, <2>3, <3>1 DEF OrderOf
    <2>4. CASE r.kind \notin {"sale", "issue", "adjust"}
      BY <2>1, <2>4 DEF OrderOf
    <2> QED BY <2>2, <2>3, <2>4
  <1>5. CASE LockBill(d)
    <2> DEFINE b == op[d].bill
    <2>1. /\ op' = op /\ DOMAIN view'[d] = {} /\ op[d].kind = "cancel" /\ b \in Calls
          /\ legs'[d] = CancelLegs(b) /\ pc[d] = "checked"
      BY <1>5, LockBillIs
    <2>2. b \in Sold /\ op[b].kind = "sale"
      BY <2>1 DEF Bills, BillRowsHeld, Sold
    <2>3. BranchOf(d)' = op[b].branch
      BY <2>1, <2>2 DEF BranchOf
    <2>4. /\ \A n \in DOMAIN legs'[d] : \E m \in Of("sale", b) : legs'[d][n].cell = m.cell
          /\ \A m, n \in DOMAIN legs'[d] :
                m < n => Comes(legs'[d][m].cell[2], legs'[d][n].cell[2], IdOrder)
      <3>1. TypeOK
        BY DEF Typed
      <3> HIDE DEF b
      <3> QED BY <2>1, <3>1, CancelLegsAre DEF TakesBack
    <2>5. \A m \in Of("sale", b) : m.cell[1] = op[b].branch
      BY <2>1, SoldRows
    <2> HIDE DEF b
    <2> QED BY <2>1, <2>3, <2>4, <2>5 DEF OrderOf
  <1>6. CASE Move(d)
    <2>1. PICK leg \in LegRows, old \in BalanceRows, new \in BalanceRows, row \in MovementRows :
             Moved(d, leg, old, new, row)
      BY <1>6, MoveIs
    <2>2. /\ leg = legs[d][1] /\ pc[d] = "moving" /\ legs[d] # << >> /\ pc' = pc /\ op' = op
          /\ legs'[d] = Tail(legs[d]) /\ DOMAIN view'[d] = DOMAIN view[d] \cup {leg.cell}
      BY <2>1 DEF Moved, Typed, PrivateRows
    <2>3. legs[d] \in Seq(LegRows)
      BY DEF Typed, PrivateRows
    <2>4. /\ 1 \in DOMAIN legs[d] /\ Len(legs'[d]) = Len(legs[d]) - 1 /\ legs'[d] \in Seq(LegRows)
          /\ \A n \in DOMAIN legs'[d] :
                n \in Nat \ {0} /\ n + 1 \in DOMAIN legs[d] /\ legs'[d][n] = legs[d][n + 1]
      BY <2>2, <2>3, TailIs
    <2>5. CASE op[d].kind \in {"sale", "cancel"}
      <3>1. BranchOf(d)' = BranchOf(d)
        BY <2>2, <2>5, BranchStays
      <3>2. OrderOf(d)
        BY DEF Bills, InOrder
      <3>3. /\ \A n \in DOMAIN legs'[d] : legs'[d][n].cell[1] = BranchOf(d)
            /\ \A cell \in DOMAIN view'[d] : cell[1] = BranchOf(d)
        BY <2>2, <2>4, <2>5, <3>2 DEF OrderOf
      <3>4. \A m, n \in DOMAIN legs'[d] :
               m < n => Comes(legs'[d][m].cell[2], legs'[d][n].cell[2], IdOrder)
        BY <2>2, <2>4, <2>5, <3>2 DEF OrderOf
      <3>5. \A cell \in DOMAIN view'[d] : \A n \in DOMAIN legs'[d] :
               Comes(cell[2], legs'[d][n].cell[2], IdOrder)
        <4>1. \A n \in DOMAIN legs'[d] : Comes(leg.cell[2], legs'[d][n].cell[2], IdOrder)
          <5> TAKE n \in DOMAIN legs'[d]
          <5>1. 1 \in DOMAIN legs[d] /\ n + 1 \in DOMAIN legs[d] /\ 1 < n + 1
            BY <2>4
          <5>2. Comes(legs[d][1].cell[2], legs[d][n + 1].cell[2], IdOrder)
            BY <2>2, <2>5, <3>2, <5>1 DEF OrderOf
          <5> QED BY <2>2, <2>4, <5>2
        <4>2. \A cell \in DOMAIN view[d] : \A n \in DOMAIN legs'[d] :
                 Comes(cell[2], legs'[d][n].cell[2], IdOrder)
          BY <2>2, <2>4, <2>5, <3>2 DEF OrderOf
        <4> QED BY <2>2, <4>1, <4>2
      <3> QED BY <2>2, <2>5, <3>1, <3>3, <3>4, <3>5 DEF OrderOf
    <2>6. CASE op[d].kind \in {"issue", "adjust"}
      <3>1. Len(legs[d]) = 1
        BY <2>2, <2>6 DEF Bills, InOrder, OrderOf
      <3>2. legs'[d] = << >>
        BY <2>4, <3>1
      <3> QED BY <2>2, <2>6, <3>2 DEF OrderOf
    <2>7. CASE op[d].kind \notin {"sale", "cancel", "issue", "adjust"}
      BY <2>2, <2>7 DEF OrderOf
    <2> QED BY <2>5, <2>6, <2>7
  <1>7. CASE Commit(d) \/ RolledBack(d)
    BY <1>7, EndOf DEF OrderOf
  <1> QED BY <1>2, <1>3, <1>4, <1>5, <1>6, <1>7, Steps DEF StepOf

\* Every step keeps the bills' rows with their cancels.
LEMMA BillRowsNext ==
  ASSUME Bills, [Next]_vars
  PROVE  BillRowsHeld'
  <1> Typed
    BY DEF Bills
  <1>0. Sold \subseteq Sold'
    BY RequestsStay
  <1>1. ASSUME NEW c \in Calls, Commit(c)
        PROVE  cancelled' = IF op[c].kind = "cancel" THEN cancelled \cup {op[c].bill} ELSE cancelled
    BY <1>1 DEF Commit
  <1>2. cancelled' \subseteq Sold'
    <2>1. ASSUME NEW c \in Calls, StepOf(c)
          PROVE  cancelled' \subseteq Sold'
      <3>1. CASE cancelled' = cancelled
        BY <1>0, <3>1 DEF Bills, BillRowsHeld
      <3>2. CASE Commit(c)
        <4>1. op[c].kind = "cancel" => op[c].bill \in Sold
          BY <3>2 DEF Commit, Bills, BillRowsHeld
        <4> QED BY <1>0, <1>1, <3>2, <4>1 DEF Bills, BillRowsHeld
      <3>3. Commit(c) \/ cancelled' = cancelled
        BY <2>1 DEF StepOf, Begin, LockBill, Move, RolledBack, stock
      <3> QED BY <3>1, <3>2, <3>3
    <2> QED BY <1>0, <2>1, Steps DEF Quiet, Bills, BillRowsHeld
  <1>3. ASSUME NEW b \in Calls, billLock'[b] # None
        PROVE  LET c == billLock'[b]
               IN  pc'[c] = "moving" /\ op'[c].kind = "cancel" /\ op'[c].bill = b
    <2> DEFINE h == billLock[b]
    <2>1. ASSUME h # None
          PROVE  h \in Calls /\ pc[h] = "moving" /\ op[h].kind = "cancel" /\ op[h].bill = b
      BY <2>1 DEF Bills, BillRowsHeld, Typed, TypeOK
    <2>2. CASE Quiet
      BY <1>3, <2>1, <2>2 DEF Quiet
    <2>3. ASSUME NEW c \in Calls, StepOf(c), billLock'[b] = h, h # c
          PROVE  pc'[h] = "moving" /\ op'[h].kind = "cancel" /\ op'[h].bill = b
      BY <1>3, <2>1, <2>3, OthersStay
    <2>4. ASSUME NEW c \in Calls, StepOf(c)
          PROVE  LET e == billLock'[b]
                 IN  pc'[e] = "moving" /\ op'[e].kind = "cancel" /\ op'[e].bill = b
      <3>1. ASSUME NEW r \in Requests, Begin(c, r)
            PROVE  billLock'[b] = h /\ h # c
        BY <1>3, <2>1, <3>1, BeginIs
      <3>2. CASE LockBill(c)
        <4>1. CASE b = op[c].bill
          BY <3>2, <4>1, LockBillIs DEF Typed, TypeOK
        <4>2. CASE b # op[c].bill
          <5>1. billLock'[b] = h
            BY <3>2, <4>2, LockBillIs DEF Typed, TypeOK
          <5>2. h # c
            BY <1>3, <2>1, <3>2, <5>1, LockBillIs
          <5> QED BY <2>3, <2>4, <5>1, <5>2
        <4> QED BY <4>1, <4>2
      <3>3. CASE Move(c)
        BY <1>3, <2>1, <3>3 DEF Move
      <3>4. CASE Commit(c) \/ RolledBack(c)
        <4>1. billLock'[b] = h /\ h # c
          BY <1>3, <3>4, EndOf
        <4> QED BY <2>3, <2>4, <4>1
      <3> QED BY <2>3, <2>4, <3>1, <3>2, <3>3, <3>4 DEF StepOf
    <2> QED BY <2>2, <2>4, Steps
  <1>4. ASSUME NEW d \in Calls, pc'[d] # "idle", op'[d].kind = "cancel"
        PROVE  /\ op'[d].bill \in Sold'
               /\ pc'[d] = "moving" => billLock'[op'[d].bill] = d
               /\ pc'[d] = "committed" => op'[d].bill \in cancelled'
    <2>1. ASSUME pc[d] # "idle", op[d].kind = "cancel"
          PROVE  /\ op[d].bill \in Sold /\ op[d].bill \in Calls
                 /\ pc[d] = "moving" => billLock[op[d].bill] = d
                 /\ pc[d] = "committed" => op[d].bill \in cancelled
      BY <2>1 DEF Bills, BillRowsHeld, Sold
    <2>2. CASE Quiet
      BY <1>0, <1>4, <2>1, <2>2 DEF Quiet
    <2>3. ASSUME NEW c \in Calls, StepOf(c), d # c
          PROVE  /\ op'[d].bill \in Sold'
                 /\ pc'[d] = "moving" => billLock'[op'[d].bill] = d
                 /\ pc'[d] = "committed" => op'[d].bill \in cancelled'
      <3>1. pc'[d] = pc[d] /\ op'[d] = op[d]
        BY <2>3, OthersStay
      <3>2. cancelled \subseteq cancelled'
        BY <2>3 DEF StepOf, Begin, LockBill, Move, Commit, RolledBack, stock
      <3>3. ASSUME NEW b \in Calls, billLock[b] = d
            PROVE  billLock'[b] = d
        <4>1. CASE LockBill(c)
          BY <3>3, <4>1, LockBillIs, NoneIsNoCall DEF Typed, TypeOK
        <4>2. CASE Commit(c) \/ RolledBack(c)
          BY <2>3, <3>3, <4>2, EndOf
        <4>3. CASE ~(LockBill(c) \/ Commit(c) \/ RolledBack(c))
          BY <2>3, <3>3, <4>3 DEF StepOf, Begin, Move
        <4> QED BY <4>1, <4>2, <4>3
      <3> QED BY <1>0, <1>4, <2>1, <3>1, <3>2, <3>3
    <2>4. ASSUME NEW r \in Requests, Begin(d, r)
          PROVE  /\ op'[d].bill \in Sold'
                 /\ pc'[d] = "checked"
      BY <1>0, <1>4, <2>4, BeginIs
    <2>5. CASE LockBill(d)
      BY <1>0, <2>1, <2>5, LockBillIs DEF Typed, TypeOK
    <2>6. CASE Move(d)
      BY <1>0, <1>4, <2>1, <2>6 DEF Move
    <2>7. CASE Commit(d)
      <3>1. op' = op /\ pc[d] # "idle" /\ pc'[d] # "moving"
        BY <2>7, EndOf
      <3> QED BY <1>0, <1>1, <1>4, <2>1, <2>7, <3>1
    <2>8. CASE RolledBack(d)
      BY <1>0, <1>4, <2>1, <2>8, EndOf
    <2> QED BY <2>2, <2>3, <2>4, <2>5, <2>6, <2>7, <2>8, Steps DEF StepOf
  <1> QED BY <1>2, <1>3, <1>4 DEF BillRowsHeld

-----------------------------------------------------------------------------
(***************************************************************************)
(* Bills that wait.                                                        *)
(***************************************************************************)
\* A call that others wait for moves goods.
LEMMA AwaitedMoves ==
  ASSUME Bills, NEW c \in Calls, NEW d \in Calls, WaitsFor(c, d)
  PROVE  pc[d] = "moving"
  <1>1. CASE pc[c] = "checked" /\ billLock[op[c].bill] = d
    <2>1. op[c] \in Requests /\ op[c].kind = "cancel"
      BY <1>1 DEF Bills, Typed, OnlyMoving
    <2>2. op[c].bill \in Calls
      BY <2>1, RequestIs
    <2> QED BY <1>1, <2>2, NoneIsNoCall DEF Bills, BillRowsHeld
  <1>2. CASE pc[c] = "moving" /\ legs[c] # << >> /\ lock[Head(legs[c]).cell] = d
    <2>1. Head(legs[c]).cell \in Cells
      BY <1>2, LegToDo DEF Bills, LegRows
    <2>2. Head(legs[c]).cell \in DOMAIN view[d]
      BY <1>2, <2>1 DEF Bills, Typed, TypeOK
    <2> QED BY <2>2 DEF Bills, Typed, OnlyMoving
  <1> QED BY <1>1, <1>2 DEF WaitsFor

\* A circle without a receipt or a transfer cannot be: of the ingredients its members
\* wait for one comes last, and who holds that row waits for a later one.
LEMMA NoCircle ==
  ASSUME Bills
  PROVE  BillsNeverCircle
  <1> SUFFICES ASSUME NEW circle \in Circles,
                      \A c \in circle : op[c].kind \notin {"receive", "transfer"}
               PROVE  FALSE
    BY DEF BillsNeverCircle
  <1>1. /\ circle \subseteq Calls /\ circle # {}
        /\ \A c \in circle : \E d \in circle : WaitsFor(c, d)
    BY DEF Circles
  <1> DEFINE movers == {c \in circle : pc[c] = "moving"}
  <1>2. movers # {}
    BY <1>1, AwaitedMoves
  <1>3. ASSUME NEW c \in movers
        PROVE  /\ c \in Calls /\ legs[c] # << >> /\ Head(legs[c]) = legs[c][1]
               /\ legs[c][1].cell \in Cells /\ legs[c][1].cell[2] \in Ingredients
               /\ 1 \in DOMAIN legs[c]
               /\ op[c].kind \in {"sale", "cancel", "issue", "adjust"}
               /\ \E d \in movers : d # c /\ lock[legs[c][1].cell] = d
    <2>1. PICK d \in circle : WaitsFor(c, d)
      BY <1>1
    <2>2. c \in Calls /\ d \in movers
      BY <1>1, <2>1, AwaitedMoves
    <2>3. legs[c] # << >> /\ lock[Head(legs[c]).cell] = d /\ d # c
      BY <1>3, <2>1 DEF WaitsFor
    <2>4. Head(legs[c]) = legs[c][1] /\ legs[c][1] \in LegRows /\ op[c] \in Requests
      BY <2>2, <2>3, LegToDo DEF Bills
    <2>5. legs[c][1].cell \in Cells /\ legs[c][1].cell[2] \in Ingredients
      BY <2>4 DEF LegRows, Cells
    <2>6. 1 \in DOMAIN legs[c]
      BY <2>2, <2>3, TailIs DEF Bills, Typed, PrivateRows
    <2>7. op[c].kind \in {"sale", "cancel", "issue", "adjust"}
      BY <1>3, <2>4, RequestIs
    <2> QED BY <2>2, <2>3, <2>4, <2>5, <2>6, <2>7
  <1> HIDE DEF movers
  <1> DEFINE ids == {legs[c][1].cell[2] : c \in movers}
  <1>4. ids \subseteq Ingredients /\ ids # {}
    BY <1>2, <1>3
  <1>5. PICK last \in ids : \A i \in ids \ {last} : Comes(i, last, IdOrder)
    <2> HIDE DEF ids
    <2> QED BY <1>4, LastComes
  <1>6. PICK c \in movers : last = legs[c][1].cell[2]
    BY <1>5
  <1>7. PICK d \in movers : d # c /\ lock[legs[c][1].cell] = d
    BY <1>3
  <1>8. legs[c][1].cell \in DOMAIN view[d]
    BY <1>3, <1>7 DEF Bills, Typed, TypeOK
  <1>9. pc[d] = "moving" /\ d \in Calls
    BY <1>3 DEF movers
  <1>10. op[d].kind \in {"sale", "cancel"}
    BY <1>3, <1>8, <1>9 DEF Bills, InOrder, OrderOf
  <1>11. Comes(last, legs[d][1].cell[2], IdOrder)
    BY <1>3, <1>6, <1>8, <1>9, <1>10 DEF Bills, InOrder, OrderOf
  <1>12. legs[d][1].cell[2] \in ids
    OBVIOUS
  <1>13. Comes(legs[d][1].cell[2], last, IdOrder)
    <2>1. legs[d][1].cell[2] # last
      BY <1>11, ComesIs
    <2> QED BY <1>5, <1>12, <2>1
  <1>14. Comes(last, last, IdOrder)
    BY <1>11, <1>13, ComesIs
  <1> QED BY <1>14, ComesIs

-----------------------------------------------------------------------------
(***************************************************************************)
(* What a bill took and its cancel returns.                                *)
(***************************************************************************)
LEMMA AllReturned ==
  ASSUME Bills
  PROVE  ReturnsWhatItTook
  <1> SUFFICES ASSUME NEW b \in Sold, NEW cell \in Cells
               PROVE  Total({m \in Of("return", b) : m.cell = cell}) =
                         IF b \in cancelled THEN -Total({m \in Of("sale", b) : m.cell = cell})
                         ELSE 0
    BY DEF ReturnsWhatItTook
  <1> DEFINE out == {m \in Of("sale", b) : m.cell = cell}
  <1> DEFINE back == {m \in Of("return", b) : m.cell = cell}
  <1>1. Total({}) = 0 /\ \A m \in MovementRows : Total({m}) = m.qty
    BY Totals, FS_EmptySet
  <1>2. /\ \A m \in out : m \in MovementRows /\ m \in movements
        /\ \A m \in back : m \in MovementRows /\ m \in movements /\ m.kind = "return" /\ m.bill = b
    BY DEF Of, Bills, Typed, TypeOK, MovementRows, LegKinds
  <1>3. \A m, w \in out : m = w
    BY DEF Of, Bills, BillMovements
  <1>4. \A m, w \in back : m = w
    BY DEF Of, Bills, BillMovements
  <1>5. CASE b \notin cancelled
    <2>1. back = {}
      BY <1>2, <1>5 DEF Bills, BillMovements
    <2> QED BY <1>1, <1>5, <2>1
  <1>6. CASE b \in cancelled
    <2>1. /\ \A m \in out : \E r \in back : TakesBack(r, m)
          /\ \A r \in back : \E m \in out : TakesBack(r, m)
      BY <1>6 DEF Bills, TakenBack, TakesBack
    <2>2. CASE out = {}
      <3>1. back = {}
        BY <2>1, <2>2
      <3>2. Total(out) = 0 /\ Total(back) = 0
        BY <1>1, <2>2, <3>1
      <3>3. Total(back) = -Total(out)
        <4>1. \A x, y \in Int : x + y = 0 => y = -x
          OBVIOUS
        <4>2. Total(out) \in Int /\ Total(back) \in Int /\ Total(out) + Total(back) = 0
          BY <3>2
        <4> HIDE DEF out, back
        <4> QED BY <4>1, <4>2
      <3> QED BY <1>6, <3>3
    <2>3. CASE out # {}
      <3>1. PICK m \in out : TRUE
        BY <2>3
      <3>2. PICK r \in back : TakesBack(r, m)
        BY <2>1, <3>1
      <3>3. out = {m} /\ back = {r}
        BY <1>3, <1>4
      <3>4. Total({m}) = m.qty /\ Total({r}) = r.qty /\ r.qty = -m.qty
        BY <1>1, <1>2, <3>2 DEF TakesBack
      <3> QED BY <1>6, <3>3, <3>4
    <2> QED BY <2>2, <2>3
  <1> QED BY <1>5, <1>6

\* Rows of a call, committed or not.
Rows(c) == written[c] \cup {x \in movements : x.by = c}

\* What a commit adds to a bill's movements: only a cancel that holds the bill's row adds
\* returns, and only the bill itself adds sales.
LEMMA CommitAdds ==
  ASSUME Bills, NEW c \in Calls, Commit(c), NEW b \in Sold
  PROVE  /\ movements' = movements \cup written[c] /\ pc[c] = "moving"
         /\ Of("sale", b)' = Of("sale", b)
         /\ Of("return", b)' # Of("return", b) =>
               /\ op[c].kind = "cancel" /\ op[c].bill = b /\ billLock[b] = c
               /\ Of("return", b) = {}
         /\ Of("return", b) = {} /\ op[c].kind = "cancel" /\ op[c].bill = b =>
               Of("return", b)' = written[c]
  <1>1. movements' = movements \cup written[c] /\ pc[c] = "moving"
    BY DEF Commit
  <1>2. b # c /\ b \in Calls
    BY <1>1 DEF Sold
  <1>3. \A m \in written[c] :
           /\ m.kind = "sale" => m.bill = c
           /\ m.kind = "return" => op[c].kind = "cancel" /\ m.bill = op[c].bill
           /\ op[c].kind = "cancel" => m.kind = "return"
    BY DEF Bills, BillMovements
  <1>4. op[c].kind = "cancel" => billLock[op[c].bill] = c
    BY <1>1 DEF Bills, BillRowsHeld
  <1>5. Of("sale", b)' = Of("sale", b)
    BY <1>1, <1>2, <1>3 DEF Of
  <1>6. ASSUME Of("return", b)' # Of("return", b)
        PROVE  /\ op[c].kind = "cancel" /\ op[c].bill = b /\ billLock[b] = c
               /\ Of("return", b) = {}
    <2>1. written[c] # {} /\ op[c].kind = "cancel" /\ op[c].bill = b
      BY <1>1, <1>3, <1>6 DEF Of
    <2>2. Of("return", b) = {}
      BY <1>1, <2>1 DEF Bills, TakingBack
    <2> QED BY <1>4, <2>1, <2>2
  <1>7. Of("return", b) = {} /\ op[c].kind = "cancel" /\ op[c].bill = b =>
           Of("return", b)' = written[c]
    BY <1>1, <1>3 DEF Of
  <1> QED BY <1>1, <1>5, <1>6, <1>7

\* Every step keeps a bill's movements single and its own.
LEMMA BillMovementsNext ==
  ASSUME Bills, [Next]_vars
  PROVE  BillMovements'
  <1> Typed
    BY DEF Bills
  <1> DEFINE Own(c, m) ==
        /\ m.kind = "sale" => op[c].kind = "sale" /\ m.bill = c /\ m.cell[1] = op[c].branch
        /\ m.kind = "return" => op[c].kind = "cancel" /\ m.bill = op[c].bill
        /\ op[c].kind = "sale" => m.kind = "sale"
        /\ op[c].kind = "cancel" => m.kind = "return"
  <1>0. \A c \in Calls : \A m \in Rows(c) : Own(c, m) /\ pc[c] # "idle"
    <2>1. \A c \in Calls : \A m \in Rows(c) : Own(c, m)
      BY DEF Bills, BillMovements, Rows
    <2>2. \A c \in Calls : \A m \in Rows(c) : pc[c] # "idle"
      BY DEF Bills, Typed, OnlyMoving, Balanced, CommittedOnly, Rows
    <2> HIDE DEF Own
    <2> QED BY <2>1, <2>2
  <1>1. \A c \in Calls : pc[c] # "idle" => op'[c] = op[c]
    BY RequestsStay
  <1>2. ASSUME NEW c \in Calls, Move(c)
        PROVE  \E row \in MovementRows :
                  /\ written' = [written EXCEPT ![c] = written[c] \cup {row}]
                  /\ row.by = c /\ Own(c, row) /\ op' = op /\ movements' = movements
                  /\ cancelled' = cancelled
                  /\ row.kind \in {"sale", "return"} => \A m \in written[c] : m.cell # row.cell
    <2>1. PICK leg \in LegRows, old \in BalanceRows, new \in BalanceRows, row \in MovementRows :
             Moved(c, leg, old, new, row)
      BY <1>2, MoveIs
    <2>2. /\ leg = legs[c][1] /\ legs[c] # << >> /\ pc[c] = "moving"
          /\ row.by = c /\ row.kind = leg.kind /\ row.cell = leg.cell
          /\ row.bill = IF leg.kind = "return" THEN op[c].bill ELSE c
      BY <2>1 DEF Moved
    <2>3. /\ leg.kind = "return" <=> op[c].kind = "cancel"
          /\ leg.kind = "sale" <=> op[c].kind = "sale"
      BY <2>2, LegToDo
    <2>4. 1 \in DOMAIN legs[c]
      BY <2>2, TailIs DEF Typed, PrivateRows
    <2>5. op[c].kind \in {"sale", "cancel"} =>
             /\ leg.cell[1] = BranchOf(c)
             /\ \A cell \in DOMAIN view[c] : Comes(cell[2], leg.cell[2], IdOrder)
      BY <2>2, <2>4 DEF Bills, InOrder, OrderOf
    <2>6. Own(c, row)
      BY <2>2, <2>3, <2>5 DEF BranchOf
    <2>7. row.kind \in {"sale", "return"} => \A m \in written[c] : m.cell # row.cell
      BY <2>2, <2>3, <2>5, ComesIs DEF Bills, Balanced, InBooks
    <2>8. /\ written' = [written EXCEPT ![c] = written[c] \cup {row}]
          /\ op' = op /\ movements' = movements /\ cancelled' = cancelled
      BY <2>1 DEF Moved, stock
    <2> HIDE DEF Own
    <2> QED BY <2>2, <2>6, <2>7, <2>8
  <1>3. ASSUME NEW c \in Calls, Commit(c)
        PROVE  /\ movements' = movements \cup written[c] /\ written'[c] = {}
               /\ \A d \in Calls \ {c} : written'[d] = written[d]
               /\ \A m \in written[c] : m.by = c
               /\ cancelled \subseteq cancelled'
    <2>1. movements' = movements \cup written[c] /\ cancelled \subseteq cancelled'
      BY <1>3 DEF Commit
    <2>2. written'[c] = {}
      BY <1>3, EndOf
    <2>3. \A d \in Calls \ {c} : written'[d] = written[d]
      BY <1>3, OthersStay DEF StepOf
    <2>4. \A m \in written[c] : m.by = c
      BY DEF Bills, Balanced, InBooks
    <2> QED BY <2>1, <2>2, <2>3, <2>4
  <1>4. ASSUME NEW c \in Calls, StepOf(c), ~Move(c), ~Commit(c)
        PROVE  /\ movements' = movements /\ written'[c] \subseteq written[c]
               /\ \A d \in Calls \ {c} : written'[d] = written[d]
               /\ cancelled' = cancelled
    <2>1. \A d \in Calls \ {c} : written'[d] = written[d]
      BY <1>4, OthersStay
    <2>2. CASE RolledBack(c)
      BY <2>1, <2>2, EndOf
    <2>3. CASE LockBill(c) \/ \E r \in Requests : Begin(c, r)
      BY <2>1, <2>3, LockBillIs, BeginIs
    <2> QED BY <1>4, <2>2, <2>3 DEF StepOf
  <1>5. ASSUME NEW d \in Calls, NEW m \in Rows(d)'
        PROVE  Own(d, m)'
    <2>1. m \in Rows(d) => Own(d, m)'
      <3> SUFFICES ASSUME m \in Rows(d) PROVE Own(d, m)'
        OBVIOUS
      <3>1. Own(d, m) /\ op'[d] = op[d]
        BY <1>0, <1>1
      <3> QED BY <3>1
    <2>2. CASE Quiet
      BY <1>5, <2>1, <2>2 DEF Quiet, Rows
    <2>3. ASSUME NEW c \in Calls, StepOf(c)
          PROVE  Own(d, m)'
      <3>1. CASE Move(c)
        <4>1. PICK row \in MovementRows :
                 /\ written' = [written EXCEPT ![c] = written[c] \cup {row}]
                 /\ row.by = c /\ Own(c, row) /\ op' = op /\ movements' = movements
          <5> HIDE DEF Own
          <5> QED BY <1>2, <3>1
        <4>2. m \in Rows(d) \/ (m = row /\ d = c)
          BY <1>5, <4>1 DEF Rows, Typed, PrivateRows
        <4>3. Own(c, row)'
          BY <4>1
        <4> HIDE DEF Own
        <4> QED BY <2>1, <4>2, <4>3
      <3>2. CASE Commit(c)
        <4>1. m \in Rows(d)
          BY <1>3, <1>5, <3>2 DEF Rows
        <4> QED BY <2>1, <4>1
      <3>3. CASE ~Move(c) /\ ~Commit(c)
        <4>1. m \in Rows(d)
          BY <1>4, <1>5, <2>3, <3>3 DEF Rows
        <4> QED BY <2>1, <4>1
      <3> QED BY <3>1, <3>2, <3>3
    <2> QED BY <2>2, <2>3, Steps
  <1>6. ASSUME NEW d \in Calls, NEW m \in written'[d], NEW w \in written'[d],
               m.kind \in {"sale", "return"}, m.cell = w.cell
        PROVE  m = w
    <2>1. m \in written[d] /\ w \in written[d] => m = w
      BY <1>6 DEF Bills, BillMovements
    <2>2. CASE Quiet
      BY <1>6, <2>1, <2>2 DEF Quiet
    <2>3. ASSUME NEW c \in Calls, StepOf(c)
          PROVE  m = w
      <3>1. CASE Move(c)
        <4>1. PICK row \in MovementRows :
                 /\ written' = [written EXCEPT ![c] = written[c] \cup {row}]
                 /\ Own(c, row)
                 /\ row.kind \in {"sale", "return"} => \A x \in written[c] : x.cell # row.cell
          <5> HIDE DEF Own
          <5> QED BY <1>2, <3>1
        <4>2. CASE d # c
          BY <1>6, <2>1, <4>1, <4>2 DEF Typed, PrivateRows
        <4>3. CASE d = c
          <5>1. m \in written[c] \cup {row} /\ w \in written[c] \cup {row}
            BY <1>6, <4>1, <4>3 DEF Typed, PrivateRows
          <5>2. CASE m = row
            BY <1>6, <4>1, <5>1, <5>2
          <5>3. CASE w = row /\ m \in written[c]
            <6>1. Own(c, m)
              BY <1>0, <5>3 DEF Rows
            <6>2. row.kind \in {"sale", "return"}
              BY <1>6, <4>1, <6>1
            <6> QED BY <1>6, <4>1, <5>3, <6>2
          <5>4. CASE m \in written[c] /\ w \in written[c]
            BY <2>1, <4>3, <5>4
          <5> QED BY <5>1, <5>2, <5>3, <5>4
        <4> QED BY <4>2, <4>3
      <3>2. CASE Commit(c)
        BY <1>3, <1>6, <2>1, <3>2
      <3>3. CASE ~Move(c) /\ ~Commit(c)
        BY <1>4, <1>6, <2>1, <2>3, <3>3
      <3> QED BY <3>1, <3>2, <3>3
    <2> QED BY <2>2, <2>3, Steps
  <1>7. \A m, w \in movements :
           m.kind \in {"sale", "return"} /\ w.kind = m.kind /\ m.bill = w.bill /\ m.cell = w.cell
             => m = w
    BY DEF Bills, BillMovements
  <1>8. \A m \in movements : m.kind = "return" => m.bill \in cancelled
    BY DEF Bills, BillMovements
  <1>9. ASSUME NEW c \in Calls, Commit(c)
        PROVE  /\ \A m, w \in movements' :
                     m.kind \in {"sale", "return"} /\ w.kind = m.kind /\ m.bill = w.bill
                       /\ m.cell = w.cell => m = w
               /\ \A m \in movements' : m.kind = "return" => m.bill \in cancelled'
    <2>1. pc[c] = "moving" /\ movements' = movements \cup written[c]
      BY <1>9 DEF Commit
    <2>2. \A m \in written[c] : Own(c, m)
      BY <1>0 DEF Rows
    <2>3. ASSUME NEW m \in written[c], NEW w \in movements, m.kind \in {"sale", "return"},
                 w.kind = m.kind, m.bill = w.bill
          PROVE  FALSE
      <3>1. CASE m.kind = "sale"
        <4>1. w.bill = c /\ w.by \in Calls /\ w \in Rows(w.by)
          BY <2>2, <2>3, <3>1 DEF Rows, Typed, TypeOK
        <4>2. w.by = c
          BY <1>0, <2>3, <3>1, <4>1
        <4> QED BY <2>1, <4>2 DEF Bills, Balanced, CommittedOnly
      <3>2. CASE m.kind = "return"
        <4>1. op[c].kind = "cancel" /\ m.bill = op[c].bill
          BY <2>2, <3>2
        <4>2. w \in Of("return", op[c].bill)
          BY <2>3, <3>2, <4>1 DEF Of
        <4> QED BY <2>1, <2>3, <4>1, <4>2 DEF Bills, TakingBack
      <3> QED BY <2>3, <3>1, <3>2
    <2>4. \A m, w \in written[c] :
             m.kind \in {"sale", "return"} /\ m.cell = w.cell => m = w
      BY DEF Bills, BillMovements
    <2>5. \A m \in movements' : m.kind = "return" => m.bill \in cancelled'
      BY <1>8, <1>9, <2>1, <2>2 DEF Commit
    <2>6. ASSUME NEW m \in movements', NEW w \in movements',
                 m.kind \in {"sale", "return"}, w.kind = m.kind, m.bill = w.bill, m.cell = w.cell
          PROVE  m = w
      <3> HIDE DEF Own
      <3> QED BY <1>7, <2>1, <2>3, <2>4, <2>6
    <2> QED BY <2>5, <2>6
  <1>10. (\E c \in Calls : Commit(c)) \/ (movements' = movements /\ cancelled' = cancelled)
    <2>1. CASE Quiet
      BY <2>1 DEF Quiet
    <2>2. ASSUME NEW c \in Calls, StepOf(c), ~Commit(c)
          PROVE  movements' = movements /\ cancelled' = cancelled
      BY <1>2, <1>4, <2>2
    <2> QED BY <2>1, <2>2, Steps
  <1>11. /\ \A m, w \in movements' :
                m.kind \in {"sale", "return"} /\ w.kind = m.kind /\ m.bill = w.bill
                  /\ m.cell = w.cell => m = w
         /\ \A m \in movements' : m.kind = "return" => m.bill \in cancelled'
    BY <1>7, <1>8, <1>9, <1>10
  <1> QED BY <1>5, <1>6, <1>11 DEF BillMovements, Rows

\* Every step keeps what a cancel takes back equal to what the bill took.
LEMMA TakingBackNext ==
  ASSUME Bills, [Next]_vars
  PROVE  TakingBack'
  <1> Typed
    BY DEF Bills
  <1> DEFINE Back(c) ==
        LET out == Of("sale", op[c].bill)
        IN  IF Of("return", op[c].bill) # {} THEN legs[c] = << >> /\ written[c] = {}
            ELSE /\ \A m \in out : \/ \E n \in DOMAIN legs[c] : TakesBack(legs[c][n], m)
                                   \/ \E w \in written[c] : TakesBack(w, m)
                 /\ \A n \in DOMAIN legs[c] : \E m \in out : TakesBack(legs[c][n], m)
                 /\ \A w \in written[c] : \E m \in out : TakesBack(w, m)
  <1> SUFFICES ASSUME NEW d \in Calls, pc'[d] = "moving", op'[d].kind = "cancel"
               PROVE  Back(d)'
    BY DEF TakingBack
  <1>1. pc[d] = "moving" /\ op[d].kind = "cancel" => Back(d)
    BY DEF Bills, TakingBack
  <1>2. ASSUME pc[d] = "moving", op'[d] = op[d], legs'[d] = legs[d], written'[d] = written[d],
               Of("sale", op[d].bill)' = Of("sale", op[d].bill),
               Of("return", op[d].bill)' = Of("return", op[d].bill)
        PROVE  Back(d)'
    BY <1>1, <1>2
  <1>3. CASE Quiet
    BY <1>2, <1>3 DEF Quiet, Of
  <1>4. ASSUME NEW c \in Calls, StepOf(c), d # c
        PROVE  Back(d)'
    <2>1. /\ pc[d] = "moving" /\ op'[d] = op[d] /\ op[d].kind = "cancel"
          /\ legs'[d] = legs[d] /\ written'[d] = written[d]
      BY <1>4, OthersStay
    <2>2. op[d].bill \in Sold /\ billLock[op[d].bill] = d
      BY <2>1 DEF Bills, BillRowsHeld
    <2>3. CASE Commit(c)
      <3>1. /\ Of("sale", op[d].bill)' = Of("sale", op[d].bill)
            /\ Of("return", op[d].bill)' = Of("return", op[d].bill)
        BY <1>4, <2>1, <2>2, <2>3, CommitAdds DEF Of
      <3> QED BY <1>2, <2>1, <3>1
    <2>4. CASE ~Commit(c)
      <3>1. movements' = movements
        BY <1>4, <2>4 DEF StepOf, Begin, LockBill, Move, RolledBack, stock
      <3> QED BY <1>2, <2>1, <3>1 DEF Of
    <2> QED BY <2>3, <2>4
  <1>5. ASSUME NEW r \in Requests, Begin(d, r)
        PROVE  FALSE
    BY <1>5, BeginIs
  <1>6. CASE LockBill(d)
    <2> DEFINE b == op[d].bill
    <2> DEFINE s == CancelLegs(b)
    <2>1. /\ op' = op /\ op[d].kind = "cancel" /\ b \in Calls /\ pc[d] = "checked"
          /\ legs'[d] = s /\ written'[d] = {} /\ movements' = movements
      BY <1>6, LockBillIs
    <2>2. /\ \A n \in DOMAIN s : \E m \in Of("sale", b) : TakesBack(s[n], m)
          /\ Of("return", b) # {} => s = << >>
          /\ Of("return", b) = {} =>
                \A m \in Of("sale", b) : \E n \in DOMAIN s : s[n].cell[2] = m.cell[2]
      <3>1. TypeOK
        BY DEF Typed
      <3> HIDE DEF b
      <3> QED BY <2>1, <3>1, CancelLegsAre
    <2> HIDE DEF s
    <2>3. ASSUME Of("return", b) = {}, NEW m \in Of("sale", b)
          PROVE  \E n \in DOMAIN s : TakesBack(s[n], m)
      <3>1. PICK n \in DOMAIN s : s[n].cell[2] = m.cell[2]
        BY <2>2, <2>3
      <3>2. PICK w \in Of("sale", b) : TakesBack(s[n], w)
        BY <2>2
      <3>3. w.cell[2] = m.cell[2]
        BY <3>1, <3>2 DEF TakesBack
      <3>4. w = m
        <4> HIDE DEF b
        <4> QED BY <2>1, <3>3, SoldRows
      <3> QED BY <3>2, <3>4
    <2>4. Of("sale", b)' = Of("sale", b) /\ Of("return", b)' = Of("return", b)
      BY <2>1 DEF Of
    <2>5. op'[d].bill = b
      BY <2>1
    <2> HIDE DEF b
    <2> QED BY <2>1, <2>2, <2>3, <2>4, <2>5 DEF Of
  <1>7. CASE Move(d)
    <2>1. PICK leg \in LegRows, old \in BalanceRows, new \in BalanceRows, row \in MovementRows :
             Moved(d, leg, old, new, row)
      BY <1>7, MoveIs
    <2>2. /\ leg = legs[d][1] /\ pc[d] = "moving" /\ legs[d] # << >> /\ op' = op
          /\ new = AfterLeg(leg, old, view[d]) /\ row.cell = leg.cell
          /\ row.qty = new.qty - old.qty /\ movements' = movements
          /\ legs'[d] = Tail(legs[d]) /\ written'[d] = written[d] \cup {row}
      BY <2>1 DEF Moved, Typed, PrivateRows, stock
    <2>3. op[d].kind = "cancel" /\ leg.kind = "return"
      BY <2>2, LegToDo
    <2>4. row.qty = leg.qty
      <3>1. old.qty \in Int /\ leg.qty \in Int /\ old = [qty |-> old.qty, avg |-> old.avg]
        BY DEF BalanceRows, LegRows
      <3>2. new = [old EXCEPT !.qty = old.qty + leg.qty]
        BY <2>2, <2>3 DEF AfterLeg
      <3>3. new.qty = old.qty + leg.qty
        BY <3>1, <3>2
      <3> QED BY <2>2, <3>1, <3>3
    <2>5. legs[d] \in Seq(LegRows)
      BY DEF Typed, PrivateRows
    <2>6. /\ 1 \in DOMAIN legs[d]
          /\ \A n \in DOMAIN legs'[d] : n + 1 \in DOMAIN legs[d] /\ legs'[d][n] = legs[d][n + 1]
          /\ \A n \in DOMAIN legs[d] :
                n = 1 \/ (n - 1 \in DOMAIN legs'[d] /\ legs'[d][n - 1] = legs[d][n])
      BY <2>2, <2>5, TailIs
    <2> DEFINE out == Of("sale", op[d].bill)
    <2>7. Of("return", op[d].bill) = {}
      BY <1>1, <2>2, <2>3
    <2>8. /\ \A m \in out : \/ \E n \in DOMAIN legs[d] : TakesBack(legs[d][n], m)
                            \/ \E w \in written[d] : TakesBack(w, m)
          /\ \A n \in DOMAIN legs[d] : \E m \in out : TakesBack(legs[d][n], m)
          /\ \A w \in written[d] : \E m \in out : TakesBack(w, m)
      BY <1>1, <2>2, <2>3, <2>7
    <2>9. \A m : TakesBack(legs[d][1], m) => TakesBack(row, m)
      BY <2>2, <2>4 DEF TakesBack
    <2>10. Of("sale", op[d].bill)' = out /\ Of("return", op[d].bill)' = {}
      BY <2>2, <2>7 DEF Of
    <2> HIDE DEF out
    <2>11. ASSUME NEW m \in out
           PROVE  \/ \E n \in DOMAIN legs'[d] : TakesBack(legs'[d][n], m)
                  \/ \E w \in written'[d] : TakesBack(w, m)
      <3>1. CASE \E w \in written[d] : TakesBack(w, m)
        BY <2>2, <3>1
      <3>2. ASSUME NEW n \in DOMAIN legs[d], TakesBack(legs[d][n], m)
            PROVE  \/ \E k \in DOMAIN legs'[d] : TakesBack(legs'[d][k], m)
                   \/ \E w \in written'[d] : TakesBack(w, m)
        <4>1. CASE n = 1
          BY <2>2, <2>9, <3>2, <4>1
        <4>2. CASE n # 1
          BY <2>6, <3>2, <4>2
        <4> QED BY <4>1, <4>2
      <3> QED BY <2>8, <2>11, <3>1, <3>2
    <2>12. \A n \in DOMAIN legs'[d] : \E m \in out : TakesBack(legs'[d][n], m)
      BY <2>6, <2>8
    <2>13. \A w \in written'[d] : \E m \in out : TakesBack(w, m)
      BY <2>2, <2>6, <2>8, <2>9
    <2> QED BY <2>10, <2>11, <2>12, <2>13 DEF TakesBack
  <1>8. CASE Commit(d) \/ RolledBack(d)
    BY <1>8, EndOf
  <1> HIDE DEF Back
  <1> QED BY <1>3, <1>4, <1>5, <1>6, <1>7, <1>8, Steps DEF StepOf

\* Every step keeps the goods of a cancelled bill back.
LEMMA TakenBackNext ==
  ASSUME Bills, [Next]_vars
  PROVE  TakenBack'
  <1> Typed
    BY DEF Bills
  <1> DEFINE Done(out, back) ==
        /\ \A m \in out : \E r \in back : TakesBack(r, m)
        /\ \A r \in back : \E m \in out : TakesBack(r, m)
  <1>1. \A b \in cancelled : b \in Sold /\ Done(Of("sale", b), Of("return", b))
    BY DEF Bills, TakenBack, BillRowsHeld
  <1>2. ASSUME NEW c \in Calls, Commit(c), NEW b \in cancelled'
        PROVE  Done(Of("sale", b)', Of("return", b)')
    <2>1. cancelled' = IF op[c].kind = "cancel" THEN cancelled \cup {op[c].bill} ELSE cancelled
      BY <1>2 DEF Commit
    <2>2. pc[c] = "moving" /\ legs[c] = << >>
      BY <1>2 DEF Commit
    <2>3. op[c].kind = "cancel" => op[c].bill \in Sold
      BY <2>2 DEF Bills, BillRowsHeld
    <2>4. b \in Sold
      BY <1>1, <1>2, <2>1, <2>3
    <2>5. Of("sale", b)' = Of("sale", b)
      BY <1>2, <2>4, CommitAdds
    <2>6. CASE op[c].kind = "cancel" /\ op[c].bill = b /\ Of("return", b) = {}
      <3>1. Of("return", b)' = written[c]
        BY <1>2, <2>4, <2>6, CommitAdds
      <3>2. Done(Of("sale", b), written[c])
        <4>1. DOMAIN legs[c] = {}
          BY <2>2
        <4> QED BY <2>2, <2>6, <4>1 DEF Bills, TakingBack
      <3> HIDE DEF Done
      <3> QED BY <2>5, <3>1, <3>2
    <2>7. CASE ~(op[c].kind = "cancel" /\ op[c].bill = b /\ Of("return", b) = {})
      <3>1. Of("return", b)' = Of("return", b)
        BY <1>2, <2>4, <2>7, CommitAdds
      <3>2. b \in cancelled
        <4>1. CASE op[c].kind = "cancel" /\ op[c].bill = b
          <5>1. PICK m \in Of("return", b) : TRUE
            BY <2>7, <4>1
          <5> QED BY <5>1 DEF Of, Bills, BillMovements
        <4>2. CASE ~(op[c].kind = "cancel" /\ op[c].bill = b)
          BY <1>2, <2>1, <4>2
        <4> QED BY <4>1, <4>2
      <3> HIDE DEF Done
      <3> QED BY <1>1, <2>5, <3>1, <3>2
    <2> QED BY <2>6, <2>7
  <1>3. ASSUME movements' = movements, cancelled' = cancelled
        PROVE  TakenBack'
    BY <1>3 DEF Bills, TakenBack, Of
  <1>4. (\E c \in Calls : Commit(c)) \/ (movements' = movements /\ cancelled' = cancelled)
    BY Steps DEF Quiet, StepOf, Begin, LockBill, Move, RolledBack, stock
  <1>5. CASE \E c \in Calls : Commit(c)
    BY <1>2, <1>5 DEF TakenBack
  <1> QED BY <1>3, <1>4, <1>5

\* Bills and cancels start right.
LEMMA BillsInit == Init => Bills
  <1> SUFFICES ASSUME Init PROVE Bills
    OBVIOUS
  <1>1. /\ \A c \in Calls : pc[c] = "idle" /\ written[c] = {} /\ billLock[c] = None
        /\ movements = {} /\ cancelled = {}
    BY DEF Init
  <1> QED BY <1>1, TypedInit, BalancedInit
          DEF Bills, InOrder, OrderOf, BillRowsHeld, BillMovements, TakingBack, TakenBack, Of

\* Every step keeps all of it.
LEMMA BillsNext == Bills /\ [Next]_vars => Bills'
  BY TypedNext, BalancedNext, InOrderNext, BillRowsNext, BillMovementsNext, TakingBackNext,
     TakenBackNext DEF Bills

\* A bill's goods are out once while it stands and back exactly once it is cancelled, cell
\* by cell, also when two cancels race or the recipe was edited
\* (recipe-consumption.service.ts consumeForBill, reverseForBill).
THEOREM BillsGiveBack == Spec => []ReturnsWhatItTook
  <1>1. Bills => ReturnsWhatItTook
    BY AllReturned
  <1> QED BY BillsInit, BillsNext, <1>1, PTL DEF Spec

\* Bills, cancels, issues and stock-takes alone never wait in a circle: the sorts of
\* recipe-consumption.service.ts lock their rows in one order.
THEOREM BillsNeverDeadlock == Spec => []BillsNeverCircle
  <1>1. Bills => BillsNeverCircle
    BY NoCircle
  <1> QED BY BillsInit, BillsNext, <1>1, PTL DEF Spec
=============================================================================
