-------------------------------- MODULE Sums --------------------------------
(***************************************************************************)
(* What a FoldSet that adds up one field of a set of rows computes.  The   *)
(* models add up amounts with FoldSet, which the community modules define  *)
(* by CHOOSE and a recursive function on the subsets of the set; these     *)
(* lemmas say what it returns for every finite set of rows, so that the    *)
(* proofs about the models need not look inside it.                        *)
(*                                                                         *)
(* Each lemma is proved from a minimal counterexample: on the subsets of a *)
(* finite set, strict inclusion is well-founded.                           *)
(***************************************************************************)
EXTENDS Integers, FiniteSets, FiniteSetsExt, FiniteSetTheorems, TLAPS

Sum(val, S) == FoldSet(LAMBDA x, sum : val[x] + sum, 0, S)

Pick(s) == CHOOSE x \in s : TRUE

\* The equation the fold's recursive function solves.
Fill(val, S, g) ==
    [s \in SUBSET S |-> IF s = {} THEN 0 ELSE val[Pick(s)] + g[s \ {Pick(s)}]]
Solution(val, S) == CHOOSE g : g = Fill(val, S, g)

\* The fold is the solution's value at the whole set.
LEMMA SumIs == ASSUME NEW val, NEW S PROVE Sum(val, S) = Solution(val, S)[S]
  BY DEF Sum, FoldSet, MapThenFoldSet, Solution, Fill, Pick

\* Every nonempty family of subsets of a finite set has a minimal member.
LEMMA MinimalSubset ==
    ASSUME NEW S, IsFiniteSet(S), NEW B \in SUBSET SUBSET S, B # {}
    PROVE  \E T \in B : \A U \in B : ~(U \subseteq T /\ U # T)
<1>1. IsWellFoundedOn(StrictSubsetOrdering(S), SUBSET S)
  BY FS_StrictSubsetOrderingWellFounded, FS_FiniteSubsetsOfFinite
<1>2. \E T \in B : \A U \in B : ~(<<U, T>> \in StrictSubsetOrdering(S))
  BY <1>1, WFMin
<1> QED
  BY <1>2 DEF StrictSubsetOrdering

\* The picked element is in the set, and the rest is smaller.
LEMMA PickIn ==
    ASSUME NEW s, s # {}
    PROVE  Pick(s) \in s /\ s \ {Pick(s)} \subseteq s /\ s \ {Pick(s)} # s
  BY DEF Pick

\* Two solutions agree wherever both are defined.
LEMMA SolutionsAgree ==
    ASSUME NEW val, NEW S, NEW T, NEW g, NEW h, NEW U, IsFiniteSet(U),
           g = Fill(val, S, g), h = Fill(val, T, h), U \subseteq S, U \subseteq T
    PROVE  g[U] = h[U]
<1> DEFINE B == {s \in SUBSET U : g[s] # h[s]}
<1> SUFFICES ASSUME B # {} PROVE FALSE
  BY DEF B
<1>0. B \in SUBSET SUBSET U
  OBVIOUS
<1>1. PICK s \in B : \A t \in B : ~(t \subseteq s /\ t # s)
  <2> HIDE DEF B
  <2> QED
    BY <1>0, MinimalSubset
<1>2. s \in SUBSET S /\ s \in SUBSET T /\ g[s] # h[s] /\ s \in SUBSET U
  OBVIOUS
<1>3. /\ g[s] = IF s = {} THEN 0 ELSE val[Pick(s)] + g[s \ {Pick(s)}]
      /\ h[s] = IF s = {} THEN 0 ELSE val[Pick(s)] + h[s \ {Pick(s)}]
  BY <1>2 DEF Fill
<1>4. CASE s = {}
  BY <1>2, <1>3, <1>4
<1>5. CASE s # {}
  <2>1. s \ {Pick(s)} \in SUBSET U /\ s \ {Pick(s)} \notin B
    BY <1>1, <1>2, <1>5, PickIn
  <2>2. g[s \ {Pick(s)}] = h[s \ {Pick(s)}]
    BY <2>1
  <2> QED
    BY <1>2, <1>3, <1>5, <2>2
<1> QED
  BY <1>4, <1>5

\* On the subsets of a finite set the equation has a solution.
LEMMA SolutionExists ==
    ASSUME NEW val, NEW S, IsFiniteSet(S)
    PROVE  Solution(val, S) = Fill(val, S, Solution(val, S))
<1> DEFINE B == {s \in SUBSET S : ~ \E g : g = Fill(val, s, g)}
<1> SUFFICES ASSUME B # {} PROVE FALSE
  <2>1. \E g : g = Fill(val, S, g)
    OBVIOUS
  <2> QED
    BY <2>1 DEF Solution
<1>0. B \in SUBSET SUBSET S
  OBVIOUS
<1>1. PICK T \in B : \A t \in B : ~(t \subseteq T /\ t # T)
  <2> HIDE DEF B
  <2> QED
    BY <1>0, MinimalSubset
<1>2. T \in SUBSET S /\ ~ \E g : g = Fill(val, T, g)
  OBVIOUS
<1> DEFINE h(s) == Solution(val, s)
<1>3. ASSUME NEW s \in SUBSET T, s # T PROVE h(s) = Fill(val, s, h(s))
  <2>1. s \in SUBSET S /\ s \notin B
    BY <1>1, <1>2, <1>3
  <2>2. \E g : g = Fill(val, s, g)
    BY <2>1
  <2> QED
    BY <2>2 DEF Solution
<1> HIDE DEF h
<1> DEFINE below(s) == s \ {Pick(s)}
<1> DEFINE G == [s \in SUBSET T |->
                    IF s = {} THEN 0 ELSE val[Pick(s)] + h(below(s))[below(s)]]
<1>4. ASSUME NEW s \in SUBSET T, s # T PROVE G[s] = h(s)[s]
  <2>0. h(s)[s] = IF s = {} THEN 0 ELSE val[Pick(s)] + h(s)[below(s)]
    <3>1. Fill(val, s, h(s))[s] = IF s = {} THEN 0 ELSE val[Pick(s)] + h(s)[below(s)]
      BY DEF Fill
    <3> QED
      BY <1>3, <1>4, <3>1
  <2>1. CASE s = {}
    BY <2>0, <2>1
  <2>2. CASE s # {}
    <3>1. below(s) \in SUBSET T /\ below(s) # T /\ below(s) \subseteq s
      BY <1>4, <2>2, PickIn
    <3>2. IsFiniteSet(below(s))
      BY <1>2, <3>1, FS_Subset
    <3>3. h(below(s))[below(s)] = h(s)[below(s)]
      <4> HIDE DEF below
      <4> QED
        BY <1>3, <1>4, <3>1, <3>2, SolutionsAgree
    <3> QED
      BY <2>0, <2>2, <3>3
  <2> QED
    BY <2>1, <2>2
<1>5. ASSUME NEW s \in SUBSET T, s # {} PROVE G[below(s)] = h(below(s))[below(s)]
  <2>1. below(s) \in SUBSET T /\ below(s) # T
    BY <1>5, PickIn
  <2> HIDE DEF below, G
  <2> QED
    BY <1>4, <2>1
<1>6. G = Fill(val, T, G)
  <2> DEFINE g == G
  <2>1. \A s \in SUBSET T : s # {} => g[below(s)] = h(below(s))[below(s)]
    BY <1>5
  <2>2. g = [s \in SUBSET T |-> IF s = {} THEN 0 ELSE val[Pick(s)] + h(below(s))[below(s)]]
    OBVIOUS
  <2>3. Fill(val, T, g) = [s \in SUBSET T |->
                              IF s = {} THEN 0 ELSE val[Pick(s)] + g[below(s)]]
    BY DEF Fill
  <2> HIDE DEF g
  <2> QED
    BY <2>1, <2>2, <2>3
<1> QED
  BY <1>2, <1>6

\* A sum is the picked element's value and the sum of the rest.
LEMMA SumStep ==
    ASSUME NEW val, NEW S, IsFiniteSet(S)
    PROVE  /\ S = {} => Sum(val, S) = 0
           /\ S # {} => Sum(val, S) = val[Pick(S)] + Sum(val, S \ {Pick(S)})
<1> DEFINE R == S \ {Pick(S)}
<1>1. Solution(val, S) = Fill(val, S, Solution(val, S))
  BY SolutionExists
<1>2. /\ S = {} => Solution(val, S)[S] = 0
      /\ S # {} => Solution(val, S)[S] = val[Pick(S)] + Solution(val, S)[R]
  BY <1>1 DEF Fill
<1>3. IsFiniteSet(R) /\ R \subseteq S
  BY FS_Subset
<1>4. Solution(val, R) = Fill(val, R, Solution(val, R))
  BY <1>3, SolutionExists
<1>5. Solution(val, S)[R] = Solution(val, R)[R]
  <2> HIDE DEF R
  <2> QED
    BY <1>1, <1>3, <1>4, SolutionsAgree
<1>6. Sum(val, S) = Solution(val, S)[S] /\ Sum(val, R) = Solution(val, R)[R]
  BY SumIs
<1> QED
  BY <1>2, <1>5, <1>6

\* The sum of no rows is 0.
LEMMA SumEmpty == ASSUME NEW val PROVE Sum(val, {}) = 0
  BY SumStep, FS_EmptySet

\* A sum of integers is an integer, and of naturals a natural.
LEMMA SumType ==
    ASSUME NEW val, NEW S, IsFiniteSet(S), NEW D, D \in {Nat, Int}, \A x \in S : val[x] \in D
    PROVE  Sum(val, S) \in D
<1> DEFINE B == {s \in SUBSET S : Sum(val, s) \notin D}
<1> SUFFICES ASSUME B # {} PROVE FALSE
  OBVIOUS
<1>0. B \in SUBSET SUBSET S
  OBVIOUS
<1>1. PICK T \in B : \A t \in B : ~(t \subseteq T /\ t # T)
  <2> HIDE DEF B
  <2> QED
    BY <1>0, MinimalSubset
<1>2. T \in SUBSET S /\ Sum(val, T) \notin D /\ IsFiniteSet(T)
  BY FS_Subset
<1>3. CASE T = {}
  BY <1>2, <1>3, SumEmpty
<1>4. CASE T # {}
  <2>1. T \ {Pick(T)} \in SUBSET S /\ T \ {Pick(T)} \notin B /\ Pick(T) \in S
    BY <1>1, <1>2, <1>4, PickIn
  <2>2. Sum(val, T \ {Pick(T)}) \in D /\ val[Pick(T)] \in D
    BY <2>1
  <2>3. Sum(val, T) = val[Pick(T)] + Sum(val, T \ {Pick(T)})
    BY <1>2, <1>4, SumStep
  <2> QED
    BY <1>2, <2>2, <2>3
<1> QED
  BY <1>3, <1>4

\* Rows with the same values add up to the same.
LEMMA SumSame ==
    ASSUME NEW val, NEW w, NEW S, IsFiniteSet(S), \A x \in S : val[x] = w[x]
    PROVE  Sum(val, S) = Sum(w, S)
<1> DEFINE B == {s \in SUBSET S : Sum(val, s) # Sum(w, s)}
<1> SUFFICES ASSUME B # {} PROVE FALSE
  OBVIOUS
<1>0. B \in SUBSET SUBSET S
  OBVIOUS
<1>1. PICK T \in B : \A t \in B : ~(t \subseteq T /\ t # T)
  <2> HIDE DEF B
  <2> QED
    BY <1>0, MinimalSubset
<1>2. T \in SUBSET S /\ Sum(val, T) # Sum(w, T) /\ IsFiniteSet(T)
  BY FS_Subset
<1>3. CASE T = {}
  BY <1>2, <1>3, SumEmpty
<1>4. CASE T # {}
  <2>1. T \ {Pick(T)} \in SUBSET S /\ T \ {Pick(T)} \notin B /\ Pick(T) \in S
    BY <1>1, <1>2, <1>4, PickIn
  <2>2. Sum(val, T \ {Pick(T)}) = Sum(w, T \ {Pick(T)}) /\ val[Pick(T)] = w[Pick(T)]
    BY <2>1
  <2> QED
    BY <1>2, <1>4, <2>2, SumStep
<1> QED
  BY <1>3, <1>4

\* Any row may be taken out first.
LEMMA SumSplit ==
    ASSUME NEW val, NEW S, IsFiniteSet(S), \A x \in S : val[x] \in Int, NEW y \in S
    PROVE  Sum(val, S) = val[y] + Sum(val, S \ {y})
<1> DEFINE B == {s \in SUBSET S : \E z \in s : Sum(val, s) # val[z] + Sum(val, s \ {z})}
<1> SUFFICES ASSUME B # {} PROVE FALSE
  OBVIOUS
<1>0. B \in SUBSET SUBSET S
  OBVIOUS
<1>1. PICK T \in B : \A t \in B : ~(t \subseteq T /\ t # T)
  <2> HIDE DEF B
  <2> QED
    BY <1>0, MinimalSubset
<1>2. T \in SUBSET S /\ IsFiniteSet(T)
  BY FS_Subset
<1>3. PICK z \in T : Sum(val, T) # val[z] + Sum(val, T \ {z})
  BY <1>1
<1> DEFINE p == Pick(T)
<1>4. p \in T /\ Sum(val, T) = val[p] + Sum(val, T \ {p})
  BY <1>2, <1>3, PickIn, SumStep
<1> HIDE DEF p
<1>5. p # z
  BY <1>3, <1>4
<1>6. Sum(val, T \ {p}) = val[z] + Sum(val, (T \ {p}) \ {z})
  <2>1. T \ {p} \in SUBSET S /\ T \ {p} \notin B /\ z \in T \ {p}
    BY <1>1, <1>2, <1>3, <1>4, <1>5
  <2> QED
    BY <2>1
<1>7. Sum(val, T \ {z}) = val[p] + Sum(val, (T \ {z}) \ {p})
  <2>1. T \ {z} \in SUBSET S /\ T \ {z} \notin B /\ p \in T \ {z}
    BY <1>1, <1>2, <1>3, <1>4, <1>5
  <2> QED
    BY <2>1
<1>8. (T \ {p}) \ {z} = (T \ {z}) \ {p}
  OBVIOUS
<1>9. Sum(val, (T \ {p}) \ {z}) \in Int /\ val[p] \in Int /\ val[z] \in Int
  <2>1. (T \ {p}) \ {z} \subseteq S /\ p \in S /\ z \in S
    BY <1>2, <1>3, <1>4
  <2>2. IsFiniteSet((T \ {p}) \ {z})
    BY <2>1, FS_Subset
  <2> QED
    BY <2>1, <2>2, SumType
<1> QED
  BY <1>3, <1>4, <1>6, <1>7, <1>8, <1>9

\* A new row adds its value.
LEMMA SumAdd ==
    ASSUME NEW val, NEW S, IsFiniteSet(S), NEW y, y \notin S, \A x \in S \cup {y} : val[x] \in Int
    PROVE  Sum(val, S \cup {y}) = val[y] + Sum(val, S)
<1>1. IsFiniteSet(S \cup {y})
  BY FS_AddElement
<1>2. (S \cup {y}) \ {y} = S
  OBVIOUS
<1> QED
  BY <1>1, <1>2, SumSplit

\* Rows of value 0 do not count.
LEMMA SumSkip ==
    ASSUME NEW val, NEW S, IsFiniteSet(S), NEW y, \A x \in S \cup {y} : val[x] \in Int, val[y] = 0
    PROVE  Sum(val, S \cup {y}) = Sum(val, S)
<1>1. CASE y \in S
  <2> S \cup {y} = S
    BY <1>1
  <2> QED
    OBVIOUS
<1>2. CASE y \notin S
  <2>1. Sum(val, S) \in Int
    BY SumType
  <2> QED
    BY <1>2, <2>1, SumAdd
<1> QED
  BY <1>1, <1>2

\* Two disjoint sets of rows add up to the sum of their sums.
LEMMA SumUnion ==
    ASSUME NEW val, NEW S, IsFiniteSet(S), NEW R, IsFiniteSet(R), S \cap R = {},
           \A x \in S \cup R : val[x] \in Int
    PROVE  Sum(val, S \cup R) = Sum(val, S) + Sum(val, R)
<1> DEFINE B == {s \in SUBSET R : Sum(val, S \cup s) # Sum(val, S) + Sum(val, s)}
<1> SUFFICES ASSUME B # {} PROVE FALSE
  OBVIOUS
<1>0. B \in SUBSET SUBSET R
  OBVIOUS
<1>1. PICK T \in B : \A t \in B : ~(t \subseteq T /\ t # T)
  <2> HIDE DEF B
  <2> QED
    BY <1>0, MinimalSubset
<1>2. T \in SUBSET R /\ IsFiniteSet(T) /\ Sum(val, S \cup T) # Sum(val, S) + Sum(val, T)
  BY FS_Subset
<1>3. Sum(val, S) \in Int
  BY SumType
<1>4. CASE T = {}
  BY <1>2, <1>3, <1>4, SumEmpty
<1>5. CASE T # {}
  <2>1. PICK y \in T : TRUE
    BY <1>5
  <2> DEFINE W == T \ {y}
  <2>2. W \in SUBSET R /\ W \notin B /\ IsFiniteSet(W)
    BY <1>1, <1>2, <2>1, FS_Subset
  <2>3. Sum(val, S \cup W) = Sum(val, S) + Sum(val, W)
    BY <2>2
  <2>4. IsFiniteSet(S \cup T) /\ y \in S \cup T /\ (S \cup T) \ {y} = S \cup W
    BY <1>2, <2>1, FS_Union
  <2>5. Sum(val, S \cup T) = val[y] + Sum(val, S \cup W)
    <3>1. \A x \in S \cup T : val[x] \in Int
      BY <1>2
    <3> HIDE DEF W
    <3> QED
      BY <2>4, <3>1, SumSplit
  <2>6. Sum(val, T) = val[y] + Sum(val, W)
    <3>1. \A x \in T : val[x] \in Int
      BY <1>2
    <3> QED
      BY <1>2, <2>1, <3>1, SumSplit
  <2>7. Sum(val, W) \in Int /\ val[y] \in Int
    <3>1. \A x \in W : val[x] \in Int
      BY <2>2
    <3> HIDE DEF W
    <3> QED
      BY <1>2, <2>1, <2>2, <3>1, SumType
  <2> HIDE DEF W
  <2> QED
    BY <1>2, <1>3, <2>3, <2>5, <2>6, <2>7
<1> QED
  BY <1>4, <1>5

-----------------------------------------------------------------------------
(***************************************************************************)
(* The sums the models take, as sums of a function of the row.             *)
(***************************************************************************)
Amounts(rows) == FoldSet(LAMBDA r, sum : r.amount + sum, 0, rows)

\* The refunds of a bill: Settlement.
LEMMA AmountsSum ==
    ASSUME NEW rows, NEW val, \A r \in rows : val[r] = r.amount
    PROVE  Amounts(rows) = Sum(val, rows)
<1> DEFINE F(g) == [s \in SUBSET rows |-> IF s = {} THEN 0 ELSE Pick(s).amount + g[s \ {Pick(s)}]]
<1> DEFINE G(g) == [s \in SUBSET rows |-> IF s = {} THEN 0 ELSE val[Pick(s)] + g[s \ {Pick(s)}]]
<1>1. Amounts(rows) = (CHOOSE g : g = F(g))[rows]
  BY DEF Amounts, FoldSet, MapThenFoldSet, Pick
<1>2. Sum(val, rows) = (CHOOSE g : g = G(g))[rows]
  BY DEF Sum, FoldSet, MapThenFoldSet, Pick
<1>3. \A s \in SUBSET rows : s # {} => Pick(s) \in rows
  BY DEF Pick
<1>4. \A g : F(g) = G(g)
  BY <1>3
<1>5. (CHOOSE g : g = F(g)) = (CHOOSE g : g = G(g))
  <2> HIDE DEF F, G
  <2> QED
    BY <1>4, Zenon
<1> QED
  BY <1>1, <1>2, <1>5

Cash(rows) == FoldSet(LAMBDA r, sum : r.cash + sum, 0, rows)

\* The cash a shift took: Settlement.
LEMMA CashSum ==
    ASSUME NEW rows, NEW val, \A r \in rows : val[r] = r.cash
    PROVE  Cash(rows) = Sum(val, rows)
<1> DEFINE F(g) == [s \in SUBSET rows |-> IF s = {} THEN 0 ELSE Pick(s).cash + g[s \ {Pick(s)}]]
<1> DEFINE G(g) == [s \in SUBSET rows |-> IF s = {} THEN 0 ELSE val[Pick(s)] + g[s \ {Pick(s)}]]
<1>1. Cash(rows) = (CHOOSE g : g = F(g))[rows]
  BY DEF Cash, FoldSet, MapThenFoldSet, Pick
<1>2. Sum(val, rows) = (CHOOSE g : g = G(g))[rows]
  BY DEF Sum, FoldSet, MapThenFoldSet, Pick
<1>3. \A s \in SUBSET rows : s # {} => Pick(s) \in rows
  BY DEF Pick
<1>4. \A g : F(g) = G(g)
  BY <1>3
<1>5. (CHOOSE g : g = F(g)) = (CHOOSE g : g = G(g))
  <2> HIDE DEF F, G
  <2> QED
    BY <1>4, Zenon
<1> QED
  BY <1>1, <1>2, <1>5

Quantities(rows) == FoldSet(LAMBDA r, sum : r.qty + sum, 0, rows)

\* What moved in or out of a cell: StockLedger.
LEMMA QuantitiesSum ==
    ASSUME NEW rows, NEW val, \A r \in rows : val[r] = r.qty
    PROVE  Quantities(rows) = Sum(val, rows)
<1> DEFINE F(g) == [s \in SUBSET rows |-> IF s = {} THEN 0 ELSE Pick(s).qty + g[s \ {Pick(s)}]]
<1> DEFINE G(g) == [s \in SUBSET rows |-> IF s = {} THEN 0 ELSE val[Pick(s)] + g[s \ {Pick(s)}]]
<1>1. Quantities(rows) = (CHOOSE g : g = F(g))[rows]
  BY DEF Quantities, FoldSet, MapThenFoldSet, Pick
<1>2. Sum(val, rows) = (CHOOSE g : g = G(g))[rows]
  BY DEF Sum, FoldSet, MapThenFoldSet, Pick
<1>3. \A s \in SUBSET rows : s # {} => Pick(s) \in rows
  BY DEF Pick
<1>4. \A g : F(g) = G(g)
  BY <1>3
<1>5. (CHOOSE g : g = F(g)) = (CHOOSE g : g = G(g))
  <2> HIDE DEF F, G
  <2> QED
    BY <1>4, Zenon
<1> QED
  BY <1>1, <1>2, <1>5

Costs(rows) == FoldSet(LAMBDA r, sum : r.vnd + sum, 0, rows)

\* The lines of an order and the entries of a payable: Procurement.
LEMMA CostsSum ==
    ASSUME NEW rows, NEW val, \A r \in rows : val[r] = r.vnd
    PROVE  Costs(rows) = Sum(val, rows)
<1> DEFINE F(g) == [s \in SUBSET rows |-> IF s = {} THEN 0 ELSE Pick(s).vnd + g[s \ {Pick(s)}]]
<1> DEFINE G(g) == [s \in SUBSET rows |-> IF s = {} THEN 0 ELSE val[Pick(s)] + g[s \ {Pick(s)}]]
<1>1. Costs(rows) = (CHOOSE g : g = F(g))[rows]
  BY DEF Costs, FoldSet, MapThenFoldSet, Pick
<1>2. Sum(val, rows) = (CHOOSE g : g = G(g))[rows]
  BY DEF Sum, FoldSet, MapThenFoldSet, Pick
<1>3. \A s \in SUBSET rows : s # {} => Pick(s) \in rows
  BY DEF Pick
<1>4. \A g : F(g) = G(g)
  BY <1>3
<1>5. (CHOOSE g : g = F(g)) = (CHOOSE g : g = G(g))
  <2> HIDE DEF F, G
  <2> QED
    BY <1>4, Zenon
<1> QED
  BY <1>1, <1>2, <1>5
=============================================================================
