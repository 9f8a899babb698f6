----------------------------- MODULE Till_proofs -----------------------------
(***************************************************************************)
(* Machine-checked proofs about the two things a till depends on while it  *)
(* is offline: its outbox, which keeps and uploads the sales (Outbox), and *)
(* the price book, which it caches to price them (Pricing, with the server *)
(* side of prices and vouchers).  The two models share no variable, and    *)
(* their proofs share no lemma.                                            *)
(*                                                                         *)
(* Outbox: for every finite set of sales and any number of attempts,       *)
(* reloads, lost requests and transient errors.  Pricing: for any number   *)
(* of calls, days, minutes, prices, redemptions and connections.           *)
(***************************************************************************)
EXTENDS Outbox, Pricing, FiniteSetTheorems, TLAPS

(***************************************************************************)
(* The inductive invariant.  What the cycle has in memory and what the     *)
(* rows say fit together (MarksFit, WireFits), and every number in an      *)
(* answer or a settled row is the one the server's table holds.            *)
(***************************************************************************)
MarksFit ==
    /\ cycle \in {"idle", "reading"} => DOMAIN batch = {}
    /\ cycle = "marking" =>
          /\ \A u \in todo : box[u].status \in {"pending", "retry"}
          /\ \A u \in DOMAIN batch \ todo : box[u].status = "syncing"

WireFits ==
    /\ cycle \in {"waiting", "broken"} => requests \cap DOMAIN answers = {}
    /\ cycle \notin {"waiting", "broken"} => requests = {}
    /\ cycle \in {"waiting", "broken"} => requests \cup DOMAIN answers = DOMAIN batch
    /\ cycle = "settling" => DOMAIN answers = DOMAIN batch

AnswersOfficial ==
    \A u \in DOMAIN answers : answers[u].status = "committed" =>
        number[u] > 0 /\ answers[u].number = number[u]

Safe ==
    /\ TypeOK /\ MarksFit /\ WireFits /\ AnswersOfficial
    /\ ShownNumberIsOfficial /\ CycleOwnsItsBatch

\* While a sale has no number, the numbers given leave room for one more.
LEMMA NextNumberFits ==
    ASSUME TypeOK, NEW u \in Sales, number[u] = 0
    PROVE  /\ LastNo \in Nat
           /\ LastNo + 1 \in 1..Cardinality(Sales)
<1> DEFINE given == {v \in Sales : number[v] > 0}
<1>1. given \subseteq Sales \ {u}
  OBVIOUS
<1>2. /\ IsFiniteSet(Sales \ {u})
      /\ Cardinality(Sales \ {u}) = Cardinality(Sales) - 1
      /\ Cardinality(Sales) \in Nat
  BY SalesFinite, FS_RemoveElement, FS_CardinalityType
<1>3. IsFiniteSet(given) /\ Cardinality(given) <= Cardinality(Sales \ {u})
  BY <1>1, <1>2, FS_Subset
<1>4. Cardinality(given) \in Nat
  BY <1>3, FS_CardinalityType
<1>5. LastNo = Cardinality(given)
  BY DEF LastNo
<1> QED
  BY <1>2, <1>3, <1>4, <1>5

\* Whatever the server does with a bill, a number it gave stays, the answer is
\* well formed and a "committed" answer carries the number of its bill.
LEMMA ProcessedIsOfficial ==
    ASSUME TypeOK, NEW u \in Sales, NEW hiccup, NEW a \in Answers, Processed(u, hiccup, a)
    PROVE  /\ number' \in [Sales -> 0..Cardinality(Sales)]
           /\ \A v \in Sales : number[v] > 0 => number'[v] = number[v]
           /\ a.status = "committed" => number'[u] > 0 /\ a.number = number'[u]
<1>0. \A v \in Sales : number[v] \in Nat
  BY SalesFinite, FS_CardinalityType DEF TypeOK
<1>1. CASE number' = number
  <2>1. \/ a.status # "committed"
        \/ number[u] > 0 /\ a.number = number[u]
    BY <1>0, <1>1, NextNumberFits DEF Processed, TypeOK
  <2> QED
    BY <1>1, <2>1 DEF TypeOK
<1>2. CASE /\ number[u] = 0
           /\ number' = [number EXCEPT ![u] = LastNo + 1]
           /\ a = [status |-> "committed", number |-> LastNo + 1]
  BY <1>2, NextNumberFits DEF TypeOK
<1> QED
  BY <1>1, <1>2 DEF Processed

\* What the outbox starts with.
LEMMA SafeInit == Init => Safe
<1> SUFFICES ASSUME Init PROVE Safe
  OBVIOUS
<1>1. Cardinality(Sales) \in Nat
  BY SalesFinite, FS_CardinalityType
<1>2. DOMAIN batch = {} /\ DOMAIN answers = {}
  BY DEF Init
<1>3. TypeOK
  <2>1. /\ box \in [Sales -> [status : {"absent", "pending", "syncing", "retry",
                                        "committed", "cleared"},
                              attempts : 0..MaxAttempts, number : 0..Cardinality(Sales),
                              lastError : Errors]]
        /\ number \in [Sales -> 0..Cardinality(Sales)]
    BY <1>1, BoundsType DEF Init, Errors
  <2> QED
    BY <1>2, <2>1, CorruptibleType DEF Init, TypeOK
<1>4. MarksFit /\ WireFits /\ AnswersOfficial
  BY <1>2 DEF Init, MarksFit, WireFits, AnswersOfficial
<1>5. ShownNumberIsOfficial /\ CycleOwnsItsBatch
  BY DEF Init, ShownNumberIsOfficial, CycleOwnsItsBatch
<1> QED
  BY <1>3, <1>4, <1>5 DEF Safe

\* markRetry gives the row a type-correct successor with status "retry".
LEMMA RetriedRow ==
    ASSUME TypeOK, NEW u \in Sales, NEW error \in Errors
    PROVE  /\ Retried(u, error) \in [Sales ->
                 [status : {"absent", "pending", "syncing", "retry", "committed", "cleared"},
                  attempts : 0..MaxAttempts, number : 0..Cardinality(Sales),
                  lastError : Errors]]
           /\ Retried(u, error)[u].status = "retry"
           /\ \A v \in Sales \ {u} : Retried(u, error)[v] = box[v]
<1> DEFINE row == [box[u] EXCEPT !.status = "retry", !.lastError = error,
                                 !.attempts = IF @ < MaxAttempts THEN @ + 1 ELSE @]
<1>1. Retried(u, error) = [box EXCEPT ![u] = row]
  BY DEF TypeOK, Retried
<1>2. /\ row \in [status : {"absent", "pending", "syncing", "retry", "committed", "cleared"},
                  attempts : 0..MaxAttempts, number : 0..Cardinality(Sales),
                  lastError : Errors]
      /\ row.status = "retry"
  <2>1. PICK old \in [status : {"absent", "pending", "syncing", "retry", "committed", "cleared"},
                      attempts : 0..MaxAttempts, number : 0..Cardinality(Sales),
                      lastError : Errors] : old = box[u]
    BY DEF TypeOK
  <2>2. (IF old.attempts < MaxAttempts THEN old.attempts + 1 ELSE old.attempts) \in 0..MaxAttempts
    BY BoundsType
  <2> QED
    BY <2>1, <2>2
<1> HIDE DEF row
<1> QED
  BY <1>1, <1>2 DEF TypeOK

\* A step that leaves cycle, batch, todo and the wire alone, and changes no row
\* that the cycle holds, keeps what a cycle relies on.
LEMMA RowsOnly ==
    ASSUME Safe, TypeOK', UNCHANGED <<cycle, batch, todo, answers, requests, number>>,
           \A u \in DOMAIN batch :
              box[u].status \in {"pending", "retry", "syncing"} => box'[u].status = box[u].status,
           \A u \in Sales : box'[u].status \in {"committed", "cleared"} =>
              box[u].status \in {"committed", "cleared"} /\ box'[u].number = box[u].number
    PROVE  Safe'
<1>1. MarksFit' /\ CycleOwnsItsBatch'
  BY DEF Safe, TypeOK, MarksFit, CycleOwnsItsBatch
<1>2. WireFits' /\ AnswersOfficial' /\ ShownNumberIsOfficial'
  BY DEF Safe, WireFits, AnswersOfficial, ShownNumberIsOfficial
<1> QED
  BY <1>1, <1>2 DEF Safe

\* The same for a step of the server outside the cycle's request: it gives
\* numbers, and takes none back.
LEMMA NumbersOnly ==
    ASSUME Safe, TypeOK', UNCHANGED <<box, cycle, batch, todo, answers, requests>>,
           \A v \in Sales : number[v] > 0 => number'[v] = number[v]
    PROVE  Safe'
<1>1. AnswersOfficial' /\ ShownNumberIsOfficial'
  BY DEF Safe, TypeOK, AnswersOfficial, ShownNumberIsOfficial
<1>2. MarksFit' /\ WireFits' /\ CycleOwnsItsBatch'
  BY DEF Safe, MarksFit, WireFits, CycleOwnsItsBatch
<1> QED
  BY <1>1, <1>2 DEF Safe

\* Every step keeps all of it.
LEMMA SafeNext == Safe /\ [Next]_vars => Safe'
<1> SUFFICES ASSUME Safe, [Next]_vars PROVE Safe'
  OBVIOUS
<1>0. TypeOK
  BY DEF Safe
<1> USE DEF engine, server, wire
<1>1. ASSUME NEW u \in Sales, Queue(u) PROVE Safe'
  <2>1. TypeOK'
    BY <1>0, <1>1 DEF Queue, TypeOK
  <2> QED
    BY <1>0, <1>1, <2>1, RowsOnly DEF Queue, TypeOK
<1>2. CASE GoOnline
  BY <1>0, <1>2, RowsOnly DEF GoOnline, TypeOK
<1>3. CASE GoOffline
  <2>1. TypeOK'
    BY <1>0, <1>3 DEF GoOffline, TypeOK
  <2> QED
    BY <1>3, <2>1
    DEF GoOffline, Safe, MarksFit, WireFits, AnswersOfficial, ShownNumberIsOfficial,
        CycleOwnsItsBatch
<1>4. CASE Reload
  <2>0. DOMAIN batch' = {} /\ DOMAIN answers' = {}
    BY <1>4 DEF Reload
  <2>1. TypeOK'
    BY <1>0, <1>4, <2>0 DEF Reload, TypeOK
  <2> QED
    BY <1>4, <2>0, <2>1
    DEF Reload, Safe, MarksFit, WireFits, AnswersOfficial, ShownNumberIsOfficial,
        CycleOwnsItsBatch
<1>5. CASE ClearCommitted
  <2>1. TypeOK'
    BY <1>0, <1>5 DEF ClearCommitted, TypeOK
  <2> QED
    BY <1>0, <1>5, <2>1, RowsOnly DEF ClearCommitted, TypeOK
<1>6. CASE TimerFires
  <2>1. TypeOK'
    BY <1>0, <1>6 DEF TimerFires, TypeOK
  <2> QED
    BY <1>6, <2>1
    DEF TimerFires, Safe, MarksFit, WireFits, AnswersOfficial, ShownNumberIsOfficial,
        CycleOwnsItsBatch
<1>7. CASE ReadPending
  <2>1. DOMAIN batch = {} /\ DOMAIN answers = {} /\ requests = {}
    BY <1>0, <1>7 DEF ReadPending, Safe, MarksFit, TypeOK
  <2>2. CASE Pending = {}
    <3>1. TypeOK'
      BY <1>0, <1>7, <2>2 DEF ReadPending, TypeOK
    <3> QED
      BY <1>7, <2>2, <3>1
      DEF ReadPending, Safe, MarksFit, WireFits, AnswersOfficial, ShownNumberIsOfficial,
          CycleOwnsItsBatch
  <2>3. CASE Pending # {}
    <3>1. /\ cycle' = "marking" /\ DOMAIN batch' = Pending /\ todo' = Pending
          /\ \A u \in Pending : batch'[u] = box[u].attempts
          /\ UNCHANGED <<box, online, timer, answers, requests, late, number, shiftOpen, corrupt>>
      BY <1>7, <2>3 DEF ReadPending
    <3>2. Pending \subseteq Sales
      BY DEF Pending
    <3>3. TypeOK'
      BY <1>0, <2>1, <3>1, <3>2 DEF TypeOK
    <3> QED
      BY <2>1, <3>1, <3>2, <3>3
      DEF Pending, Safe, MarksFit, WireFits, AnswersOfficial, ShownNumberIsOfficial,
          CycleOwnsItsBatch
  <2> QED
    BY <2>2, <2>3
<1>8. ASSUME NEW u \in Sales, MarkSyncing(u) PROVE Safe'
  <2>1. TypeOK'
    BY <1>0, <1>8 DEF MarkSyncing, TypeOK
  <2>2. MarksFit'
    BY <1>0, <1>8 DEF MarkSyncing, Safe, MarksFit, TypeOK
  <2> QED
    BY <1>0, <1>8, <2>1, <2>2
    DEF MarkSyncing, Safe, WireFits, AnswersOfficial, ShownNumberIsOfficial, CycleOwnsItsBatch,
        TypeOK
<1>9. CASE Post
  <2>0. DOMAIN answers' = {} /\ requests = {}
    BY <1>9 DEF Post, Safe, WireFits
  <2>1. TypeOK'
    BY <1>0, <1>9, <2>0 DEF Post, TypeOK
  <2>2. WireFits' /\ MarksFit' /\ AnswersOfficial'
    BY <1>9, <2>0 DEF Post, Safe, WireFits, MarksFit, AnswersOfficial
  <2> QED
    BY <1>0, <1>9, <2>1, <2>2 DEF Post, Safe, MarksFit, ShownNumberIsOfficial, CycleOwnsItsBatch
<1>10. CASE Response
  <2>1. TypeOK'
    BY <1>0, <1>10 DEF Response, TypeOK
  <2> QED
    BY <1>10, <2>1
    DEF Response, Safe, MarksFit, WireFits, AnswersOfficial, ShownNumberIsOfficial,
        CycleOwnsItsBatch
<1>11. CASE NetworkError
  <2>1. TypeOK'
    BY <1>0, <1>11 DEF NetworkError, TypeOK
  <2> QED
    BY <1>11, <2>1
    DEF NetworkError, Safe, MarksFit, WireFits, AnswersOfficial, ShownNumberIsOfficial,
        CycleOwnsItsBatch
<1>12. ASSUME NEW u \in Sales, Requeue(u) PROVE Safe'
  <2>1. /\ box' = Retried(u, "network") /\ Retried(u, "network")[u].status = "retry"
        /\ \A v \in Sales \ {u} : box'[v] = box[v]
    BY <1>0, <1>12, RetriedRow DEF Requeue, Errors
  <2>2. TypeOK'
    BY <1>0, <1>12, RetriedRow DEF Requeue, TypeOK, Errors
  <2> QED
    BY <1>0, <1>12, <2>1, <2>2
    DEF Requeue, Safe, MarksFit, WireFits, AnswersOfficial, ShownNumberIsOfficial,
        CycleOwnsItsBatch, TypeOK
<1>13. ASSUME NEW u \in Sales, Settle(u) PROVE Safe'
  <2>0. /\ cycle = "settling" /\ u \in todo /\ u \in DOMAIN answers
        /\ UNCHANGED <<online, cycle, batch, answers, wire, server, used>>
        /\ todo' = todo \ {u}
    BY <1>0, <1>13 DEF Settle, Safe, WireFits, TypeOK
  <2>1. /\ \A v \in Sales \ {u} : box'[v] = box[v]
        /\ box' \in [Sales ->
                 [status : {"absent", "pending", "syncing", "retry", "committed", "cleared"},
                  attempts : 0..MaxAttempts, number : 0..Cardinality(Sales),
                  lastError : Errors]]
        /\ timer' \in BOOLEAN
        /\ \/ box'[u].status = "retry"
           \/ /\ answers[u].status = "committed"
              /\ box'[u].status = "committed" /\ box'[u].number = answers[u].number
    <3>1. answers[u] \in Answers
      BY <1>0, <2>0 DEF TypeOK
    <3>2. CASE answers[u].status = "committed"
      <4>1. timer' = timer /\ box' = [box EXCEPT ![u].status = "committed",
                                                 ![u].number = answers[u].number]
        BY <1>13, <3>2 DEF Settle
      <4>2. answers[u].number \in 0..Cardinality(Sales)
        BY <3>1, <3>2 DEF Answers
      <4>3. /\ timer \in BOOLEAN
            /\ box \in [Sales ->
                 [status : {"absent", "pending", "syncing", "retry", "committed", "cleared"},
                  attempts : 0..MaxAttempts, number : 0..Cardinality(Sales),
                  lastError : Errors]]
        BY <1>0 DEF TypeOK
      <4>4. \A v \in Sales \ {u} : box'[v] = box[v]
        BY <4>1, <4>3
      <4>5. box'[u].status = "committed" /\ box'[u].number = answers[u].number
        BY <4>1, <4>3
      <4>6. box' \in [Sales ->
                 [status : {"absent", "pending", "syncing", "retry", "committed", "cleared"},
                  attempts : 0..MaxAttempts, number : 0..Cardinality(Sales),
                  lastError : Errors]]
        <5>1. PICK n \in 0..Cardinality(Sales) : n = answers[u].number
          BY <4>2
        <5> DEFINE BoxRows ==
              [status : {"absent", "pending", "syncing", "retry", "committed", "cleared"},
               attempts : 0..MaxAttempts, number : 0..Cardinality(Sales),
               lastError : Errors]
        <5>2. PICK old \in BoxRows : old = box[u]
          BY <4>3
        <5>3. [[old EXCEPT !.status = "committed"] EXCEPT !.number = n] \in BoxRows
          OBVIOUS
        <5>4. box' = [box EXCEPT ![u] = [[old EXCEPT !.status = "committed"] EXCEPT !.number = n]]
          BY <4>1, <4>3, <5>1, <5>2
        <5> HIDE DEF BoxRows
        <5>5. box \in [Sales -> BoxRows]
          BY <4>3 DEF BoxRows
        <5>6. box' \in [Sales -> BoxRows]
          BY <5>3, <5>4, <5>5
        <5> QED
          BY <5>6 DEF BoxRows
      <4> QED
        BY <3>2, <4>1, <4>3, <4>4, <4>5, <4>6
    <3>3. CASE answers[u].status = "rejected"
      <4>1. timer' = timer /\ box' = Retried(u, "rejected")
        BY <1>13, <3>3 DEF Settle
      <4>2. timer \in BOOLEAN /\ "rejected" \in Errors
        BY <1>0 DEF TypeOK, Errors
      <4> QED
        BY <1>0, <4>1, <4>2, RetriedRow
    <3>4. CASE answers[u].status = "retry"
      <4>1. PICK error \in Errors : box' = Retried(u, error)
        BY <1>13, <3>4 DEF Settle, Errors
      <4>2. timer' \in BOOLEAN
        BY <1>13, <3>4 DEF Settle
      <4> QED
        BY <1>0, <4>1, <4>2, RetriedRow
    <3> QED
      BY <3>1, <3>2, <3>3, <3>4 DEF Answers, Results
  <2>2. TypeOK'
    BY <1>0, <2>0, <2>1 DEF TypeOK
  <2>3. ShownNumberIsOfficial'
    BY <2>0, <2>1 DEF Safe, AnswersOfficial, ShownNumberIsOfficial
  <2> QED
    BY <1>0, <2>0, <2>1, <2>2, <2>3
    DEF Safe, MarksFit, WireFits, AnswersOfficial, CycleOwnsItsBatch, TypeOK
<1>14. CASE EndCycle
  <2>0. DOMAIN batch' = {} /\ DOMAIN answers' = {} /\ requests = {}
    BY <1>14 DEF EndCycle, Safe, WireFits
  <2>1. TypeOK'
    BY <1>0, <1>14, <2>0 DEF EndCycle, TypeOK
  <2> QED
    BY <1>14, <2>0, <2>1
    DEF EndCycle, Safe, MarksFit, WireFits, AnswersOfficial, ShownNumberIsOfficial,
        CycleOwnsItsBatch
<1>15. ASSUME NEW u \in Sales, Serve(u) PROVE Safe'
  <2>1. PICK hiccup \in BOOLEAN, a \in Answers :
           /\ Processed(u, hiccup, a)
           /\ answers' = [v \in DOMAIN answers \cup {u} |-> IF v = u THEN a ELSE answers[v]]
    BY <1>15 DEF Serve
  <2>2. /\ u \in requests /\ requests' = requests \ {u}
        /\ UNCHANGED <<box, online, timer, cycle, batch, todo, late, shiftOpen, corrupt>>
        /\ cycle \in {"waiting", "broken"} /\ u \notin DOMAIN answers
    BY <1>15 DEF Serve, Safe, WireFits
  <2>3. /\ number' \in [Sales -> 0..Cardinality(Sales)]
        /\ \A v \in Sales : number[v] > 0 => number'[v] = number[v]
        /\ a.status = "committed" => number'[u] > 0 /\ a.number = number'[u]
    BY <1>0, <2>1, ProcessedIsOfficial
  <2>4. /\ DOMAIN answers' = DOMAIN answers \cup {u} /\ answers'[u] = a
        /\ \A v \in DOMAIN answers : answers'[v] = answers[v]
    BY <2>1, <2>2
  <2>5. TypeOK'
    BY <1>0, <2>1, <2>2, <2>3, <2>4 DEF TypeOK
  <2>6. AnswersOfficial' /\ ShownNumberIsOfficial'
    BY <1>0, <2>2, <2>3, <2>4 DEF Safe, AnswersOfficial, ShownNumberIsOfficial, TypeOK
  <2>7. WireFits'
    BY <1>0, <2>2, <2>4 DEF Safe, WireFits, TypeOK
  <2> QED
    BY <2>2, <2>5, <2>6, <2>7 DEF Safe, MarksFit, CycleOwnsItsBatch
<1>16. ASSUME NEW u \in Sales, ServeLate(u) \/ ForceClose(u) PROVE Safe'
  <2>1. /\ number' \in [Sales -> 0..Cardinality(Sales)]
        /\ \A v \in Sales : number[v] > 0 => number'[v] = number[v]
    BY <1>0, <1>16, ProcessedIsOfficial DEF ServeLate, ForceClose, TypeOK
  <2>2. /\ UNCHANGED <<box, online, engine, requests, shiftOpen, corrupt, used>>
        /\ late' \subseteq Sales
    BY <1>0, <1>16 DEF ServeLate, ForceClose, TypeOK
  <2>3. TypeOK'
    BY <1>0, <2>1, <2>2 DEF TypeOK
  <2> QED
    BY <2>1, <2>2, <2>3, NumbersOnly
<1>17. CASE CloseShift
  BY <1>0, <1>17, NumbersOnly DEF CloseShift, TypeOK
<1>18. CASE UNCHANGED vars
  BY <1>0, <1>18, NumbersOnly DEF vars, TypeOK
<1> QED
  BY <1>1, <1>2, <1>3, <1>4, <1>5, <1>6, <1>7, <1>8, <1>9, <1>10, <1>11, <1>12, <1>13, <1>14,
     <1>15, <1>16, <1>17, <1>18 DEF Next, Cycle

\* Rows, cycle, batch, answers and the server's table keep their types, and what
\* a cycle has read never outgrows the outbox (outbox-store.ts, sync-engine.ts).
THEOREM OutboxTyped == Spec => []TypeOK
<1>1. Safe => TypeOK
  BY DEF Safe
<1> QED
  BY <1>1, SafeInit, SafeNext, PTL DEF Spec

\* The number a terminal shows is the one the server gave, for any number of
\* reloads, lost requests, late answers and manual repairs (outbox-store.ts).
THEOREM ShownIsOfficial == Spec => []ShownNumberIsOfficial
<1>1. Safe => ShownNumberIsOfficial
  BY DEF Safe
<1> QED
  BY <1>1, SafeInit, SafeNext, PTL DEF Spec

\* The bills of a request are "syncing" until the cycle that read them settles
\* them, so one cycle at a time submits a bill (sync-engine.ts runSync).
THEOREM CycleOwns == Spec => []CycleOwnsItsBatch
<1>1. Safe => CycleOwnsItsBatch
  BY DEF Safe
<1> QED
  BY <1>1, SafeInit, SafeNext, PTL DEF Spec

\* A row stays until it shows its official number, and a settled row stays
\* settled, in every step of terminal and server (outbox-store.ts).
THEOREM RowsKeptUntilNumbered == Spec => KeptUntilNumbered
<1> DEFINE Kept ==
      \A u \in Sales :
          /\ box[u].status # "absent" => box'[u].status # "absent"
          /\ box'[u].status = "cleared" => number[u] > 0
          /\ box[u].status \in {"committed", "cleared"} =>
                box'[u].status \in {"committed", "cleared"}
<1>1. Safe /\ [Next]_vars => Kept
  <2> SUFFICES ASSUME Safe, [Next]_vars PROVE Kept
    OBVIOUS
  <2>0. TypeOK /\ \A u \in Sales : box[u].status = "cleared" => number[u] > 0
    BY DEF Safe, ShownNumberIsOfficial
  <2>1. CASE UNCHANGED box
    BY <2>0, <2>1
  <2>2. ASSUME NEW u \in Sales, Queue(u) PROVE Kept
    BY <2>0, <2>2 DEF Queue, TypeOK
  <2>3. CASE ClearCommitted
    BY <2>0, <2>3 DEF ClearCommitted, TypeOK, Safe, ShownNumberIsOfficial
  <2>4. ASSUME NEW u \in Sales, MarkSyncing(u) PROVE Kept
    BY <2>0, <2>4 DEF MarkSyncing, TypeOK, Safe, MarksFit
  <2>5. ASSUME NEW u \in Sales, Requeue(u) PROVE Kept
    <3>1. box[u].status = "syncing"
      BY <2>5 DEF Requeue, Safe, CycleOwnsItsBatch
    <3>2. /\ \A v \in Sales \ {u} : box'[v] = box[v]
          /\ box'[u].status = "retry"
      BY <2>0, <2>5, RetriedRow DEF Requeue, Errors
    <3> QED
      BY <2>0, <3>1, <3>2
  <2>6. ASSUME NEW u \in Sales, Settle(u) PROVE Kept
    <3>1. box[u].status = "syncing"
      BY <2>6 DEF Settle, Safe, CycleOwnsItsBatch
    <3>2. /\ \A v \in Sales \ {u} : box'[v] = box[v]
          /\ box'[u].status \in {"committed", "retry"}
      <4>1. answers[u].status \in {"committed", "retry", "rejected"}
        BY <2>0, <2>6 DEF Settle, Safe, WireFits, TypeOK, Answers, Results
      <4>2. \/ box' = [box EXCEPT ![u].status = "committed", ![u].number = answers[u].number]
            \/ \E error \in Errors : box' = Retried(u, error)
        BY <2>6, <4>1 DEF Settle, Errors
      <4>3. CASE box' = [box EXCEPT ![u].status = "committed", ![u].number = answers[u].number]
        BY <2>0, <4>3 DEF TypeOK
      <4>4. ASSUME NEW error \in Errors, box' = Retried(u, error)
            PROVE  /\ \A v \in Sales \ {u} : box'[v] = box[v]
                   /\ box'[u].status = "retry"
        BY <2>0, <4>4, RetriedRow
      <4> QED
        BY <4>2, <4>3, <4>4
    <3> QED
      BY <2>0, <3>1, <3>2
  <2> QED
    BY <2>1, <2>2, <2>3, <2>4, <2>5, <2>6
    DEF Next, Cycle, vars, wire, server, engine, GoOnline, GoOffline, Reload, TimerFires,
        ReadPending, Post, Response, NetworkError, EndCycle, Serve, ServeLate, ForceClose,
        CloseShift
<1> QED
  BY <1>1, SafeInit, SafeNext, PTL DEF Spec, KeptUntilNumbered

-----------------------------------------------------------------------------

(***************************************************************************)
(* Prices.  The inductive invariant has seven parts: the tables, the till  *)
(* and the calls hold what they should, and a call was asked for what the  *)
(* place it is at is about (Typed); calls that meet are on record          *)
(* (MetIsRaced), which the next two rest on; a checked window still fits   *)
(* (WindowsFit), a sale that reads the book will be priced as it was dated *)
(* (SalesFit), what the till holds is as good as its stamp (TillFits), a   *)
(* redemption goes on only with the row (VoucherFits) and a version being  *)
(* edited has not begun (EditsFit).                                        *)
(***************************************************************************)
Keyed(cells) == \A x, y \in cells : SameKey(x, y) => x = y

TillRow ==
    till = [cache |-> till.cache, shown |-> till.shown, sale |-> till.sale, synced |-> till.synced]

VoucherRow ==
    /\ voucher = [left |-> voucher.left, used |-> voucher.used,
                  active |-> voucher.active, lock |-> voucher.lock]
    /\ voucher.lock \in Calls \cup {None}

Tables ==
    /\ windows \in [Ids -> Intervals \cup {None}]
    /\ versions \in [Ids -> VersionRows \cup {None}]
    /\ \A v \in Rows(versions) : Keyed(versions[v].cells)
    /\ holidays \in [Scope -> SUBSET Days]
    /\ today \in Days /\ published \in Nat
    /\ TillRow /\ VoucherRow

Editing == {"cell", "insert", "update"}

Tabled ==
    /\ at = [c \in Calls |-> at[c]]
    /\ req = [c \in Calls |-> req[c]] /\ seen = [c \in Calls |-> seen[c]]

\* What a call that is at a place was asked for.
Fits(where, op) ==
    \/ where = "window" /\ op \in {"createWindow", "updateWindow"}
    \/ where = "version" /\ op = "createVersion"
    \/ where \in Editing /\ op = "upsertCell"
    \/ where = "entries" /\ op = "setHolidays"
    \/ where = "begin" /\ op \in {"sell", "sync", "redeem"}
    \/ where = "reads" /\ op \in {"sell", "sync", "refresh"}
    \/ where \in {"row", "reread"} /\ op = "redeem"

CallFits(c) ==
    /\ c \in InFlight => Fits(at[c], req[c].op)
    /\ at[c] = "window" => req[c].window \in Intervals /\ seen[c] \in Ids
    /\ at[c] = "version" =>
          /\ req[c].day \in Days /\ req[c].branch \in Scope
          /\ seen[c] \in SUBSET CellRows /\ Keyed(seen[c])
    /\ at[c] \in Editing =>
          /\ req[c].version \in Rows(versions) /\ req[c].window \in Ids
          /\ req[c].type \in DayType /\ req[c].branch \in Scope /\ req[c].vnd \in Vnd
    /\ at[c] = "entries" => req[c].branch \in Scope /\ req[c].days \in SUBSET Days
    /\ at[c] = "reads" =>
          seen[c] = [day |-> seen[c].day, minute |-> seen[c].minute, asked |-> seen[c].asked,
                     windows |-> seen[c].windows, versions |-> seen[c].versions]
    /\ versions[c] # None => at[c] = "done"

PlacesFit == Tabled /\ \A c \in Calls : CallFits(c)

Typed == Tables /\ PlacesFit

\* Two calls in flight that touch a topic are on record.
MetIsRaced ==
    \A c, d \in InFlight : c # d => Touches(req[c].op) \cap Touches(req[d].op) \subseteq raced

\* A window that has been checked still fits, unless another edit came between.
WindowsFit ==
    \/ "windows" \in raced
    \/ /\ \A v, w \in Rows(windows) : v # w => ~Overlap(windows[v], windows[w])
       /\ \A c \in Calls : at[c] = "window" => NoOverlap(req[c].window, seen[c])

\* What a call has read of the book is the book.
ReadIsBook(c) ==
    /\ seen[c].windows \in {None, windows}
    /\ seen[c].versions \in {None, versions}

\* A sale in flight will be priced as it was when it was dated.
SaleFits(c) ==
    \/ raced \cap {"windows", "versions", "holidays"} # {}
    \/ ReadIsBook(c) /\ seen[c].asked = PriceAt(seen[c].day, seen[c].minute)

SalesFit ==
    /\ BillBearsItsPrice
    /\ \A c \in Calls : at[c] = "reads" /\ req[c].op = "sell" => SaleFits(c)

\* A stamp is never ahead, and what bears the newest one is the book.
Stamped(stamp, fresh) == stamp \in Nat /\ stamp <= published /\ (stamp = published => fresh)

BookPrice(day, minute) == Paid(Resolve(windows, versions, FALSE, day, minute))

CacheFits ==
    Stamped(till.cache.stamp, till.cache.windows = windows /\ till.cache.versions = versions)

ShownFits ==
    till.shown # None =>
        Stamped(till.shown.stamp, till.shown.vnd = BookPrice(till.shown.day, till.shown.minute))

TicketFits ==
    till.sale # None =>
        Stamped(till.sale.stamp, \/ till.sale.late
                                 \/ till.sale.paid = BookPrice(till.sale.day, till.sale.minute))

\* A query under way will fill the cache with the book, unless a write came.
RefreshFits(c) ==
    at[c] = "reads" /\ req[c].op = "refresh" => Stamped(seen[c].asked, ReadIsBook(c))

\* An upload under way is the only one, and prices the sale by the book.
SyncFits(c) ==
    c \in InFlight /\ req[c].op = "sync" =>
        /\ till.sale # None
        /\ \A d \in InFlight : req[d].op = "sync" => d = c
        /\ at[c] = "reads" =>
              /\ seen[c].day = till.sale.day /\ seen[c].minute = till.sale.minute
              /\ till.sale.stamp = published => ReadIsBook(c)

TillFits ==
    /\ CacheFits /\ ShownFits /\ TicketFits /\ OfflineHasCause
    /\ \A c \in Calls : RefreshFits(c) /\ SyncFits(c)

\* A redemption goes on only with the row, on which something is left.
VoucherFits ==
    /\ voucher.left \in Nat /\ voucher.used \in Nat /\ voucher.left + voucher.used = Quota
    /\ \A c \in Calls : at[c] = "reread" => voucher.lock = c /\ voucher.left > 0

\* The version a call edits has not begun, unless midnight came between.
EditsFit ==
    \/ "midnight" \in raced
    \/ \A c \in Calls : at[c] \in Editing => Editable(req[c].version)

-----------------------------------------------------------------------------
(***************************************************************************)
(* How the calls move.                                                     *)
(***************************************************************************)
\* Call c is then at where with request r and v in memory, the others stay.
Moved(c, where, r, v) ==
    /\ at'[c] = where /\ req'[c] = r /\ seen'[c] = v
    /\ \A d \in Calls \ {c} : at'[d] = at[d] /\ req'[d] = req[d] /\ seen'[d] = seen[d]
    /\ Tabled'

\* Goto moves its call and keeps its request.
LEMMA GotoMoves ==
    ASSUME Tabled, NEW c \in Calls, NEW where, NEW v, Goto(c, where, v)
    PROVE  Moved(c, where, req[c], v)
  BY DEF Tabled, Goto, Moved

\* A call that is answered is done, and nothing of it is kept.
LEMMA DoneMoves ==
    ASSUME Tabled, NEW c \in Calls, Done(c)
    PROVE  Moved(c, "done", None, None)
  BY DEF Tabled, Done, Moved

\* A request that arrives is its call's.
LEMMA ArriveMoves ==
    ASSUME Tabled, NEW c \in Calls, NEW r, NEW where, NEW v, Arrive(c, r, where, v)
    PROVE  Moved(c, where, r, v)
  BY DEF Tabled, Arrive, Moved

\* A request that is refused at once leaves nothing behind.
LEMMA RefuseMoves ==
    ASSUME Tabled, NEW c \in Calls, NEW r, Refuse(c, r)
    PROVE  Moved(c, "done", req[c], seen[c])
  BY DEF Tabled, Refuse, Moved

\* Only a call that has not come yet arrives, with a request for one of ops.
LEMMA Arrives ==
    ASSUME NEW c \in Calls, NEW ops, NEW r \in Arriving(c, ops)
    PROVE  at[c] = "idle" /\ r.op \in ops /\ r \in Requests(r.op)
<1>1. at[c] = "idle" /\ \E op \in ops : r \in Requests(op)
  BY DEF Arriving
<1>2. PICK op \in ops : r \in Requests(op)
  BY <1>1
<1>3. r.op = op
  BY <1>2 DEF Requests
<1> QED
  BY <1>1, <1>2, <1>3

\* A step of call c moves no other call.
OthersStay(c) == \A d \in Calls \ {c} : at'[d] = at[d] /\ req'[d] = req[d] /\ seen'[d] = seen[d]

\* Each place is reached by the actions that lead to it.
LeadsTo(c) ==
    /\ at'[c] = "window" => CheckWindow(c)
    /\ at'[c] = "version" => CreateVersion(c)
    /\ at'[c] = "cell" => CheckCell(c)
    /\ at'[c] \in {"insert", "update"} => FindCell(c)
    /\ at'[c] = "entries" => DeleteEntries(c)
    /\ at'[c] = "begin" => Ask(c, "sell") \/ AskSync(c) \/ Ask(c, "redeem")
    /\ at'[c] = "reads" => RefreshCatalog(c) \/ BeginSale(c) \/ ReadBook(c)
    /\ at'[c] = "row" => BeginRedeem(c)
    /\ at'[c] = "reread" => LockVoucher(c)
    /\ at'[c] # "idle"

\* A call that starts.
LEMMA StartLeads ==
    ASSUME Tabled, NEW c \in Calls, Start(c)
    PROVE  OthersStay(c) /\ Tabled' /\ LeadsTo(c)
<1>1. CASE CheckWindow(c)
  <2>1. PICK r, id : Arrive(c, r, "window", id) \/ Refuse(c, r)
    BY <1>1 DEF CheckWindow
  <2> QED
    BY <1>1, <2>1, ArriveMoves, RefuseMoves DEF Moved, OthersStay, LeadsTo
<1>2. CASE CreateVersion(c)
  <2>1. PICK r, v : Arrive(c, r, "version", v)
    BY <1>2 DEF CreateVersion
  <2> QED
    BY <1>2, <2>1, ArriveMoves DEF Moved, OthersStay, LeadsTo
<1>3. CASE CheckCell(c)
  <2>1. PICK r : Arrive(c, r, "cell", None) \/ Refuse(c, r)
    BY <1>3 DEF CheckCell
  <2> QED
    BY <1>3, <2>1, ArriveMoves, RefuseMoves DEF Moved, OthersStay, LeadsTo
<1>4. CASE DeleteEntries(c)
  <2>1. PICK r, v : Arrive(c, r, "entries", v)
    BY <1>4 DEF DeleteEntries
  <2> QED
    BY <1>4, <2>1, ArriveMoves DEF Moved, OthersStay, LeadsTo
<1>5. CASE Ask(c, "sell") \/ AskSync(c) \/ Ask(c, "redeem")
  <2>1. PICK r : Arrive(c, r, "begin", None)
    BY <1>5 DEF Ask, AskSync
  <2> QED
    BY <1>5, <2>1, ArriveMoves DEF Moved, OthersStay, LeadsTo
<1>8. CASE RejectSync(c)
  <2>1. PICK r : Refuse(c, r)
    BY <1>8 DEF RejectSync
  <2> QED
    BY <2>1, RefuseMoves DEF Moved, OthersStay, LeadsTo
<1>6. CASE Deactivate(c)
  <2>1. PICK r : Arrive(c, r, "done", None)
    BY <1>6 DEF Deactivate
  <2> QED
    BY <2>1, ArriveMoves DEF Moved, OthersStay, LeadsTo
<1>7. CASE RefreshCatalog(c)
  <2>1. PICK r, v : Arrive(c, r, "reads", v)
    BY <1>7 DEF RefreshCatalog
  <2> QED
    BY <1>7, <2>1, ArriveMoves DEF Moved, OthersStay, LeadsTo
<1> QED
  BY <1>1, <1>2, <1>3, <1>4, <1>5, <1>6, <1>7, <1>8 DEF Start

\* A call that goes on.
LEMMA StepLeads ==
    ASSUME Tabled, NEW c \in Calls, Step(c)
    PROVE  OthersStay(c) /\ Tabled' /\ LeadsTo(c)
<1>1. CASE Done(c)
  BY <1>1, DoneMoves DEF Moved, OthersStay, LeadsTo
<1>2. CASE FindCell(c)
  <2>1. PICK where \in {"insert", "update"} : Goto(c, where, None)
    BY <1>2 DEF FindCell
  <2> QED
    BY <1>2, <2>1, GotoMoves DEF Moved, OthersStay, LeadsTo
<1>3. CASE (BeginSale(c) \/ ReadBook(c)) /\ ~Done(c)
  <2>1. PICK v : Goto(c, "reads", v)
    BY <1>3 DEF BeginSale, ReadBook
  <2> QED
    BY <1>3, <2>1, GotoMoves DEF Moved, OthersStay, LeadsTo
<1>4. CASE BeginRedeem(c)
  BY <1>4, GotoMoves DEF Moved, OthersStay, LeadsTo, BeginRedeem
<1>5. CASE LockVoucher(c) /\ ~Done(c)
  <2>1. Goto(c, "reread", None)
    BY <1>5 DEF LockVoucher
  <2> QED
    BY <1>5, <2>1, GotoMoves DEF Moved, OthersStay, LeadsTo
<1>6. \/ Done(c) \/ FindCell(c) \/ BeginSale(c) \/ ReadBook(c) \/ BeginRedeem(c) \/ LockVoucher(c)
  BY DEF Step, WriteWindow, WriteVersion, UpdateCell, InsertCell, InsertRejected, InsertEntries,
         PutCatalog, CommitSale, CommitSync, CommitRedeem, TimeOut, Published
<1> QED
  BY <1>1, <1>2, <1>3, <1>4, <1>5, <1>6

\* Who writes what: each row of the book, the till, the bills and the voucher.
Writes(c) ==
    /\ windows' # windows => WriteWindow(c)
    /\ versions' # versions => WriteVersion(c) \/ UpdateCell(c) \/ InsertCell(c)
    /\ holidays' # holidays => InsertEntries(c)
    /\ till' # till => PutCatalog(c) \/ CommitSync(c) \/ RejectSync(c)
    /\ bills' # bills => CommitSale(c)
    /\ voucher' # voucher =>
          LockVoucher(c) \/ CommitRedeem(c) \/ TimeOut(c) \/ Deactivate(c)
    /\ today' = today /\ raced \subseteq raced'
    /\ published' = published \/ Published(c)
    /\ windows' # windows \/ versions' # versions => published' = published + 1

\* A call that starts writes nothing but a deactivated voucher and a refused sale.
LEMMA StartWrites ==
    ASSUME NEW c \in Calls, Start(c)
    PROVE  Writes(c)
<1>1. CASE CheckWindow(c)
  BY <1>1 DEF CheckWindow, Writes, Arrive, Refuse, book
<1>2. CASE CreateVersion(c)
  BY <1>2 DEF CreateVersion, Writes, Arrive, book
<1>3. CASE CheckCell(c)
  BY <1>3 DEF CheckCell, Writes, Arrive, Refuse, book
<1>4. CASE DeleteEntries(c)
  BY <1>4 DEF DeleteEntries, Writes, Arrive, book
<1>5. CASE Ask(c, "sell") \/ AskSync(c) \/ Ask(c, "redeem")
  BY <1>5 DEF Ask, AskSync, Writes, Arrive, book
<1>6. CASE Deactivate(c)
  BY <1>6 DEF Deactivate, Writes, Arrive, book
<1>7. CASE RefreshCatalog(c)
  BY <1>7 DEF RefreshCatalog, Writes, Arrive, book
<1>8. CASE RejectSync(c)
  BY <1>8 DEF RejectSync, Writes, Refuse, book
<1> QED
  BY <1>1, <1>2, <1>3, <1>4, <1>5, <1>6, <1>7, <1>8 DEF Start

\* What a call that goes on writes.
LEMMA StepWrites ==
    ASSUME NEW c \in Calls, Step(c)
    PROVE  Writes(c)
<1>1. CASE WriteWindow(c) \/ WriteVersion(c)
  BY <1>1 DEF WriteWindow, WriteVersion, Published, Writes
<1>2. CASE UpdateCell(c) \/ InsertCell(c)
  BY <1>2 DEF UpdateCell, InsertCell, Published, Writes
<1>3. CASE FindCell(c) \/ InsertRejected(c)
  BY <1>3 DEF FindCell, InsertRejected, Writes, book
<1>4. CASE InsertEntries(c)
  BY <1>4 DEF InsertEntries, Writes
<1>5. CASE BeginSale(c) \/ ReadBook(c)
  BY <1>5 DEF BeginSale, ReadBook, Writes, book
<1>6. CASE PutCatalog(c)
  BY <1>6 DEF PutCatalog, Writes, book
<1>7. CASE CommitSale(c)
  BY <1>7 DEF CommitSale, Writes, book
<1>8. CASE CommitSync(c)
  BY <1>8 DEF CommitSync, Writes, book
<1>9. CASE BeginRedeem(c) \/ LockVoucher(c)
  BY <1>9 DEF BeginRedeem, LockVoucher, Writes, book
<1>10. CASE CommitRedeem(c) \/ TimeOut(c)
  BY <1>10 DEF CommitRedeem, TimeOut, Writes, book
<1> QED
  BY <1>1, <1>2, <1>3, <1>4, <1>5, <1>6, <1>7, <1>8, <1>9, <1>10 DEF Step

\* Together: what a step of one call does.
LEMMA CallMoves ==
    ASSUME Tabled, NEW c \in Calls, Start(c) \/ Step(c)
    PROVE  OthersStay(c) /\ Tabled' /\ LeadsTo(c) /\ Writes(c)
  BY StartLeads, StepLeads, StartWrites, StepWrites

-----------------------------------------------------------------------------
(***************************************************************************)
(* The vouchers.                                                           *)
(***************************************************************************)
\* A program starts with its quota unused.
LEMMA VoucherInit == PriceInit => VoucherRow /\ VoucherFits
  BY PriceBounds DEF PriceInit, VoucherRow, VoucherFits

\* The row keeps its shape.
LEMMA VoucherRowStep ==
    ASSUME VoucherRow, NEW c \in Calls, Start(c) \/ Step(c)
    PROVE  VoucherRow'
<1>1. voucher' = voucher \/ LockVoucher(c) \/ CommitRedeem(c) \/ TimeOut(c) \/ Deactivate(c)
  BY StartWrites, StepWrites DEF Writes
<1>2. CASE voucher' = voucher
  BY <1>2 DEF VoucherRow
<1>3. CASE LockVoucher(c) /\ voucher' # voucher
  BY <1>3 DEF LockVoucher, VoucherRow
<1>4. CASE CommitRedeem(c)
  <2>1. PICK l, u, a, k : voucher = [left |-> l, used |-> u, active |-> a, lock |-> k]
    BY DEF VoucherRow
  <2>2. voucher' = [left |-> l - 1, used |-> u + 1, active |-> a, lock |-> None]
    BY <1>4, <2>1 DEF CommitRedeem
  <2> QED
    BY <2>2 DEF VoucherRow
<1>5. CASE TimeOut(c)
  BY <1>5 DEF TimeOut, VoucherRow
<1>6. CASE Deactivate(c)
  BY <1>6 DEF Deactivate, VoucherRow
<1> QED
  BY <1>1, <1>2, <1>3, <1>4, <1>5, <1>6

\* A redemption that goes on holds the row: LockVoucher takes it only when it is
\* free, and the decrement and the rollback give it back with the call's end.
LEMMA VoucherStep ==
    ASSUME Tabled, VoucherRow, VoucherFits, NEW c \in Calls, Start(c) \/ Step(c)
    PROVE  VoucherFits'
<1>1. /\ OthersStay(c) /\ LeadsTo(c)
      /\ voucher' = voucher \/ LockVoucher(c) \/ CommitRedeem(c) \/ TimeOut(c) \/ Deactivate(c)
  BY CallMoves DEF Writes
<1>2. None \notin Calls
  BY NoneIsNoRow
<1>3. CASE LockVoucher(c)
  <2>1. CASE voucher' = [voucher EXCEPT !.lock = c] /\ voucher.lock = None /\ voucher.left > 0
    BY <2>1, <1>1, <1>2 DEF OthersStay, VoucherFits, VoucherRow
  <2>2. CASE voucher' = voucher /\ Done(c)
    BY <2>2, <1>1, DoneMoves DEF OthersStay, VoucherFits, Moved
  <2> QED
    BY <2>1, <2>2, <1>3 DEF LockVoucher
<1>4. CASE CommitRedeem(c)
  <2>1. at[c] = "reread" /\ at'[c] = "done"
    BY <1>4, DoneMoves DEF CommitRedeem, Moved
  <2>2. voucher.lock = c /\ voucher.left > 0
    BY <2>1 DEF VoucherFits
  <2>3. voucher' = [voucher EXCEPT !.left = @ - 1, !.used = @ + 1, !.lock = None]
    BY <1>4 DEF CommitRedeem
  <2> QED
    BY <2>1, <2>2, <2>3, <1>1 DEF OthersStay, VoucherFits, VoucherRow
<1>5. CASE TimeOut(c)
  <2>1. at'[c] = "done"
    BY <1>5, DoneMoves DEF TimeOut, Moved
  <2>2. voucher' = IF voucher.lock = c THEN [voucher EXCEPT !.lock = None] ELSE voucher
    BY <1>5 DEF TimeOut
  <2> QED
    BY <2>1, <2>2, <1>1 DEF OthersStay, VoucherFits, VoucherRow
<1>6. CASE Deactivate(c)
  <2>1. voucher.lock = None /\ voucher' = [voucher EXCEPT !.active = FALSE] /\ at'[c] # "reread"
    <3>1. PICK r : Arrive(c, r, "done", None)
      BY <1>6 DEF Deactivate
    <3> QED
      BY <3>1, <1>6, ArriveMoves DEF Deactivate, Moved
  <2> QED
    BY <2>1, <1>1, <1>2 DEF OthersStay, VoucherFits, VoucherRow
<1>7. CASE voucher' = voucher /\ ~LockVoucher(c)
  BY <1>7, <1>1 DEF OthersStay, VoucherFits, LeadsTo
<1> QED
  BY <1>1, <1>3, <1>4, <1>5, <1>6, <1>7

Vouchers == Tabled /\ VoucherRow /\ VoucherFits

\* The calls are in their tables when nothing has come yet.
LEMMA TabledInit == PriceInit => Tabled
  BY DEF PriceInit, Tabled

\* Every step of the specification keeps the vouchers right.
LEMMA VouchersNext == Vouchers /\ [PriceNext]_priceVars => Vouchers'
<1> SUFFICES ASSUME Vouchers, [PriceNext]_priceVars PROVE Vouchers'
  OBVIOUS
<1>1. ASSUME NEW c \in Calls, Start(c) \/ Step(c) PROVE Vouchers'
  BY <1>1, CallMoves, VoucherRowStep, VoucherStep DEF Vouchers
<1>2. CASE UNCHANGED <<at, req, seen, voucher>>
  BY <1>2 DEF Vouchers, Tabled, VoucherRow, VoucherFits
<1> QED
  BY <1>1, <1>2 DEF PriceNext, ShowPrices, SellOffline, Midnight, priceVars, call

\* Uses and remaining uses of a voucher always add up to its quota, however many
\* redemptions run together, are refused, time out or are rolled back
\* (discounts.service, redeemVoucher and deactivateProgram).
THEOREM QuotaAlwaysAddsUp == PriceSpec => []QuotaAddsUp
<1>1. PriceInit => Vouchers
  BY TabledInit, VoucherInit DEF Vouchers
<1>2. Vouchers => QuotaAddsUp
  BY PriceBounds DEF Vouchers, VoucherFits, QuotaAddsUp
<1>3. Vouchers /\ [PriceNext]_priceVars => Vouchers'
  BY VouchersNext
<1> QED
  BY <1>1, <1>2, <1>3, PTL DEF PriceSpec

-----------------------------------------------------------------------------
(***************************************************************************)
(* The tables and the calls.                                               *)
(***************************************************************************)

\* A request has the fields its handler reads.
LEMMA RequestFields ==
    ASSUME NEW op, NEW r \in Requests(op)
    PROVE  /\ op = "createWindow" => r.window \in Intervals
           /\ op = "updateWindow" => r.window \in Intervals /\ r.id \in Rows(windows)
           /\ op = "createVersion" =>
                 r.day \in Days /\ r.branch \in Scope /\ r.clone \in Rows(versions) \cup {None}
           /\ op = "upsertCell" =>
                 /\ r.version \in Rows(versions) /\ r.window \in Rows(windows)
                 /\ r.type \in DayType /\ r.branch \in Scope /\ r.vnd \in Vnd
           /\ op = "setHolidays" => r.branch \in Scope /\ r.days \in SUBSET Days
           /\ op = "sell" => r.minute \in Minute
  BY DEF Requests

\* The rows of a table.
LEMMA RowsIn ==
    ASSUME NEW S, NEW f \in [Ids -> S]
    PROVE  Rows(f) = {i \in Ids : f[i] # None}
  BY DEF Rows

\* Call c is asked for what its place is about: what each arrival has checked.
LEMMA ArrivalFits ==
    ASSUME Tables, PlacesFit, NEW c \in Calls, Start(c)
    PROVE  CallFits(c)'
<1>1. OthersStay(c) /\ Tabled' /\ LeadsTo(c) /\ Writes(c)
  BY CallMoves DEF PlacesFit
<1>2. at[c] = "idle"
  BY Arrives DEF Start, CheckWindow, CreateVersion, CheckCell, DeleteEntries, Ask, AskSync,
                 RejectSync, Deactivate, RefreshCatalog
<1>3. versions'[c] = None
  <2>1. versions' = versions
    BY <1>1, <1>2 DEF Writes, WriteVersion, UpdateCell, InsertCell
  <2> QED
    BY <2>1, <1>2 DEF PlacesFit, CallFits
<1>4. c \in Ids
  BY DEF Calls, Ids
<1>5. CASE CheckWindow(c)
  <2>0. PICK r \in Arriving(c, {"createWindow", "updateWindow"}) :
            \E id : /\ id = IF r.op = "updateWindow" THEN r.id ELSE c
                    /\ Arrive(c, r, "window", id) \/ Refuse(c, r)
    BY <1>5 DEF CheckWindow
  <2>1. PICK id :
            /\ id = IF r.op = "updateWindow" THEN r.id ELSE c
            /\ Arrive(c, r, "window", id) \/ Refuse(c, r)
    BY <2>0
  <2>2. r.op \in {"createWindow", "updateWindow"} /\ r \in Requests(r.op)
    BY <2>1, Arrives
  <2>3. r.window \in Intervals /\ id \in Ids
    <3>1. r.window \in Intervals /\ (r.op = "updateWindow" => r.id \in Rows(windows))
      BY <2>2, RequestFields
    <3>2. Rows(windows) \subseteq Ids
      BY RowsIn DEF Tables
    <3> QED
      BY <2>1, <3>1, <3>2, <1>4
  <2>4. \/ at'[c] = "done"
        \/ at'[c] = "window" /\ req'[c] = r /\ seen'[c] = id
    BY <2>1, ArriveMoves, RefuseMoves DEF Moved, PlacesFit
  <2> QED
    BY <2>2, <2>3, <2>4, <1>3 DEF CallFits, InFlight, Fits, Editing
<1>6. CASE CreateVersion(c)
  <2>1. PICK r \in Arriving(c, {"createVersion"}) :
            Arrive(c, r, "version", IF r.clone = None THEN {} ELSE versions[r.clone].cells)
    BY <1>6 DEF CreateVersion
  <2>2. r.op = "createVersion" /\ r \in Requests(r.op)
    BY <2>1, Arrives
  <2>3. r.day \in Days /\ r.branch \in Scope /\ r.clone \in Rows(versions) \cup {None}
    BY <2>2, RequestFields
  <2>4. PICK cells : cells = IF r.clone = None THEN {} ELSE versions[r.clone].cells
    OBVIOUS
  <2>5. cells \in SUBSET CellRows /\ Keyed(cells)
    <3>1. CASE r.clone = None
      BY <3>1, <2>4 DEF Keyed
    <3>2. CASE r.clone # None
      <4>1. r.clone \in Rows(versions)
        BY <3>2, <2>3
      <4>2. versions[r.clone] \in VersionRows /\ Keyed(versions[r.clone].cells)
        BY <4>1 DEF Tables, Rows
      <4> QED
        BY <4>2, <3>2, <2>4 DEF VersionRows
    <3> QED
      BY <3>1, <3>2
  <2>6. at'[c] = "version" /\ req'[c] = r /\ seen'[c] = cells
    BY <2>1, <2>4, ArriveMoves DEF Moved, PlacesFit
  <2> QED
    BY <2>2, <2>3, <2>5, <2>6, <1>3 DEF CallFits, InFlight, Fits, Editing
<1>7. CASE CheckCell(c)
  <2>1. PICK r \in Arriving(c, {"upsertCell"}) : Arrive(c, r, "cell", None) \/ Refuse(c, r)
    BY <1>7 DEF CheckCell
  <2>2. r.op = "upsertCell" /\ r \in Requests(r.op)
    BY <2>1, Arrives
  <2>3. /\ r.version \in Rows(versions) /\ r.window \in Ids
        /\ r.type \in DayType /\ r.branch \in Scope /\ r.vnd \in Vnd
    BY <2>2, RequestFields, RowsIn DEF Tables
  <2>4. versions' = versions
    BY <1>7 DEF CheckCell, book
  <2>5. \/ at'[c] = "done"
        \/ at'[c] = "cell" /\ req'[c] = r
    BY <2>1, ArriveMoves, RefuseMoves DEF Moved, PlacesFit
  <2> QED
    BY <2>2, <2>3, <2>4, <2>5, <1>3 DEF CallFits, InFlight, Fits, Editing
<1>8. CASE DeleteEntries(c)
  <2>1. PICK r \in Arriving(c, {"setHolidays"}) : Arrive(c, r, "entries", holidays[r.branch])
    BY <1>8 DEF DeleteEntries
  <2>2. r.op = "setHolidays" /\ r \in Requests(r.op)
    BY <2>1, Arrives
  <2>3. r.branch \in Scope /\ r.days \in SUBSET Days
    BY <2>2, RequestFields
  <2>4. at'[c] = "entries" /\ req'[c] = r
    BY <2>1, ArriveMoves DEF Moved, PlacesFit
  <2> QED
    BY <2>2, <2>3, <2>4, <1>3 DEF CallFits, InFlight, Fits, Editing
<1>9. CASE Ask(c, "sell") \/ AskSync(c) \/ Ask(c, "redeem")
  <2>1. PICK op \in {"sell", "sync", "redeem"} :
            \E r \in Arriving(c, {op}) : Arrive(c, r, "begin", None)
    BY <1>9 DEF Ask, AskSync
  <2>2. PICK r \in Arriving(c, {op}) : Arrive(c, r, "begin", None)
    BY <2>1
  <2>3. r.op \in {"sell", "sync", "redeem"}
    BY <2>1, <2>2, Arrives
  <2>4. at'[c] = "begin" /\ req'[c] = r
    BY <2>2, ArriveMoves DEF Moved, PlacesFit
  <2> QED
    BY <2>3, <2>4, <1>3 DEF CallFits, InFlight, Fits, Editing
<1>10. CASE Deactivate(c)
  <2>1. at'[c] = "done"
    BY <1>10, ArriveMoves DEF Moved, PlacesFit, Deactivate
  <2> QED
    BY <2>1, <1>3 DEF CallFits, InFlight, Editing
<1>11. CASE RefreshCatalog(c)
  <2>1. PICK r \in Arriving(c, {"refresh"}) : Arrive(c, r, "reads", Reading(None, None, published))
    BY <1>11 DEF RefreshCatalog
  <2>2. r.op = "refresh"
    BY <2>1, Arrives
  <2>3. at'[c] = "reads" /\ req'[c] = r /\ seen'[c] = Reading(None, None, published)
    BY <2>1, ArriveMoves DEF Moved, PlacesFit
  <2> QED
    BY <2>2, <2>3, <1>3 DEF CallFits, InFlight, Fits, Editing, Reading
<1>12. CASE RejectSync(c)
  <2>1. at'[c] = "done"
    BY <1>12, RefuseMoves DEF Moved, PlacesFit, RejectSync
  <2> QED
    BY <2>1, <1>3 DEF CallFits, InFlight, Editing
<1> QED
  BY <1>5, <1>6, <1>7, <1>8, <1>9, <1>10, <1>11, <1>12 DEF Start

\* UpdateCell and InsertCell replace the cells of one version and no more.
LEMMA PutCellIs ==
    ASSUME Tables, NEW r, NEW kept, r.version \in Rows(versions),
           r.window \in Ids, r.type \in DayType, r.branch \in Scope, r.vnd \in Vnd,
           kept \subseteq versions[r.version].cells,
           Keyed(kept), \A x \in kept : ~SameKey(x, r),
           PutCell(r, kept)
    PROVE  /\ versions' \in [Ids -> VersionRows \cup {None}]
           /\ Rows(versions') = Rows(versions)
           /\ \A v \in Ids \ {r.version} : versions'[v] = versions[v]
           /\ versions'[r.version].day = versions[r.version].day
           /\ versions'[r.version].branch = versions[r.version].branch
           /\ Keyed(versions'[r.version].cells)
<1> DEFINE cell == [window |-> r.window, type |-> r.type, branch |-> r.branch, vnd |-> r.vnd]
           cells == kept \cup {cell}
<1>1. versions \in [Ids -> VersionRows \cup {None}] /\ r.version \in Ids /\ versions[r.version] # None
  BY DEF Tables, Rows
<1>2. PICK old \in VersionRows : versions[r.version] = old
  BY <1>1
<1>3. cell \in CellRows
  BY DEF CellRows
<1>4. cells \in SUBSET CellRows
  BY <1>2, <1>3 DEF VersionRows
<1>5. Keyed(cells)
  BY DEF Keyed, SameKey
<1>6. versions' = [versions EXCEPT ![r.version] = [old EXCEPT !.cells = cells]]
  BY <1>1, <1>2 DEF PutCell
<1> HIDE DEF cells
<1>7. PICK new \in VersionRows :
          /\ new = [old EXCEPT !.cells = cells]
          /\ new.day = old.day /\ new.branch = old.branch /\ new.cells = cells
  <2>1. PICK d \in Days, b \in Scope, x \in SUBSET CellRows :
            old = [day |-> d, branch |-> b, cells |-> x]
    BY DEF VersionRows
  <2>2. [old EXCEPT !.cells = cells] = [day |-> d, branch |-> b, cells |-> cells]
    BY <2>1
  <2>3. [day |-> d, branch |-> b, cells |-> cells] \in VersionRows
    BY <2>1, <1>4 DEF VersionRows
  <2> QED
    BY <2>1, <2>2, <2>3
<1>8. versions' = [versions EXCEPT ![r.version] = new]
  BY <1>6, <1>7
<1>9. new # None
  BY NoneIsNoRow
<1> QED
  BY <1>1, <1>2, <1>5, <1>7, <1>8, <1>9 DEF Rows

\* What the writes of a cell do to the versions.
LEMMA CellWritten ==
    ASSUME Tables, PlacesFit, NEW c \in Calls, UpdateCell(c) \/ InsertCell(c)
    PROVE  /\ req[c].version \in Rows(versions) /\ at[c] \in Editing
           /\ versions' \in [Ids -> VersionRows \cup {None}]
           /\ Rows(versions') = Rows(versions)
           /\ \A v \in Ids \ {req[c].version} : versions'[v] = versions[v]
           /\ versions'[req[c].version].day = versions[req[c].version].day
           /\ versions'[req[c].version].branch = versions[req[c].version].branch
           /\ Keyed(versions'[req[c].version].cells)
<1>1. at[c] \in Editing
  BY DEF UpdateCell, InsertCell, Editing
<1>2. PICK r : r = req[c]
  OBVIOUS
<1>3. /\ r.version \in Rows(versions) /\ r.window \in Ids
      /\ r.type \in DayType /\ r.branch \in Scope /\ r.vnd \in Vnd
  BY <1>1, <1>2 DEF PlacesFit, CallFits
<1>4. Keyed(versions[r.version].cells)
  BY <1>3 DEF Tables
<1>5. PICK kept : /\ PutCell(r, kept) /\ kept \subseteq versions[r.version].cells
                  /\ \A x \in kept : ~SameKey(x, r)
  BY <1>2 DEF UpdateCell, InsertCell, CellsLike
<1>6. Keyed(kept)
  BY <1>4, <1>5 DEF Keyed
<1> QED
  BY <1>1, <1>2, <1>3, <1>5, <1>6, PutCellIs

\* What the insert of a version does to the versions.
LEMMA VersionWritten ==
    ASSUME Tables, PlacesFit, NEW c \in Calls, WriteVersion(c)
    PROVE  /\ c \in Ids /\ versions[c] = None
           /\ versions' \in [Ids -> VersionRows \cup {None}]
           /\ Rows(versions') = Rows(versions) \cup {c}
           /\ \A v \in Ids \ {c} : versions'[v] = versions[v]
           /\ versions'[c] = [day |-> req[c].day, branch |-> req[c].branch, cells |-> seen[c]]
           /\ Keyed(versions'[c].cells)
<1>1. /\ at[c] = "version" /\ c \in Ids
      /\ versions' = [versions EXCEPT ![c] =
            [day |-> req[c].day, branch |-> req[c].branch, cells |-> seen[c]]]
  BY DEF WriteVersion, Calls, Ids
<1>2. /\ versions[c] = None /\ req[c].day \in Days /\ req[c].branch \in Scope
      /\ seen[c] \in SUBSET CellRows /\ Keyed(seen[c])
  BY <1>1 DEF PlacesFit, CallFits
<1>3. PICK new \in VersionRows :
          new = [day |-> req[c].day, branch |-> req[c].branch, cells |-> seen[c]]
  BY <1>2 DEF VersionRows
<1>4. new # None /\ new.cells = seen[c]
  BY <1>3, NoneIsNoRow
<1>5. versions \in [Ids -> VersionRows \cup {None}]
  BY DEF Tables
<1> QED
  BY <1>1, <1>2, <1>3, <1>4, <1>5 DEF Rows

\* What a step does to the rows of the versions: none goes, and only WriteVersion
\* adds one, its own.
LEMMA VersionsAfter ==
    ASSUME Tables, PlacesFit, NEW c \in Calls, Start(c) \/ Step(c)
    PROVE  /\ versions' \in [Ids -> VersionRows \cup {None}]
           /\ \A v \in Rows(versions') : Keyed(versions'[v].cells)
           /\ Rows(versions) \subseteq Rows(versions')
           /\ \A v \in Rows(versions) : versions'[v].day = versions[v].day
                                        /\ versions'[v].branch = versions[v].branch
           /\ \A v \in Ids : versions[v] = None /\ versions'[v] # None => v = c /\ at'[c] = "done"
<1>1. versions' = versions \/ WriteVersion(c) \/ UpdateCell(c) \/ InsertCell(c)
  BY CallMoves DEF Writes, PlacesFit
<1>2. CASE versions' = versions
  BY <1>2 DEF Tables
<1>3. CASE UpdateCell(c) \/ InsertCell(c)
  BY <1>3, CellWritten DEF Tables, Rows
<1>4. CASE WriteVersion(c)
  <2>1. at'[c] = "done"
    BY <1>4, DoneMoves DEF WriteVersion, Published, Moved, PlacesFit
  <2> QED
    BY <2>1, <1>4, VersionWritten DEF Tables, Rows
<1> QED
  BY <1>1, <1>2, <1>3, <1>4

\* A call that goes on is asked for what its next place is about.
LEMMA StepFits ==
    ASSUME Tables, PlacesFit, NEW c \in Calls, Step(c)
    PROVE  CallFits(c)'
<1>1. OthersStay(c) /\ Tabled' /\ LeadsTo(c) /\ Writes(c)
  BY CallMoves DEF PlacesFit
<1>2. CASE Done(c)
  <2>1. at'[c] = "done"
    BY <1>2, DoneMoves DEF Moved, PlacesFit
  <2> QED
    BY <2>1 DEF CallFits, InFlight, Editing
<1>3. CASE ~Done(c)
  <2>1. versions' = versions
    BY <1>1, <1>3 DEF Writes, WriteVersion, UpdateCell, InsertCell, Published
  <2>2. at[c] \notin {"idle", "done"} /\ versions[c] = None
    BY <1>3 DEF Step, WriteWindow, WriteVersion, UpdateCell, InsertCell, InsertRejected,
         InsertEntries, FindCell, BeginSale, ReadBook, BeginRedeem, LockVoucher,
         PutCatalog, CommitSale, CommitSync, CommitRedeem, TimeOut, Published,
         PlacesFit, CallFits
  <2>3. CASE FindCell(c)
    <3>1. PICK where \in {"insert", "update"} : Goto(c, where, None)
      BY <2>3 DEF FindCell
    <3>2. at[c] = "cell" /\ at'[c] = where /\ req'[c] = req[c]
      BY <2>3, <3>1, GotoMoves DEF FindCell, Moved, PlacesFit
    <3>3. Fits(at[c], req[c].op)
      BY <2>2 DEF PlacesFit, CallFits, InFlight
    <3> QED
      BY <2>1, <2>2, <3>1, <3>2, <3>3 DEF PlacesFit, CallFits, InFlight, Editing, Fits
  <2>4. CASE BeginSale(c)
    <3>1. PICK day, minute, asked : Goto(c, "reads", Reading(day, minute, asked))
      BY <2>4 DEF BeginSale
    <3>2. at'[c] = "reads" /\ req'[c] = req[c] /\ seen'[c] = Reading(day, minute, asked)
      BY <3>1, GotoMoves DEF Moved, PlacesFit
    <3>3. req[c].op \in {"sell", "sync"}
      BY <2>4 DEF BeginSale
    <3> QED
      BY <2>1, <2>2, <3>2, <3>3 DEF CallFits, InFlight, Editing, Fits, Reading
  <2>5. CASE ReadBook(c)
    <3>1. PICK v : /\ Goto(c, "reads", v)
                   /\ \/ v = [seen[c] EXCEPT !.windows = windows]
                      \/ v = [seen[c] EXCEPT !.versions = versions]
      BY <2>5 DEF ReadBook
    <3>2. at'[c] = "reads" /\ req'[c] = req[c] /\ seen'[c] = v /\ at[c] = "reads"
      BY <2>5, <3>1, GotoMoves DEF Moved, PlacesFit, ReadBook
    <3>3. /\ Fits(at[c], req[c].op)
          /\ seen[c] = [day |-> seen[c].day, minute |-> seen[c].minute, asked |-> seen[c].asked,
                        windows |-> seen[c].windows, versions |-> seen[c].versions]
      BY <2>2, <3>2 DEF PlacesFit, CallFits, InFlight
    <3>4. v = [day |-> v.day, minute |-> v.minute, asked |-> v.asked,
               windows |-> v.windows, versions |-> v.versions]
      BY <3>1, <3>3
    <3> QED
      BY <2>1, <2>2, <3>2, <3>3, <3>4 DEF CallFits, InFlight, Editing
  <2>6. CASE BeginRedeem(c) \/ LockVoucher(c)
    <3>1. PICK where \in {"row", "reread"} : Goto(c, where, None)
      BY <1>3, <2>6 DEF BeginRedeem, LockVoucher
    <3>2. at'[c] = where /\ req'[c] = req[c]
      BY <3>1, GotoMoves DEF Moved, PlacesFit
    <3>3. req[c].op = "redeem"
      BY <2>2, <2>6 DEF BeginRedeem, LockVoucher, PlacesFit, CallFits, InFlight, Fits, Editing
    <3> QED
      BY <2>1, <2>2, <3>1, <3>2, <3>3 DEF CallFits, InFlight, Editing, Fits
  <2> QED
    BY <1>3, <2>3, <2>4, <2>5, <2>6
    DEF Step, WriteWindow, WriteVersion, UpdateCell, InsertCell, InsertRejected, InsertEntries,
        PutCatalog, CommitSale, CommitSync, CommitRedeem, TimeOut, Published
<1> QED
  BY <1>2, <1>3

\* The other calls' requests stay about rows that exist.
LEMMA PlacesFitStep ==
    ASSUME Tables, PlacesFit, NEW c \in Calls, Start(c) \/ Step(c)
    PROVE  PlacesFit'
<1>1. OthersStay(c) /\ Tabled'
  BY CallMoves DEF PlacesFit
<1>2. CallFits(c)'
  BY ArrivalFits, StepFits
<1>3. ASSUME NEW d \in Calls \ {c} PROVE CallFits(d)'
  <2>1. at'[d] = at[d] /\ req'[d] = req[d] /\ seen'[d] = seen[d] /\ CallFits(d)
    BY <1>1 DEF OthersStay, PlacesFit
  <2>2. /\ Rows(versions) \subseteq Rows(versions')
        /\ versions'[d] # None => versions[d] # None
    BY VersionsAfter DEF Calls, Ids
  <2> QED
    BY <2>1, <2>2 DEF CallFits, InFlight
<1> QED
  BY <1>1, <1>2, <1>3 DEF PlacesFit

\* The till's record keeps its fields.
LEMMA TillRowStep ==
    ASSUME TillRow, PlacesFit,
           (\E c \in Calls : Start(c) \/ Step(c)) \/ ShowPrices \/ SellOffline \/ Midnight
    PROVE  TillRow'
<1>1. \/ till' = till \/ ShowPrices \/ SellOffline
      \/ \E c \in Calls : PutCatalog(c) \/ CommitSync(c) \/ RejectSync(c)
  BY CallMoves DEF PlacesFit, Writes, Midnight
<1>2. CASE till' = till
  BY <1>2 DEF TillRow
<1>3. CASE ShowPrices
  <2>1. PICK x : till' = [till EXCEPT !.shown = x]
    BY <1>3 DEF ShowPrices
  <2> QED
    BY <2>1 DEF TillRow
<1>4. CASE SellOffline
  <2>1. PICK x, y : till' = [till EXCEPT !.shown = x, !.sale = y]
    BY <1>4 DEF SellOffline
  <2> QED
    BY <2>1 DEF TillRow
<1>5. ASSUME NEW c \in Calls, PutCatalog(c) PROVE TillRow'
  <2>1. PICK x : till' = [till EXCEPT !.cache = x]
    BY <1>5 DEF PutCatalog
  <2> QED
    BY <2>1 DEF TillRow
<1>6. ASSUME NEW c \in Calls, CommitSync(c) \/ RejectSync(c) PROVE TillRow'
  <2>1. PICK x, y : till' = [till EXCEPT !.sale = x, !.synced = till.synced \cup y]
    BY <1>6 DEF CommitSync, RejectSync, Answered
  <2> QED
    BY <2>1 DEF TillRow
<1> QED
  BY <1>1, <1>2, <1>3, <1>4, <1>5, <1>6

\* A calendar's days are days: InsertEntries writes what was asked or nothing.
LEMMA HolidaysStep ==
    ASSUME Tables, PlacesFit, NEW c \in Calls, InsertEntries(c)
    PROVE  holidays' \in [Scope -> SUBSET Days]
<1>1. req[c].branch \in Scope /\ req[c].days \in SUBSET Days
  BY DEF InsertEntries, PlacesFit, CallFits
<1>2. PICK now : /\ holidays' = [holidays EXCEPT ![req[c].branch] = now]
                 /\ now \subseteq holidays[req[c].branch] \cup req[c].days
  BY DEF InsertEntries
<1>3. now \in SUBSET Days
  BY <1>1, <1>2 DEF Tables
<1> QED
  BY <1>1, <1>2, <1>3 DEF Tables

\* The tables keep their rows whatever a call does.
LEMMA TablesCall ==
    ASSUME Tables, PlacesFit, NEW c \in Calls, Start(c) \/ Step(c)
    PROVE  Tables'
<1>1. Writes(c)
  BY CallMoves DEF PlacesFit
<1>2. windows' \in [Ids -> Intervals \cup {None}]
  <2>1. CASE windows' = windows
    BY <2>1 DEF Tables
  <2>2. CASE WriteWindow(c)
    <3>1. req[c].window \in Intervals /\ seen[c] \in Ids
      BY <2>2 DEF WriteWindow, PlacesFit, CallFits
    <3> QED
      BY <2>2, <3>1 DEF WriteWindow, Tables
  <2> QED
    BY <1>1, <2>1, <2>2 DEF Writes
<1>3. /\ versions' \in [Ids -> VersionRows \cup {None}]
      /\ \A v \in Rows(versions') : Keyed(versions'[v].cells)
  BY VersionsAfter
<1>4. holidays' \in [Scope -> SUBSET Days]
  BY <1>1, HolidaysStep DEF Writes, Tables
<1>5. today' \in Days /\ published' \in Nat
  BY <1>1 DEF Writes, Tables, Published
<1>6. TillRow'
  BY TillRowStep DEF Tables, TillRow
<1>7. VoucherRow'
  BY VoucherRowStep DEF Tables
<1> QED
  BY <1>2, <1>3, <1>4, <1>5, <1>6, <1>7 DEF Tables, TillRow

\* The steps of the till and of the clock.
LEMMA TypedElse ==
    ASSUME Typed, ShowPrices \/ SellOffline \/ Midnight
    PROVE  Typed'
<1>1. UNCHANGED <<windows, versions, holidays, voucher, published, at, req, seen>>
  BY DEF ShowPrices, SellOffline, Midnight, book, call
<1>2. TillRow'
  BY TillRowStep DEF Typed, Tables, TillRow
<1>3. today' \in Days
  <2>1. \/ today' = today
        \/ today < MaxDay /\ today' = today + 1
    BY DEF ShowPrices, SellOffline, Midnight
  <2>2. today \in Days /\ MaxDay \in Nat
    BY PriceBounds DEF Typed, Tables, TillRow
  <2> QED
    BY <2>1, <2>2 DEF Days
<1>4. Tables'
  BY <1>1, <1>2, <1>3 DEF Typed, Tables, TillRow, VoucherRow
<1>5. PlacesFit'
  BY <1>1 DEF Typed, PlacesFit, Tabled, CallFits, InFlight, Fits
<1> QED
  BY <1>4, <1>5 DEF Typed

\* The first window, the first version and the calls that have not come.
LEMMA TypedInit == PriceInit => Typed
<1> SUFFICES ASSUME PriceInit PROVE Typed
  OBVIOUS
<1>1. Min(Vnd) \in Vnd /\ Max(Vnd) \in Vnd
  BY PriceBounds DEF Min, Max
<1>2. [from |-> 0, to |-> 1] \in Intervals
  BY PriceBounds DEF Intervals, Minute
<1>3. {0} \subseteq Ids /\ 1 \in Days
  BY PriceBounds DEF Ids, Days
<1>4. FirstVersion \in VersionRows
  BY <1>1, <1>3 DEF FirstVersion, FirstCell, VersionRows, CellRows, DayType, Scope
<1>5. Keyed(FirstVersion.cells)
  BY DEF FirstVersion, FirstCell, Keyed, SameKey
<1>6. \A S : \A x \in S : x # None => Row(x) \in [Ids -> S \cup {None}] /\ Rows(Row(x)) = {0}
  BY <1>3 DEF Row, Rows
<1>7. [from |-> 0, to |-> 1] # None /\ FirstVersion # None
  BY <1>2, <1>4, NoneIsNoRow
<1>8. windows \in [Ids -> Intervals \cup {None}] /\ versions \in [Ids -> VersionRows \cup {None}]
  BY <1>2, <1>4, <1>6, <1>7 DEF PriceInit
<1>9. \A v \in Rows(versions) : Keyed(versions[v].cells)
  BY <1>3, <1>4, <1>5, <1>6, <1>7 DEF PriceInit, Row
<1>10. /\ holidays \in [Scope -> SUBSET Days] /\ today \in Days /\ published \in Nat
       /\ TillRow
  BY <1>3 DEF PriceInit, TillRow
<1>11. Tables
  BY <1>8, <1>9, <1>10, VoucherInit DEF Tables
<1>12. \A c \in Calls : versions[c] = None
  BY DEF PriceInit, Row, Calls, Ids
<1>13. PlacesFit
  BY <1>12, TabledInit DEF PlacesFit, PriceInit, CallFits, InFlight, Editing
<1> QED
  BY <1>11, <1>13 DEF Typed

\* The tables and the calls' requests are right in every state.
LEMMA TypedNext == Typed /\ [PriceNext]_priceVars => Typed'
<1> SUFFICES ASSUME Typed, [PriceNext]_priceVars PROVE Typed'
  OBVIOUS
<1>1. ASSUME NEW c \in Calls, Start(c) \/ Step(c) PROVE Typed'
  BY <1>1, TablesCall, PlacesFitStep DEF Typed
<1>2. CASE UNCHANGED priceVars
  BY <1>2 DEF priceVars, book, call, Typed, Tables, TillRow, VoucherRow,
              PlacesFit, Tabled, CallFits, InFlight
<1> QED
  BY <1>1, <1>2, TypedElse DEF PriceNext

\* The windows, versions and cells the resolver reads are well formed, and no
\* version ever has two prices for one window, day type and branch: the partial
\* unique indexes and the update in upsertCell keep it so (pricing.service).
THEOREM PricesTyped == PriceSpec => []PriceTypeOK
<1>1. Typed /\ Vouchers => PriceTypeOK
  BY NoneIsNoRow DEF Typed, Tables, Keyed, Rows, Vouchers, VoucherRow, VoucherFits, PriceTypeOK
<1>2. PriceInit => Vouchers
  BY TabledInit, VoucherInit DEF Vouchers
<1> QED
  BY <1>1, <1>2, TypedInit, TypedNext, VouchersNext, PTL DEF PriceSpec

-----------------------------------------------------------------------------
(***************************************************************************)
(* The windows.                                                            *)
(***************************************************************************)

\* A call that is in flight after a step has just come, and has met those in
\* flight, or was in flight with the same request.
LEMMA InFlightCame ==
    ASSUME Tabled, NEW c \in Calls, Start(c) \/ Step(c), c \in InFlight'
    PROVE  \/ /\ at[c] = "idle"
              /\ \A d \in InFlight : Touches(req'[c].op) \cap Touches(req[d].op) \subseteq raced'
           \/ c \in InFlight /\ req'[c] = req[c]
<1>1. CASE Start(c) /\ \E r, where, v : Arrive(c, r, where, v)
  <2>1. PICK r, where, v : Arrive(c, r, where, v)
    BY <1>1
  <2>2. req'[c] = r
    BY <2>1, ArriveMoves DEF Moved
  <2>3. raced' = raced \cup UNION {Touches(r.op) \cap Touches(req[d].op) : d \in InFlight}
    BY <2>1 DEF Arrive
  <2>4. at[c] = "idle"
    BY <1>1, Arrives DEF Start, CheckWindow, CreateVersion, CheckCell, DeleteEntries, Ask, AskSync,
                         RejectSync, Deactivate, RefreshCatalog
  <2> QED
    BY <2>2, <2>3, <2>4
<1>2. CASE Done(c) \/ \E r : Refuse(c, r)
  BY <1>2, DoneMoves, RefuseMoves DEF Moved, InFlight
<1>3. CASE Step(c) /\ ~Done(c)
  <2>1. PICK where, v : Goto(c, where, v)
    BY <1>3 DEF Step, WriteWindow, WriteVersion, UpdateCell, InsertCell, InsertRejected,
         InsertEntries, FindCell, BeginSale, ReadBook, BeginRedeem, LockVoucher,
         PutCatalog, CommitSale, CommitSync, CommitRedeem, TimeOut, Published
  <2>2. req'[c] = req[c]
    BY <2>1, GotoMoves DEF Moved
  <2>3. at[c] \notin {"idle", "done"}
    BY <1>3 DEF Step, WriteWindow, WriteVersion, UpdateCell, InsertCell, InsertRejected,
         InsertEntries, FindCell, BeginSale, ReadBook, BeginRedeem, LockVoucher,
         PutCatalog, CommitSale, CommitSync, CommitRedeem, TimeOut, Published
  <2> QED
    BY <2>2, <2>3 DEF InFlight
<1> QED
  BY <1>1, <1>2, <1>3 DEF Start, CheckWindow, CreateVersion, CheckCell, DeleteEntries, Ask, AskSync,
                         RejectSync, Deactivate, RefreshCatalog

\* Two calls that are in flight together have been recorded: the later one was
\* when it came.
LEMMA MetStep ==
    ASSUME Tabled, MetIsRaced, NEW c \in Calls, Start(c) \/ Step(c)
    PROVE  MetIsRaced'
<1>1. OthersStay(c) /\ raced \subseteq raced'
  BY CallMoves DEF Writes
<1>2. \A d \in InFlight' : d # c => d \in InFlight /\ req'[d] = req[d]
  BY <1>1 DEF OthersStay, InFlight
<1>3. ASSUME NEW d \in InFlight', c \in InFlight', d # c
      PROVE  Touches(req'[c].op) \cap Touches(req'[d].op) \subseteq raced'
  BY <1>1, <1>2, <1>3, InFlightCame DEF MetIsRaced
<1> QED
  BY <1>1, <1>2, <1>3 DEF MetIsRaced

\* A checked window is written where it fits.
LEMMA WindowsStep ==
    ASSUME Typed, MetIsRaced, WindowsFit, NEW c \in Calls, Start(c) \/ Step(c)
    PROVE  WindowsFit'
<1>1. OthersStay(c) /\ LeadsTo(c) /\ Writes(c) /\ Tabled
  BY CallMoves DEF Typed, PlacesFit
<1> SUFFICES ASSUME "windows" \notin raced' PROVE WindowsFit'
  BY DEF WindowsFit
<1>2. /\ "windows" \notin raced
      /\ \A v, w \in Rows(windows) : v # w => ~Overlap(windows[v], windows[w])
      /\ \A d \in Calls : at[d] = "window" => NoOverlap(req[d].window, seen[d])
  BY <1>1 DEF Writes, WindowsFit
<1>3. CASE windows' = windows
  <2>1. ASSUME at'[c] = "window" PROVE NoOverlap(req'[c].window, seen'[c])
    <3>1. CheckWindow(c)
      BY <1>1, <2>1 DEF LeadsTo
    <3>2. PICK r : \E id : \/ NoOverlap(r.window, id) /\ Arrive(c, r, "window", id)
                           \/ Refuse(c, r)
      BY <3>1 DEF CheckWindow
    <3> QED
      BY <1>1, <2>1, <3>2, ArriveMoves, RefuseMoves DEF Moved
  <2>2. \A d \in Calls : at'[d] = "window" => NoOverlap(req'[d].window, seen'[d])
    BY <1>1, <1>2, <2>1 DEF OthersStay
  <2> QED
    BY <1>2, <1>3, <2>2 DEF WindowsFit, NoOverlap
<1>4. CASE WriteWindow(c)
  <2> DEFINE new == req[c].window
             id == seen[c]
  <2>1. /\ at[c] = "window" /\ new \in Intervals /\ id \in Ids /\ NoOverlap(new, id)
        /\ windows' = [windows EXCEPT ![id] = new] /\ at'[c] = "done"
    BY <1>1, <1>2, <1>4, DoneMoves DEF WriteWindow, Published, Moved, Typed, PlacesFit, CallFits
  <2>2. \A d \in Calls : at'[d] # "window"
    <3>1. ASSUME NEW d \in Calls, d # c, at[d] = "window" PROVE FALSE
      <4>1. c \in InFlight /\ d \in InFlight
        BY <2>1, <3>1 DEF InFlight
      <4>2. Fits(at[c], req[c].op) /\ Fits(at[d], req[d].op)
        BY <4>1 DEF Typed, PlacesFit, CallFits
      <4>3. Touches(req[c].op) = {"windows"} /\ Touches(req[d].op) = {"windows"}
        BY <2>1, <3>1, <4>2 DEF Fits, Touches, Topic, Editing
      <4> QED
        BY <1>2, <3>1, <4>1, <4>3 DEF MetIsRaced
    <3> QED
      BY <1>1, <2>1, <3>1 DEF OthersStay
  <2>3. /\ Rows(windows') \subseteq Rows(windows) \cup {id} /\ windows'[id] = new
        /\ \A w \in Rows(windows') \ {id} : w \in Rows(windows) /\ windows'[w] = windows[w]
    BY <2>1 DEF Typed, Tables, Rows
  <2>4. \A w \in Rows(windows') \ {id} : ~Overlap(new, windows[w]) /\ ~Overlap(windows[w], new)
    BY <2>1, <2>3 DEF NoOverlap, Overlap
  <2>5. \A v, w \in Rows(windows') : v # w => ~Overlap(windows'[v], windows'[w])
    <3> HIDE DEF new, id
    <3> QED
      BY <1>2, <2>3, <2>4
  <2> QED
    BY <2>2, <2>5 DEF WindowsFit
<1> QED
  BY <1>1, <1>3, <1>4 DEF Writes

Windows == Typed /\ MetIsRaced /\ WindowsFit

\* Every step of the specification keeps the windows right.
LEMMA WindowsNext == Windows /\ [PriceNext]_priceVars => Windows'
<1> SUFFICES ASSUME Windows, [PriceNext]_priceVars PROVE Windows'
  OBVIOUS
<1>1. Typed'
  BY TypedNext DEF Windows
<1>2. ASSUME NEW c \in Calls, Start(c) \/ Step(c) PROVE Windows'
  BY <1>1, <1>2, MetStep, WindowsStep DEF Windows, Typed, PlacesFit
<1>3. CASE UNCHANGED <<windows, at, req, seen>> /\ raced \subseteq raced'
  BY <1>1, <1>3 DEF Windows, MetIsRaced, InFlight, WindowsFit, NoOverlap
<1> QED
  BY <1>2, <1>3 DEF PriceNext, ShowPrices, SellOffline, Midnight, priceVars, call, book

\* One window to begin with, and no call.
LEMMA WindowsInit == PriceInit => Windows
<1> SUFFICES ASSUME PriceInit PROVE Windows
  OBVIOUS
<1>1. InFlight = {} /\ \A c \in Calls : at[c] = "idle"
  BY DEF PriceInit, InFlight
<1>2. \A v \in Rows(windows) : v = 0
  BY DEF PriceInit, Row, Rows
<1> QED
  BY <1>1, <1>2, TypedInit DEF Windows, MetIsRaced, WindowsFit

-----------------------------------------------------------------------------
(***************************************************************************)
(* The sales priced online.                                                *)
(***************************************************************************)
Topics == {"windows", "versions", "holidays"}

\* While a sale reads the book, nobody changes it but a call it has met.
LEMMA BookStandsStill ==
    ASSUME Typed, MetIsRaced, NEW c \in Calls, Start(c) \/ Step(c),
           NEW d \in InFlight, Touches(req[d].op) = Topics, raced \cap Topics = {}
    PROVE  UNCHANGED book
<1>1. Writes(c) /\ Tabled
  BY CallMoves DEF Typed, PlacesFit
<1>2. ASSUME ~UNCHANGED book PROVE FALSE
  <2>1. at[c] \in {"window", "version", "entries"} \cup Editing
    BY <1>1, <1>2 DEF Writes, book, WriteWindow, WriteVersion, UpdateCell, InsertCell, InsertEntries,
                      Editing
  <2>2. c \in InFlight
    BY <2>1 DEF InFlight, Editing
  <2>3. Fits(at[c], req[c].op)
    BY <2>2 DEF Typed, PlacesFit, CallFits
  <2>4. \E topic \in Topics : Touches(req[c].op) = {topic}
    BY <2>1, <2>3 DEF Fits, Touches, Topic, Topics, Editing
  <2>5. c = d
    BY <2>2, <2>4 DEF MetIsRaced
  <2> QED
    BY <2>4, <2>5 DEF Topics
<1> QED
  BY <1>2

\* A sale is dated by the book, and what it has read since stays the book.
LEMMA SaleReads ==
    ASSUME Typed, MetIsRaced, SalesFit, NEW c \in Calls, Start(c) \/ Step(c), raced' \cap Topics = {},
           NEW d \in Calls, at'[d] = "reads", req'[d].op = "sell"
    PROVE  SaleFits(d)'
<1>1. OthersStay(c) /\ LeadsTo(c) /\ Writes(c) /\ Tabled
  BY CallMoves DEF Typed, PlacesFit
<1>2. raced \cap Topics = {}
  BY <1>1 DEF Writes
<1>3. CASE at[d] = "reads" /\ req[d].op = "sell" /\ seen'[d] = seen[d]
  <2>1. d \in InFlight /\ Touches(req[d].op) = Topics
    BY <1>3 DEF InFlight, Touches, Topics
  <2>2. UNCHANGED book
    BY <1>2, <2>1, BookStandsStill
  <2>3. ReadIsBook(d) /\ seen[d].asked = PriceAt(seen[d].day, seen[d].minute)
    BY <1>2, <1>3 DEF SalesFit, SaleFits, Topics
  <2>4. PriceAt(seen[d].day, seen[d].minute)' = PriceAt(seen[d].day, seen[d].minute)
    BY <1>3, <2>2 DEF book, PriceAt, IsHoliday
  <2> QED
    BY <1>3, <2>2, <2>3, <2>4 DEF SaleFits, ReadIsBook, book
<1>4. CASE d = c /\ BeginSale(c)
  <2>1. req[c].op = "sell"
    BY <1>1, <1>4, GotoMoves DEF BeginSale, Moved
  <2>2. UNCHANGED book
    BY <1>4 DEF BeginSale
  <2>3. seen'[c] = Reading(today, req[c].minute, PriceAt(today, req[c].minute))
    BY <1>1, <1>4, <2>1, GotoMoves DEF BeginSale, Moved
  <2>4. /\ seen'[c].windows = None /\ seen'[c].versions = None
        /\ seen'[c].day = today /\ seen'[c].minute = req[c].minute
        /\ seen'[c].asked = PriceAt(today, req[c].minute)
    BY <2>3 DEF Reading
  <2>5. PriceAt(seen[c].day, seen[c].minute)' = PriceAt(today, req[c].minute)
    BY <2>2, <2>4 DEF book, PriceAt, IsHoliday
  <2> QED
    BY <1>4, <2>4, <2>5 DEF SaleFits, ReadIsBook
<1>5. CASE d = c /\ ReadBook(c)
  <2>1. PICK v : /\ Goto(c, "reads", v)
                 /\ \/ v = [seen[c] EXCEPT !.windows = windows]
                    \/ v = [seen[c] EXCEPT !.versions = versions]
    BY <1>5 DEF ReadBook
  <2>2. at[c] = "reads" /\ req[c].op = "sell" /\ seen'[c] = v /\ UNCHANGED book
    BY <1>1, <1>5, <2>1, GotoMoves DEF ReadBook, Moved
  <2>3. ReadIsBook(c) /\ seen[c].asked = PriceAt(seen[c].day, seen[c].minute)
    BY <1>2, <2>2 DEF SalesFit, SaleFits, Topics
  <2>4. seen[c] = [day |-> seen[c].day, minute |-> seen[c].minute, asked |-> seen[c].asked,
                   windows |-> seen[c].windows, versions |-> seen[c].versions]
    BY <2>2 DEF Typed, PlacesFit, CallFits
  <2>5. /\ v.day = seen[c].day /\ v.minute = seen[c].minute /\ v.asked = seen[c].asked
        /\ v.windows \in {windows, seen[c].windows} /\ v.versions \in {versions, seen[c].versions}
    BY <2>1, <2>4
  <2>6. PriceAt(seen[c].day, seen[c].minute)' = PriceAt(seen[c].day, seen[c].minute)
    BY <2>2, <2>5 DEF book, PriceAt, IsHoliday
  <2> QED
    BY <1>5, <2>2, <2>3, <2>5, <2>6 DEF SaleFits, ReadIsBook, book
<1>6. ~(d = c /\ RefreshCatalog(c))
  <2>1. ASSUME d = c, RefreshCatalog(c) PROVE FALSE
    <3>1. PICK r \in Arriving(c, {"refresh"}) : Arrive(c, r, "reads", Reading(None, None, published))
      BY <2>1 DEF RefreshCatalog
    <3>2. r.op = "refresh" /\ req'[c] = r
      BY <1>1, <3>1, Arrives, ArriveMoves DEF Moved
    <3> QED
      BY <2>1, <3>2
  <2> QED
    BY <2>1
<1> QED
  BY <1>1, <1>3, <1>4, <1>5, <1>6 DEF LeadsTo, OthersStay

\* A bill commits at the price its reads give, the one it was dated with.
LEMMA SalesStep ==
    ASSUME Typed, MetIsRaced, SalesFit, NEW c \in Calls, Start(c) \/ Step(c)
    PROVE  SalesFit'
<1>1. Writes(c)
  BY CallMoves DEF Typed, PlacesFit
<1>2. \A d \in Calls : at'[d] = "reads" /\ req'[d].op = "sell" => SaleFits(d)'
  BY SaleReads DEF SaleFits, Topics
<1>3. BillBearsItsPrice'
  <2>1. CASE bills' = bills
    BY <1>1, <2>1 DEF Writes, SalesFit, BillBearsItsPrice
  <2>2. CASE CommitSale(c)
    <3>1. at[c] = "reads" /\ req[c].op = "sell" /\ seen[c].windows # None /\ seen[c].versions # None
      BY <2>2 DEF CommitSale, HasBook
    <3>2. \/ raced \cap Topics # {}
          \/ PriceNow(c) = seen[c].asked
      BY <3>1 DEF SalesFit, SaleFits, ReadIsBook, PriceNow, PriceAt, Topics
    <3>3. \A b \in bills' : b \in bills \/ (b.vnd = PriceNow(c) /\ b.asked = seen[c].asked)
      BY <2>2 DEF CommitSale
    <3> QED
      BY <1>1, <3>2, <3>3 DEF Writes, SalesFit, BillBearsItsPrice, Topics
  <2> QED
    BY <1>1, <2>1, <2>2 DEF Writes
<1> QED
  BY <1>2, <1>3 DEF SalesFit

OnlineSales == Windows /\ SalesFit

\* Every step of the specification keeps the online bills right: midnight leaves
\* the price of the day on which a bill is dated.
LEMMA SalesNext == OnlineSales /\ [PriceNext]_priceVars => OnlineSales'
<1> SUFFICES ASSUME OnlineSales, [PriceNext]_priceVars PROVE OnlineSales'
  OBVIOUS
<1>1. Windows'
  BY WindowsNext DEF OnlineSales
<1>2. ASSUME NEW c \in Calls, Start(c) \/ Step(c) PROVE OnlineSales'
  BY <1>1, <1>2, SalesStep DEF OnlineSales, Windows
<1>3. CASE UNCHANGED <<book, at, req, seen, bills>> /\ raced \subseteq raced'
  <2>1. ASSUME NEW c \in Calls, SaleFits(c) PROVE SaleFits(c)'
    <3>1. PriceAt(seen[c].day, seen[c].minute)' = PriceAt(seen[c].day, seen[c].minute)
      BY <1>3 DEF book, PriceAt, IsHoliday
    <3> QED
      BY <1>3, <2>1, <3>1 DEF SaleFits, ReadIsBook, book
  <2> QED
    BY <1>1, <1>3, <2>1 DEF OnlineSales, SalesFit, BillBearsItsPrice
<1> QED
  BY <1>2, <1>3 DEF PriceNext, ShowPrices, SellOffline, Midnight, priceVars, call

-----------------------------------------------------------------------------
(***************************************************************************)
(* The till.                                                               *)
(***************************************************************************)

\* A write makes every stamp an old one.
LEMMA StampsAge ==
    ASSUME published \in Nat, published' = published + 1, NEW stamp, NEW fresh, Stamped(stamp, fresh)
    PROVE  stamp \in Nat /\ stamp <= published' /\ stamp # published'
  BY DEF Stamped

\* What the till holds stays as good as it was, or becomes old, when the call that
\* writes the book ends.
LEMMA TillAges ==
    ASSUME Typed, TillFits, NEW c \in Calls, Start(c) \/ Step(c), Published(c)
    PROVE  TillFits'
<1>1. OthersStay(c) /\ at'[c] = "done" /\ till' = till
  BY CallMoves, DoneMoves DEF Typed, PlacesFit, Published, Moved
<1>2. published \in Nat /\ published' = published + 1
  BY DEF Typed, Tables, Published
<1>3. CacheFits' /\ ShownFits' /\ TicketFits' /\ OfflineHasCause'
  <2>1. CacheFits'
    BY <1>1, <1>2, StampsAge DEF TillFits, CacheFits, Stamped
  <2>2. ShownFits'
    BY <1>1, <1>2, StampsAge DEF TillFits, ShownFits, Stamped
  <2>3. TicketFits'
    BY <1>1, <1>2, StampsAge DEF TillFits, TicketFits, Stamped
  <2> QED
    BY <1>1, <2>1, <2>2, <2>3 DEF TillFits, OfflineHasCause
<1>4. ASSUME NEW d \in Calls PROVE RefreshFits(d)' /\ SyncFits(d)'
  <2>1. CASE d = c
    BY <1>1, <2>1 DEF RefreshFits, SyncFits, InFlight
  <2>2. CASE d # c
    <3>1. at'[d] = at[d] /\ req'[d] = req[d] /\ seen'[d] = seen[d] /\ RefreshFits(d) /\ SyncFits(d)
      BY <1>1, <2>2 DEF OthersStay, TillFits
    <3>2. RefreshFits(d)'
      BY <3>1, <1>2, StampsAge DEF RefreshFits, Stamped
    <3>3. \A e \in InFlight' : e \in InFlight /\ req'[e] = req[e]
      BY <1>1 DEF OthersStay, InFlight
    <3>4. ASSUME d \in InFlight', req'[d].op = "sync" PROVE till.sale.stamp # published'
      <4>1. till.sale # None
        BY <3>1, <3>4, <3>3 DEF SyncFits
      <4> QED
        BY <4>1, <1>2, StampsAge DEF TillFits, TicketFits
    <3> QED
      BY <1>1, <3>1, <3>2, <3>3, <3>4 DEF SyncFits
  <2> QED
    BY <2>1, <2>2
<1> QED
  BY <1>3, <1>4 DEF TillFits

\* The answer to the till's sale is recorded, with the cause it has.
LEMMA AnswerRecorded ==
    ASSUME Typed, TillFits, NEW answer, NEW due, Answered(answer, due),
           answer # "committed" =>
               \/ published # till.sale.stamp \/ IsHoliday(till.sale.day) \/ till.sale.late
               \/ answer = "rejected" /\ Paid(due) = 0
    PROVE  /\ OfflineHasCause'
           /\ till'.cache = till.cache /\ till'.shown = till.shown /\ till'.sale = None
<1>1. PICK l, h, m : /\ l = till.sale.late /\ h = IsHoliday(till.sale.day)
                     /\ m = (published # till.sale.stamp)
  OBVIOUS
<1>2. till' = [till EXCEPT !.sale = None, !.synced = @ \cup
          {[answer |-> answer, due |-> due, late |-> l, holiday |-> h, moved |-> m]}]
  BY <1>1 DEF Answered
<1>3. /\ till'.synced = till.synced \cup
            {[answer |-> answer, due |-> due, late |-> l, holiday |-> h, moved |-> m]}
      /\ till'.cache = till.cache /\ till'.shown = till.shown /\ till'.sale = None
  BY <1>2 DEF Typed, Tables, TillRow
<1>4. answer # "committed" => m \/ h \/ l \/ (answer = "rejected" /\ Paid(due) = 0)
  BY <1>1
<1>5. ASSUME NEW s \in till'.synced, s.answer # "committed"
      PROVE  s.moved \/ s.holiday \/ s.late \/ (s.answer = "rejected" /\ Paid(s.due) = 0)
  <2>1. CASE s \in till.synced
    BY <1>5, <2>1 DEF TillFits, OfflineHasCause
  <2>2. CASE s = [answer |-> answer, due |-> due, late |-> l, holiday |-> h, moved |-> m]
    <3>1. s.answer = answer /\ s.due = due /\ s.late = l /\ s.holiday = h /\ s.moved = m
      BY <2>2
    <3> QED
      BY <1>4, <1>5, <3>1
  <2> QED
    BY <1>3, <2>1, <2>2
<1> QED
  BY <1>3, <1>5 DEF OfflineHasCause, Paid

\* While the book stands, an unhurried sale was paid at the price the book has for it.
LEMMA PaidIsBooks ==
    ASSUME TillFits, till.sale # None, published = till.sale.stamp, ~till.sale.late
    PROVE  till.sale.paid = BookPrice(till.sale.day, till.sale.minute)
  BY DEF TillFits, TicketFits, Stamped

\* A sale is only quarantined when the server's price is another than the till's.
LEMMA CommitHasCause ==
    ASSUME Typed, TillFits, NEW c \in Calls, CommitSync(c)
    PROVE  /\ OfflineHasCause'
           /\ till'.cache = till.cache /\ till'.shown = till.shown /\ till'.sale = None
<1>1. /\ at[c] = "reads" /\ req[c].op = "sync" /\ seen[c].windows # None /\ seen[c].versions # None
      /\ c \in InFlight
  BY DEF CommitSync, HasBook, InFlight
<1>2. /\ till.sale # None
      /\ seen[c].day = till.sale.day /\ seen[c].minute = till.sale.minute
      /\ till.sale.stamp = published => seen[c].windows = windows /\ seen[c].versions = versions
  BY <1>1 DEF TillFits, SyncFits, ReadIsBook
<1>3. ASSUME published = till.sale.stamp, ~IsHoliday(till.sale.day), ~till.sale.late
      PROVE  Paid(PriceNow(c)) = till.sale.paid
  <2>1. IsHoliday(till.sale.day) = FALSE
    BY <1>3 DEF IsHoliday
  <2>2. PriceNow(c) = Resolve(windows, versions, FALSE, till.sale.day, till.sale.minute)
    BY <1>2, <1>3, <2>1 DEF PriceNow
  <2> QED
    BY <1>2, <1>3, <2>2, PaidIsBooks DEF BookPrice
<1>4. PICK answer, due :
          /\ Answered(answer, due)
          /\ Paid(PriceNow(c)) = till.sale.paid => answer = "committed"
  BY DEF CommitSync
<1> QED
  BY <1>3, <1>4, AnswerRecorded

\* A sale is only rejected when the server has no price for it, or another than the till.
LEMMA RejectHasCause ==
    ASSUME Typed, TillFits, NEW c \in Calls, RejectSync(c)
    PROVE  /\ OfflineHasCause'
           /\ till'.cache = till.cache /\ till'.shown = till.shown /\ till'.sale = None
<1>1. PICK due : /\ due = PriceAt(till.sale.day, till.sale.minute) /\ Answered("rejected", due)
                 /\ till.sale # None /\ till.sale.paid = 0
  BY DEF RejectSync, MayUpload
<1>2. ASSUME published = till.sale.stamp, ~IsHoliday(till.sale.day), ~till.sale.late
      PROVE  Paid(due) = 0
  <2>1. IsHoliday(till.sale.day) = FALSE
    BY <1>2 DEF IsHoliday
  <2> QED
    BY <1>1, <1>2, <2>1, PaidIsBooks DEF BookPrice, PriceAt
<1> QED
  BY <1>1, <1>2, AnswerRecorded

\* While nobody writes the book, what a call reads of it is the book.
LEMMA TillReads ==
    ASSUME Typed, TillFits, NEW c \in Calls, Start(c) \/ Step(c),
           published' = published, NEW d \in Calls
    PROVE  RefreshFits(d)'
<1>1. OthersStay(c) /\ LeadsTo(c) /\ Writes(c) /\ Tabled
  BY CallMoves DEF Typed, PlacesFit
<1>2. UNCHANGED <<windows, versions>> /\ published \in Nat
  BY <1>1 DEF Writes, Typed, Tables
<1> SUFFICES ASSUME at'[d] = "reads", req'[d].op = "refresh"
             PROVE  Stamped(seen[d].asked, ReadIsBook(d))'
  BY DEF RefreshFits
<1>3. CASE at[d] = "reads" /\ req[d].op = "refresh" /\ seen'[d] = seen[d]
  BY <1>2, <1>3 DEF TillFits, RefreshFits, Stamped, ReadIsBook
<1>4. CASE d = c /\ RefreshCatalog(c)
  <2>1. seen'[c] = Reading(None, None, published)
    BY <1>1, <1>4, ArriveMoves DEF RefreshCatalog, Moved
  <2> QED
    BY <1>2, <1>4, <2>1 DEF Stamped, ReadIsBook, Reading
<1>5. CASE d = c /\ ReadBook(c)
  <2>1. PICK v : /\ Goto(c, "reads", v)
                 /\ \/ v = [seen[c] EXCEPT !.windows = windows]
                    \/ v = [seen[c] EXCEPT !.versions = versions]
    BY <1>5 DEF ReadBook
  <2>2. at[c] = "reads" /\ req[c].op = "refresh" /\ seen'[c] = v
    BY <1>1, <1>5, <2>1, GotoMoves DEF ReadBook, Moved
  <2>3. Stamped(seen[c].asked, ReadIsBook(c))
    BY <2>2 DEF TillFits, RefreshFits
  <2>4. seen[c] = [day |-> seen[c].day, minute |-> seen[c].minute, asked |-> seen[c].asked,
                   windows |-> seen[c].windows, versions |-> seen[c].versions]
    BY <2>2 DEF Typed, PlacesFit, CallFits
  <2>5. /\ v.asked = seen[c].asked
        /\ v.windows \in {windows, seen[c].windows} /\ v.versions \in {versions, seen[c].versions}
    BY <2>1, <2>4
  <2> QED
    BY <1>2, <1>5, <2>2, <2>3, <2>5 DEF Stamped, ReadIsBook
<1>6. ~(d = c /\ BeginSale(c))
  BY <1>1, GotoMoves DEF BeginSale, Moved
<1> QED
  BY <1>1, <1>3, <1>4, <1>5, <1>6 DEF LeadsTo, OthersStay

\* An upload only comes when a sale waits and no upload is under way.
LEMMA SyncCame ==
    ASSUME Typed, NEW c \in Calls, Start(c) \/ Step(c), Typed',
           at[c] = "idle", c \in InFlight', req'[c].op = "sync"
    PROVE  AskSync(c) /\ at'[c] = "begin"
<1>1. LeadsTo(c) /\ Tabled
  BY CallMoves DEF Typed, PlacesFit
<1>2. Fits(at'[c], req'[c].op)
  BY DEF Typed, PlacesFit, CallFits
<1>3. at'[c] \in {"begin", "reads"}
  BY <1>2 DEF Fits, Editing
<1>4. ~BeginSale(c) /\ ~ReadBook(c)
  BY DEF BeginSale, ReadBook
<1>5. ~RefreshCatalog(c)
  BY <1>1, Arrives, ArriveMoves DEF RefreshCatalog, Moved
<1>6. ~Ask(c, "sell") /\ ~Ask(c, "redeem")
  <2>1. ASSUME NEW op \in {"sell", "redeem"}, Ask(c, op) PROVE FALSE
    <3>1. PICK r \in Arriving(c, {op}) : Arrive(c, r, "begin", None)
      BY <2>1 DEF Ask
    <3>2. r.op = op /\ req'[c] = r
      BY <1>1, <3>1, Arrives, ArriveMoves DEF Moved
    <3> QED
      BY <3>2
  <2> QED
    BY <2>1
<1> QED
  BY <1>1, <1>3, <1>4, <1>5, <1>6 DEF LeadsTo

\* While an upload is under way its sale stays, no other comes, and what it reads
\* of the book is the book until somebody writes it.
LEMMA SyncReads ==
    ASSUME Typed, Typed', TillFits, NEW c \in Calls, Start(c) \/ Step(c),
           published' = published, NEW d \in Calls
    PROVE  SyncFits(d)'
<1>1. OthersStay(c) /\ LeadsTo(c) /\ Writes(c) /\ Tabled
  BY CallMoves DEF Typed, PlacesFit
<1>2. UNCHANGED <<windows, versions>>
  BY <1>1 DEF Writes, Typed, Tables
<1> SUFFICES ASSUME d \in InFlight', req'[d].op = "sync" PROVE SyncFits(d)'
  BY DEF SyncFits
<1>3. ASSUME NEW e \in InFlight', req'[e].op = "sync"
      PROVE  \/ e \in InFlight /\ req[e].op = "sync"
             \/ e = c /\ AskSync(c) /\ at'[c] = "begin"
  <2>1. CASE e # c
    BY <1>1, <1>3, <2>1 DEF OthersStay, InFlight
  <2>2. CASE e = c
    BY <1>1, <1>3, <2>2, InFlightCame, SyncCame
  <2> QED
    BY <2>1, <2>2
<1>4. till.sale # None
  BY <1>3 DEF TillFits, SyncFits, AskSync, MayUpload
<1>5. till'.sale = till.sale
  <2>1. CASE till' = till
    BY <2>1
  <2>2. CASE PutCatalog(c)
    <3>1. PICK x : till' = [till EXCEPT !.cache = x]
      BY <2>2 DEF PutCatalog
    <3> QED
      BY <3>1 DEF Typed, Tables, TillRow
  <2>3. CASE CommitSync(c)
    <3>1. c \in InFlight /\ req[c].op = "sync" /\ at'[c] = "done"
      BY <1>1, <2>3, DoneMoves DEF CommitSync, HasBook, InFlight, Moved
    <3>2. d # c /\ d \in InFlight /\ req[d].op = "sync"
      BY <3>1, <1>1 DEF OthersStay, InFlight
    <3> QED
      BY <3>1, <3>2 DEF TillFits, SyncFits
  <2>4. CASE RejectSync(c)
    <3>1. PICK r : Refuse(c, r)
      BY <2>4 DEF RejectSync
    <3>2. at'[c] = "done"
      BY <1>1, <3>1, RefuseMoves DEF Moved
    <3>3. d # c /\ d \in InFlight /\ req[d].op = "sync"
      BY <3>2, <1>1 DEF OthersStay, InFlight
    <3> QED
      BY <2>4, <3>3 DEF RejectSync, MayUpload
  <2> QED
    BY <1>1, <2>1, <2>2, <2>3, <2>4 DEF Writes
<1>6. \A e \in InFlight' : req'[e].op = "sync" => e = d
  BY <1>3 DEF TillFits, SyncFits, AskSync, MayUpload
<1>7. ASSUME at'[d] = "reads"
      PROVE  /\ seen'[d].day = till.sale.day /\ seen'[d].minute = till.sale.minute
             /\ till.sale.stamp = published => ReadIsBook(d)'
  <2>1. d \in InFlight /\ req[d].op = "sync"
    BY <1>3, <1>7
  <2>2. CASE at[d] = "reads" /\ seen'[d] = seen[d]
    BY <1>2, <2>1, <2>2 DEF TillFits, SyncFits, ReadIsBook
  <2>3. CASE d = c /\ BeginSale(c)
    <3>1. seen'[c] = Reading(till.sale.day, till.sale.minute, None)
      BY <1>1, <2>1, <2>3, GotoMoves DEF BeginSale, Moved
    <3> QED
      BY <2>3, <3>1 DEF Reading, ReadIsBook
  <2>4. CASE d = c /\ ReadBook(c)
    <3>1. PICK v : /\ Goto(c, "reads", v)
                   /\ \/ v = [seen[c] EXCEPT !.windows = windows]
                      \/ v = [seen[c] EXCEPT !.versions = versions]
      BY <2>4 DEF ReadBook
    <3>2. at[c] = "reads" /\ seen'[c] = v
      BY <1>1, <2>4, <3>1, GotoMoves DEF ReadBook, Moved
    <3>3. /\ seen[c].day = till.sale.day /\ seen[c].minute = till.sale.minute
          /\ till.sale.stamp = published => ReadIsBook(c)
      BY <2>1, <2>4, <3>2 DEF TillFits, SyncFits
    <3>4. seen[c] = [day |-> seen[c].day, minute |-> seen[c].minute, asked |-> seen[c].asked,
                     windows |-> seen[c].windows, versions |-> seen[c].versions]
      BY <3>2 DEF Typed, PlacesFit, CallFits
    <3>5. /\ v.day = seen[c].day /\ v.minute = seen[c].minute
          /\ v.windows \in {windows, seen[c].windows} /\ v.versions \in {versions, seen[c].versions}
      BY <3>1, <3>4
    <3> QED
      BY <1>2, <2>4, <3>2, <3>3, <3>5 DEF ReadIsBook
  <2>5. ~(d = c /\ RefreshCatalog(c))
    <3>1. ASSUME d = c, RefreshCatalog(c) PROVE FALSE
      BY <1>1, <2>1, <3>1, Arrives DEF RefreshCatalog, InFlight
    <3> QED
      BY <3>1
  <2> QED
    BY <1>1, <1>7, <2>2, <2>3, <2>4, <2>5 DEF LeadsTo, OthersStay
<1> QED
  BY <1>4, <1>5, <1>6, <1>7 DEF SyncFits

\* A query that was answered fills the cache with the book of its stamp.
LEMMA CacheFitsStep ==
    ASSUME Typed, TillFits, NEW c \in Calls, PutCatalog(c), UNCHANGED <<windows, versions, published>>
    PROVE  CacheFits' /\ till'.shown = till.shown /\ till'.sale = till.sale
           /\ till'.synced = till.synced
<1>1. /\ at[c] = "reads" /\ req[c].op = "refresh" /\ seen[c].windows # None /\ seen[c].versions # None
      /\ till' = [till EXCEPT !.cache = [windows |-> seen[c].windows,
            versions |-> seen[c].versions, stamp |-> seen[c].asked]]
  BY DEF PutCatalog, HasBook
<1>2. Stamped(seen[c].asked, seen[c].windows = windows /\ seen[c].versions = versions)
  BY <1>1 DEF TillFits, RefreshFits, Stamped, ReadIsBook
<1>3. /\ till'.cache.windows = seen[c].windows /\ till'.cache.versions = seen[c].versions
      /\ till'.cache.stamp = seen[c].asked
      /\ till'.shown = till.shown /\ till'.sale = till.sale /\ till'.synced = till.synced
  BY <1>1 DEF Typed, Tables, TillRow
<1> QED
  BY <1>2, <1>3 DEF CacheFits, Stamped

\* What a call does leaves the till in step with the book.
LEMMA TillStep ==
    ASSUME Typed, Typed', TillFits, NEW c \in Calls, Start(c) \/ Step(c)
    PROVE  TillFits'
<1>1. Writes(c)
  BY CallMoves DEF Typed, PlacesFit
<1>2. CASE Published(c)
  BY <1>2, TillAges
<1>3. CASE published' = published
  <2>1. UNCHANGED <<windows, versions, published>>
    BY <1>1, <1>3 DEF Writes, Typed, Tables
  <2>2. \A d \in Calls : RefreshFits(d)' /\ SyncFits(d)'
    BY <1>3, TillReads, SyncReads
  <2>3. CASE till' = till
    BY <2>1, <2>2, <2>3 DEF TillFits, CacheFits, ShownFits, TicketFits, OfflineHasCause,
                            Stamped, BookPrice
  <2>4. CASE PutCatalog(c)
    <3>1. CacheFits' /\ till'.shown = till.shown /\ till'.sale = till.sale /\ till'.synced = till.synced
      BY <2>1, <2>4, CacheFitsStep
    <3> QED
      BY <2>1, <2>2, <3>1 DEF TillFits, ShownFits, TicketFits, OfflineHasCause, Stamped, BookPrice
  <2>5. CASE CommitSync(c) \/ RejectSync(c)
    <3>1. /\ OfflineHasCause'
          /\ till'.cache = till.cache /\ till'.shown = till.shown /\ till'.sale = None
      BY <2>5, CommitHasCause, RejectHasCause
    <3> QED
      BY <2>1, <2>2, <3>1 DEF TillFits, CacheFits, ShownFits, TicketFits, Stamped, BookPrice
  <2> QED
    BY <1>1, <2>3, <2>4, <2>5 DEF Writes
<1> QED
  BY <1>1, <1>2, <1>3 DEF Writes

\* The price the screen shows is the cached book's, the server's while no write came.
LEMMA TillShows ==
    ASSUME Typed, TillFits, ShowPrices
    PROVE  TillFits'
<1>1. UNCHANGED <<windows, versions, published, at, req, seen>> /\ till.sale = None
  BY DEF ShowPrices, book, call
<1>2. PICK m : till' = [till EXCEPT !.shown = [day |-> today, minute |-> m,
                   vnd |-> Offline(today, m), stamp |-> till.cache.stamp]]
  BY DEF ShowPrices
<1>3. /\ till'.cache = till.cache /\ till'.sale = till.sale /\ till'.synced = till.synced
      /\ till'.shown.day = today /\ till'.shown.minute = m /\ till'.shown.vnd = Offline(today, m)
      /\ till'.shown.stamp = till.cache.stamp
  BY <1>2 DEF Typed, Tables, TillRow
<1>4. Stamped(till.cache.stamp, till.cache.windows = windows /\ till.cache.versions = versions)
  BY DEF TillFits, CacheFits
<1>5. till.cache.windows = windows /\ till.cache.versions = versions =>
          Offline(today, m) = BookPrice(today, m)
  BY DEF Offline, BookPrice
<1>6. ShownFits'
  <2>1. BookPrice(till.shown.day, till.shown.minute)' = BookPrice(today, m)
    BY <1>1, <1>3 DEF BookPrice
  <2> QED
    BY <1>1, <1>3, <1>4, <1>5, <2>1 DEF ShownFits, Stamped
<1>7. CacheFits' /\ TicketFits' /\ OfflineHasCause'
  BY <1>1, <1>3 DEF TillFits, CacheFits, TicketFits, OfflineHasCause, Stamped
<1>8. \A c \in Calls : RefreshFits(c)' /\ SyncFits(c)'
  BY <1>1, <1>3 DEF TillFits, RefreshFits, SyncFits, InFlight, Stamped, ReadIsBook
<1> QED
  BY <1>6, <1>7, <1>8 DEF TillFits

\* A ticket is sold at the price shown: the book's of its minute, or it is late.
LEMMA TillSells ==
    ASSUME Typed, TillFits, SellOffline
    PROVE  TillFits'
<1>1. /\ UNCHANGED <<windows, versions, published, at, req, seen>>
      /\ till.sale = None /\ till.shown # None
  BY DEF SellOffline, book, call
<1>2. PICK m, slow : /\ slow = (till.shown.day # today \/ till.shown.minute # m)
          /\ till' = [till EXCEPT !.shown = None, !.sale = [day |-> today, minute |-> m,
                paid |-> till.shown.vnd, stamp |-> till.shown.stamp, late |-> slow]]
  BY DEF SellOffline
<1>3. /\ till'.cache = till.cache /\ till'.shown = None /\ till'.synced = till.synced
      /\ till'.sale.day = today /\ till'.sale.minute = m /\ till'.sale.paid = till.shown.vnd
      /\ till'.sale.stamp = till.shown.stamp /\ till'.sale.late = slow
  BY <1>2 DEF Typed, Tables, TillRow
<1>4. Stamped(till.shown.stamp, till.shown.vnd = BookPrice(till.shown.day, till.shown.minute))
  BY <1>1 DEF TillFits, ShownFits
<1>5. TicketFits'
  <2>1. BookPrice(till.sale.day, till.sale.minute)' = BookPrice(today, m)
    BY <1>1, <1>3 DEF BookPrice
  <2>2. till.shown.stamp = published =>
            \/ slow
            \/ till.shown.vnd = BookPrice(today, m)
    BY <1>2, <1>4 DEF Stamped
  <2> QED
    BY <1>1, <1>3, <1>4, <2>1, <2>2 DEF TicketFits, Stamped
<1>6. CacheFits' /\ ShownFits' /\ OfflineHasCause'
  BY <1>1, <1>3 DEF TillFits, CacheFits, ShownFits, OfflineHasCause, Stamped
<1>7. \A c \in Calls : RefreshFits(c)' /\ SyncFits(c)'
  BY <1>1 DEF TillFits, RefreshFits, SyncFits, InFlight, Stamped, ReadIsBook
<1> QED
  BY <1>5, <1>6, <1>7 DEF TillFits

\* The cache is filled with the first book, and nothing is sold yet.
LEMMA TillInit == PriceInit => TillFits
<1> SUFFICES ASSUME PriceInit PROVE TillFits
  OBVIOUS
<1>1. /\ published = 0 /\ till.shown = None /\ till.sale = None /\ till.synced = {}
      /\ till.cache.windows = windows /\ till.cache.versions = versions /\ till.cache.stamp = 0
      /\ \A c \in Calls : at[c] = "idle"
  BY DEF PriceInit, Snapshot
<1> QED
  BY <1>1 DEF TillFits, CacheFits, ShownFits, TicketFits, OfflineHasCause, RefreshFits, SyncFits,
              InFlight, Stamped

\* Every step of the specification keeps the till in step with the book.
LEMMA TillNext == Typed /\ TillFits /\ [PriceNext]_priceVars => TillFits'
<1> SUFFICES ASSUME Typed, TillFits, [PriceNext]_priceVars PROVE TillFits'
  OBVIOUS
<1>1. Typed'
  BY TypedNext
<1>2. ASSUME NEW c \in Calls, Start(c) \/ Step(c) PROVE TillFits'
  BY <1>1, <1>2, TillStep
<1>3. CASE UNCHANGED <<windows, versions, published, till, at, req, seen>>
  BY <1>3 DEF TillFits, CacheFits, ShownFits, TicketFits, OfflineHasCause, RefreshFits, SyncFits,
              InFlight, Stamped, ReadIsBook, BookPrice
<1> QED
  BY <1>2, <1>3, TillShows, TillSells DEF PriceNext, Midnight, priceVars, book, call

\* A ticket has one price.  No minute has two windows (pricing.service checks the
\* overlap), an online bill bears the price of the moment it is dated by however
\* long it waits for its reads (bills.service), and a sale the till priced from its
\* cached book offline is quarantined by the upload only for a cause, and rejected only
\* when the server's price is none or 0 too or for the same causes (sync.service): each
\* unless calls that write what is read met, which raced and moved record.
THEOREM PricesAlwaysAgree == PriceSpec => []PricesAgree
<1>1. OnlineSales /\ TillFits => PricesAgree
  BY DEF OnlineSales, Windows, WindowsFit, SalesFit, TillFits, PricesAgree, WindowsDisjoint
<1>2. PriceInit => OnlineSales
  BY WindowsInit DEF OnlineSales, PriceInit, SalesFit, BillBearsItsPrice
<1>3. OnlineSales => Typed
  BY DEF OnlineSales, Windows
<1> QED
  BY <1>1, <1>2, <1>3, TillInit, SalesNext, TillNext, PTL DEF PriceSpec

-----------------------------------------------------------------------------
(***************************************************************************)
(* The past.                                                               *)
(***************************************************************************)

\* A nonempty set of bounded naturals has a greatest member.
LEMMA Greatest ==
    ASSUME NEW N \in Nat, NEW T \in SUBSET (0 .. N), T # {}
    PROVE  \E x \in T : \A y \in T : y <= x
<1> DEFINE B == {N - y : y \in T}
<1>0. \A y \in T : y \in Nat /\ y <= N /\ N - y \in Nat
  OBVIOUS
<1>1. B \subseteq Nat /\ B # {}
  BY <1>0
<1>2. PICK b \in B : \A e \in B : ~(<<e, b>> \in OpToRel(<, Nat))
  <2> HIDE DEF B
  <2> QED
    BY <1>1, NatLessThanWellFounded, WFMin
<1>3. \A e \in B : b <= e
  <2> SUFFICES ASSUME NEW e \in B PROVE b <= e
    OBVIOUS
  <2>1. e \in Nat /\ b \in Nat
    BY <1>1
  <2>2. ~(e < b)
    BY <1>2, <2>1 DEF OpToRel
  <2> QED
    BY <2>1, <2>2
<1>4. PICK x \in T : b = N - x
  OBVIOUS
<1>5. ASSUME NEW y \in T PROVE y <= x
  <2>1. N - x <= N - y
    BY <1>3, <1>4
  <2>2. x \in Nat /\ y \in Nat
    BY <1>0
  <2> HIDE DEF B
  <2>3. \A p, q, r \in Int : p - q <= p - r => r <= q
    OBVIOUS
  <2> QED
    BY <2>1, <2>2, <2>3
<1> QED
  BY <1>5

\* The versions the resolver chooses from.
Dated(V, S) == S \subseteq Ids /\ \A v \in S : V[v].day \in Days

BeatsAll(V, S, v) ==
    /\ v \in S
    /\ \A u \in S \ {v} : V[u].day < V[v].day \/ (V[u].day = V[v].day /\ u < v)

\* Some version is the newest: days and ids are bounded.
LEMMA SomeBeatsAll ==
    ASSUME NEW V, NEW S, Dated(V, S), S # {}
    PROVE  \E v \in S : BeatsAll(V, S, v)
<1> DEFINE days == {V[v].day : v \in S}
<1>1. MaxDay \in Nat /\ MaxCalls \in Nat
  BY PriceBounds
<1>2. days \in SUBSET (0 .. MaxDay) /\ days # {}
  BY <1>1 DEF Dated, Days
<1>3. PICK last \in days : \A d \in days : d <= last
  <2> HIDE DEF days
  <2> QED
    BY <1>1, <1>2, Greatest
<1> DEFINE ids == {v \in S : V[v].day = last}
<1>4. ids \in SUBSET (0 .. MaxCalls) /\ ids # {}
  BY <1>3 DEF Dated, Ids
<1>5. PICK v \in ids : \A u \in ids : u <= v
  <2> HIDE DEF ids
  <2> QED
    BY <1>1, <1>4, Greatest
<1>6. BeatsAll(V, S, v)
  <2>1. v \in S /\ v \in Nat /\ V[v].day = last /\ last \in Nat
    BY <1>1, <1>2 DEF Dated, Ids
  <2>2. ASSUME NEW u \in S \ {v} PROVE V[u].day < V[v].day \/ (V[u].day = V[v].day /\ u < v)
    <3>1. u \in Nat /\ u # v /\ V[u].day \in Nat /\ V[u].day <= last
      BY <1>1, <1>2, <1>3 DEF Dated, Ids
    <3>2. CASE V[u].day = last
      <4>1. u <= v
        BY <1>5, <3>2
      <4> HIDE DEF days, ids
      <4> QED
        BY <4>1, <2>1, <3>1, <3>2
    <3>3. CASE V[u].day # last
      <4> HIDE DEF days, ids
      <4> QED
        BY <2>1, <3>1, <3>3
    <3> QED
      BY <3>2, <3>3
  <2> QED
    BY <2>1, <2>2 DEF BeatsAll
<1> QED
  BY <1>6

\* Only one is.
LEMMA OneBeatsAll ==
    ASSUME NEW V, NEW S, Dated(V, S), NEW u, NEW v, BeatsAll(V, S, u), BeatsAll(V, S, v)
    PROVE  u = v
  BY PriceBounds DEF Dated, BeatsAll, Days, Ids

\* Newest returns it.
LEMMA NewestBeatsAll ==
    ASSUME NEW V, NEW S, Dated(V, S), S # {}
    PROVE  Newest(V, S) \in S /\ BeatsAll(V, S, Newest(V, S))
  BY SomeBeatsAll DEF BeatsAll, Newest

\* Newest reads nothing of a version but its day.
LEMMA NewestSame ==
    ASSUME NEW V, NEW W, NEW S, Dated(V, S), S # {}, \A v \in S : W[v].day = V[v].day
    PROVE  Newest(W, S) = Newest(V, S)
<1>1. Dated(W, S)
  BY DEF Dated
<1>2. BeatsAll(V, S, Newest(V, S)) /\ BeatsAll(W, S, Newest(W, S))
  BY <1>1, NewestBeatsAll
<1>3. BeatsAll(V, S, Newest(W, S))
  BY <1>2 DEF BeatsAll
<1> QED
  BY <1>2, <1>3, OneBeatsAll

\* T has the versions of S, as they were, and c.
Grown(V, W, S, T, c) ==
    /\ Dated(V, S) /\ Dated(W, T) /\ T = S \cup {c}
    /\ \A v \in S : W[v].day = V[v].day

\* One more version is the newest itself, or leaves the newest as it was.
LEMMA NewestMore ==
    ASSUME NEW V, NEW W, NEW S, NEW T, NEW c, Grown(V, W, S, T, c)
    PROVE  \/ Newest(W, T) = c
           \/ S # {} /\ Newest(W, T) = Newest(V, S)
<1>1. Dated(V, S) /\ BeatsAll(W, T, Newest(W, T))
  BY NewestBeatsAll DEF Grown
<1>2. CASE Newest(W, T) # c
  <2>1. Newest(W, T) \in S
    BY <1>1, <1>2 DEF BeatsAll, Grown
  <2>2. BeatsAll(V, S, Newest(W, T))
    BY <1>1, <2>1 DEF BeatsAll, Grown
  <2> QED
    BY <1>1, <2>1, <2>2, NewestBeatsAll, OneBeatsAll
<1> QED
  BY <1>2

\* The versions of a scope that have begun.
Begun(V, day, s) == {v \in Rows(V) : V[v].day <= day /\ V[v].branch = s}

\* VersionFor looks for one of the branch, then for one of the chain.
LEMMA VersionForIs ==
    ASSUME NEW V, NEW day
    PROVE  /\ Begun(V, day, Branch) # {} => VersionFor(V, day) = Newest(V, Begun(V, day, Branch))
           /\ Begun(V, day, Branch) = {} /\ Begun(V, day, None) # {} =>
                 VersionFor(V, day) = Newest(V, Begun(V, day, None))
           /\ Begun(V, day, Branch) = {} /\ Begun(V, day, None) = {} => VersionFor(V, day) = None
  BY DEF VersionFor, Begun

\* A price depends on the version in force by its cells.
LEMMA CellsDecide ==
    ASSUME NEW Win, NEW V, NEW W, NEW holiday, NEW day, NEW m,
           \/ VersionFor(V, day) = None /\ VersionFor(W, day) = None
           \/ /\ VersionFor(V, day) # None /\ VersionFor(W, day) # None
              /\ V[VersionFor(V, day)].cells = W[VersionFor(W, day)].cells
    PROVE  Resolve(Win, V, holiday, day, m) = Resolve(Win, W, holiday, day, m)
  BY DEF Resolve

\* The version a call edits has not begun when the call is let in, and FindCell
\* takes the call no further from its check than midnight records.
LEMMA EditsStep ==
    ASSUME Typed, EditsFit, NEW c \in Calls, Start(c) \/ Step(c)
    PROVE  EditsFit'
<1>1. OthersStay(c) /\ LeadsTo(c) /\ Writes(c) /\ Tabled
  BY CallMoves DEF Typed, PlacesFit
<1> SUFFICES ASSUME "midnight" \notin raced', NEW d \in Calls, at'[d] \in Editing
             PROVE  Editable(req[d].version)'
  BY DEF EditsFit
<1>2. "midnight" \notin raced
  BY <1>1 DEF Writes
<1>3. \A v \in Rows(versions) : versions'[v].day = versions[v].day
  BY VersionsAfter DEF Typed
<1>4. CASE at[d] \in Editing /\ req'[d] = req[d]
  <2>1. Editable(req[d].version) /\ req[d].version \in Rows(versions)
    BY <1>2, <1>4 DEF EditsFit, Typed, PlacesFit, CallFits
  <2> QED
    BY <1>1, <1>3, <1>4, <2>1 DEF Editable, Writes
<1>5. CASE d = c /\ CheckCell(c)
  <2>1. PICK r \in Arriving(c, {"upsertCell"}) :
            IF Editable(r.version) THEN Arrive(c, r, "cell", None) ELSE Refuse(c, r)
    BY <1>5 DEF CheckCell
  <2>2. at'[c] # "done"
    BY <1>5 DEF Editing
  <2>3. Editable(r.version) /\ req'[c] = r
    BY <1>1, <2>1, <2>2, ArriveMoves, RefuseMoves DEF Moved
  <2>4. UNCHANGED <<versions, today>>
    BY <1>5 DEF CheckCell, book
  <2> QED
    BY <1>5, <2>3, <2>4 DEF Editable
<1>6. CASE d = c /\ FindCell(c)
  <2>1. at[c] \in Editing /\ req'[c] = req[c]
    BY <1>1, <1>6, GotoMoves DEF FindCell, Moved, Editing
  <2> QED
    BY <1>4, <1>6, <2>1
<1> QED
  BY <1>1, <1>4, <1>5, <1>6 DEF LeadsTo, OthersStay, Editing

\* Midnight records the edits it catches.
LEMMA EditsMidnight ==
    ASSUME Typed, EditsFit, Midnight
    PROVE  EditsFit'
<1>1. UNCHANGED <<versions, at, req>> /\ raced \subseteq raced'
  BY DEF Midnight, book, call
<1>2. CASE \E c \in Calls : at[c] \in Editing
  <2>1. PICK c \in {d \in InFlight : at[d] \in {"cell", "insert", "update"}} : TRUE
    BY <1>2 DEF InFlight, Editing
  <2>2. "midnight" \in raced'
    BY <2>1 DEF Midnight
  <2> QED
    BY <2>2 DEF EditsFit
<1>3. CASE ~\E c \in Calls : at[c] \in Editing
  BY <1>1, <1>3 DEF EditsFit
<1> QED
  BY <1>2, <1>3

Edits == Typed /\ EditsFit

\* No call edits a cell when nothing has come yet.
LEMMA EditsInit == PriceInit => Edits
  BY TypedInit DEF Edits, EditsFit, PriceInit, Editing

\* Every step of the specification keeps the edits in the future.
LEMMA EditsNext == Edits /\ [PriceNext]_priceVars => Edits'
<1> SUFFICES ASSUME Edits, [PriceNext]_priceVars PROVE Edits'
  OBVIOUS
<1>1. Typed'
  BY TypedNext DEF Edits
<1>2. ASSUME NEW c \in Calls, Start(c) \/ Step(c) PROVE Edits'
  BY <1>1, <1>2, EditsStep DEF Edits
<1>3. CASE UNCHANGED <<versions, today, at, req, raced>>
  BY <1>1, <1>3 DEF Edits, EditsFit, Editable
<1> QED
  BY <1>1, <1>2, <1>3, EditsMidnight DEF Edits, PriceNext, ShowPrices, SellOffline, priceVars,
                                         book, call

\* The versions of a scope that have begun are dated.
LEMMA BegunIsDated ==
    ASSUME NEW V \in [Ids -> VersionRows \cup {None}], NEW day, NEW s
    PROVE  Dated(V, Begun(V, day, s))
  BY DEF Dated, Begun, Rows, VersionRows

\* An edit of a version that has not begun changes no price of a day that has.
LEMMA PastStandsCell ==
    ASSUME Edits, NEW c \in Calls, UpdateCell(c) \/ InsertCell(c), "midnight" \notin raced,
           NEW day \in 1 .. today, NEW m \in Minute
    PROVE  PriceAt(day, m)' = PriceAt(day, m)
<1> DEFINE e == req[c].version
<1>1. /\ e \in Rows(versions) /\ at[c] \in Editing
      /\ versions' \in [Ids -> VersionRows \cup {None}]
      /\ Rows(versions') = Rows(versions)
      /\ \A v \in Ids \ {e} : versions'[v] = versions[v]
      /\ versions'[e].day = versions[e].day /\ versions'[e].branch = versions[e].branch
  BY CellWritten DEF Edits, Typed
<1>2. versions[e].day > today
  BY <1>1 DEF Edits, EditsFit, Editable
<1>3. UNCHANGED <<windows, holidays>>
  BY DEF UpdateCell, InsertCell, Published
<1>4. versions \in [Ids -> VersionRows \cup {None}] /\ today \in Nat
  BY DEF Edits, Typed, Tables, Days
<1>5. versions[e].day \in Nat
  BY <1>1, <1>4 DEF Rows, VersionRows, Days
<1> HIDE DEF e
<1>6. \A v \in Rows(versions) :
          versions'[v].day = versions[v].day /\ versions'[v].branch = versions[v].branch
  BY <1>1, <1>4 DEF Rows
<1>7. \A s : Begun(versions', day, s) = Begun(versions, day, s)
  BY <1>1, <1>6 DEF Begun
<1>8. \A s : Begun(versions, day, s) # {} =>
          /\ Newest(versions', Begun(versions, day, s)) = Newest(versions, Begun(versions, day, s))
          /\ Newest(versions, Begun(versions, day, s)) \in Begun(versions, day, s)
  <2> SUFFICES ASSUME NEW s, Begun(versions, day, s) # {}
               PROVE  /\ Newest(versions', Begun(versions, day, s))
                             = Newest(versions, Begun(versions, day, s))
                      /\ Newest(versions, Begun(versions, day, s)) \in Begun(versions, day, s)
    OBVIOUS
  <2>1. Dated(versions, Begun(versions, day, s))
    BY <1>4, BegunIsDated
  <2>2. \A v \in Begun(versions, day, s) : versions'[v].day = versions[v].day
    BY <1>6 DEF Begun
  <2> QED
    BY <2>1, <2>2, NewestSame, NewestBeatsAll
<1>9. VersionFor(versions', day) = VersionFor(versions, day)
  BY <1>7, <1>8, VersionForIs
<1>10. \A s : \A v \in Begun(versions, day, s) : versions'[v] = versions[v]
  BY <1>1, <1>2, <1>4, <1>5 DEF Begun, Rows
<1>11. VersionFor(versions, day) = None
       \/ versions'[VersionFor(versions, day)] = versions[VersionFor(versions, day)]
  BY <1>8, <1>10, VersionForIs
<1>12. Resolve(windows, versions', IsHoliday(day), day, m)
           = Resolve(windows, versions, IsHoliday(day), day, m)
  BY <1>9, <1>11, CellsDecide
<1> QED
  BY <1>3, <1>12 DEF PriceAt, IsHoliday

\* A version that begins later, or that bears the cells in force, changes none.
LEMMA PastStandsVersion ==
    ASSUME Edits, NEW c \in Calls, WriteVersion(c), NEW day \in 1 .. today, NEW m \in Minute,
           ~(versions'[c].day <= day) \/ ClonesInForce(c, day)
    PROVE  PriceAt(day, m)' = PriceAt(day, m)
<1>1. /\ versions[c] = None /\ c \in Ids
      /\ versions' \in [Ids -> VersionRows \cup {None}]
      /\ Rows(versions') = Rows(versions) \cup {c}
      /\ \A v \in Ids \ {c} : versions'[v] = versions[v]
  BY VersionWritten DEF Edits, Typed
<1>2. versions \in [Ids -> VersionRows \cup {None}] /\ c # None /\ c \notin Rows(versions)
  BY <1>1, NoneIsNoRow DEF Edits, Typed, Tables, Rows
<1>3. UNCHANGED <<windows, holidays>>
  BY DEF WriteVersion, Published
<1>4. \A v \in Rows(versions) : v # c /\ versions'[v] = versions[v]
  BY <1>1, <1>2 DEF Rows
<1> DEFINE old(s) == Begun(versions, day, s)
           new(s) == Begun(versions', day, s)
<1>5. \A s : new(s) = old(s) \/ (new(s) = old(s) \cup {c} /\ versions'[c].day <= day)
  BY <1>1, <1>4 DEF Begun
<1>6. \A s : Dated(versions, old(s)) /\ Dated(versions', new(s))
  BY <1>1, <1>2, BegunIsDated
<1>7. \A s : \A v \in old(s) : v # c /\ versions'[v] = versions[v]
  BY <1>4 DEF Begun
<1> HIDE DEF old, new
<1>8. ASSUME NEW s PROVE
          /\ old(s) # {} => Newest(versions, old(s)) \in old(s)
          /\ new(s) = old(s) /\ old(s) # {} => Newest(versions', new(s)) = Newest(versions, old(s))
          /\ new(s) = old(s) \cup {c} =>
                \/ Newest(versions', new(s)) = c
                \/ old(s) # {} /\ Newest(versions', new(s)) = Newest(versions, old(s))
  <2>1. \A v \in old(s) : versions'[v].day = versions[v].day
    BY <1>7
  <2>2. old(s) # {} => Newest(versions, old(s)) \in old(s)
    BY <1>6, NewestBeatsAll
  <2>3. new(s) = old(s) /\ old(s) # {} => Newest(versions', new(s)) = Newest(versions, old(s))
    BY <1>6, <2>1, NewestSame
  <2>4. new(s) = old(s) \cup {c} =>
            \/ Newest(versions', new(s)) = c
            \/ old(s) # {} /\ Newest(versions', new(s)) = Newest(versions, old(s))
    <3>1. ASSUME new(s) = old(s) \cup {c} PROVE Grown(versions, versions', old(s), new(s), c)
      BY <1>6, <2>1, <3>1 DEF Grown
    <3> QED
      BY <3>1, NewestMore
  <2> QED
    BY <2>2, <2>3, <2>4
<1> DEFINE u == VersionFor(versions, day)
           w == VersionFor(versions', day)
<1>9. /\ old(Branch) # {} => u = Newest(versions, old(Branch))
      /\ old(Branch) = {} /\ old(None) # {} => u = Newest(versions, old(None))
      /\ old(Branch) = {} /\ old(None) = {} => u = None
      /\ new(Branch) # {} => w = Newest(versions', new(Branch))
      /\ new(Branch) = {} /\ new(None) # {} => w = Newest(versions', new(None))
      /\ new(Branch) = {} /\ new(None) = {} => w = None
  BY VersionForIs DEF old, new
<1>10. CASE ~(versions'[c].day <= day)
  <2>1. new(Branch) = old(Branch) /\ new(None) = old(None)
    BY <1>5, <1>10
  <2>2. w = u /\ (u = None \/ versions'[u] = versions[u])
    <3> HIDE DEF u, w
    <3> QED
      BY <2>1, <1>7, <1>8, <1>9
  <2> QED
    BY <1>3, <2>2, CellsDecide DEF PriceAt, IsHoliday
<1>11. CASE ClonesInForce(c, day)
  <2>1. u # None /\ versions'[c].cells = versions[u].cells
    BY <1>11 DEF ClonesInForce
  <2>2. w = c \/ (w = u /\ versions'[u] = versions[u])
    <3> HIDE DEF u, w
    <3>1. CASE new(Branch) # {}
      BY <3>1, <2>1, <1>5, <1>7, <1>8, <1>9
    <3>2. CASE new(Branch) = {}
      <4>1. old(Branch) = {}
        BY <3>2, <1>5
      <4>2. old(None) # {}
        BY <4>1, <2>1, <1>9
      <4>3. new(None) # {}
        BY <4>2, <1>5
      <4> QED
        BY <3>2, <4>1, <4>2, <4>3, <1>5, <1>7, <1>8, <1>9
    <3> QED
      BY <3>1, <3>2
  <2>3. w # None /\ versions'[w].cells = versions[u].cells
    BY <1>2, <2>1, <2>2
  <2> QED
    BY <1>3, <2>1, <2>3, CellsDecide DEF PriceAt, IsHoliday
<1> QED
  BY <1>10, <1>11

\* What a ticket cost on a day that has begun stands, whoever edits cells, clones
\* or creates versions (pricing.service: an edit needs a version that starts after
\* today): only a version back-dated with other cells, or an edit that midnight
\* caught between its check and its write, changes it.
THEOREM PastAlwaysStands == PriceSpec => PastStands
<1> DEFINE Changed == versions' # versions => \A day \in 1 .. today, m \in Minute :
          PriceAt(day, m)' # PriceAt(day, m) =>
              \/ "midnight" \in raced
              \/ \E v \in Rows(versions') \ Rows(versions) :
                    versions'[v].day <= day /\ ~ClonesInForce(v, day)
<1>1. Edits /\ [PriceNext]_priceVars => [Changed]_priceVars
  <2> SUFFICES ASSUME Edits, PriceNext, versions' # versions, NEW day \in 1 .. today, NEW m \in Minute,
                      PriceAt(day, m)' # PriceAt(day, m), "midnight" \notin raced
               PROVE  \E v \in Rows(versions') \ Rows(versions) :
                          versions'[v].day <= day /\ ~ClonesInForce(v, day)
    OBVIOUS
  <2>1. PICK c \in Calls : Start(c) \/ Step(c)
    BY DEF PriceNext, ShowPrices, SellOffline, Midnight, book
  <2>2. WriteVersion(c) \/ UpdateCell(c) \/ InsertCell(c)
    BY <2>1, CallMoves DEF Edits, Typed, PlacesFit, Writes
  <2>3. WriteVersion(c)
    BY <2>2, PastStandsCell
  <2>4. c \in Rows(versions') \ Rows(versions)
    BY <2>3, VersionWritten DEF Edits, Typed, Rows
  <2> QED
    BY <2>3, <2>4, PastStandsVersion
<1> QED
  BY <1>1, EditsInit, EditsNext, PTL DEF PriceSpec, PastStands
=============================================================================
