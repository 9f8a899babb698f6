------------------------------- MODULE Outbox -------------------------------
(***************************************************************************)
(* The POS outbox and its sync engine: how a bill sold offline reaches the *)
(* server.                                                                 *)
(*                                                                         *)
(*   outbox-store.ts            rows in IndexedDB, they survive a reload   *)
(*   sync-engine.ts             one timer, one cycle at a time, in memory  *)
(*   network-status-context.tsx what triggers a cycle                      *)
(*   sync.service.ts            one answer per bill of the batch; here one *)
(*                              atomic step (BillLedger splits it)         *)
(*                                                                         *)
(* A reload or a power cut drops what is in memory at any await; a request *)
(* on its way may still be served after it.                                *)
(***************************************************************************)
EXTENDS Naturals, FiniteSets

CONSTANTS
    Sales,          \* bills sold offline in one shift, by clientUuid
    Corruptible,    \* those the server may find at fault
    MaxAttempts,    \* MAX_ATTEMPTS, 5 in the code
    MaxFaults,      \* bound: reloads and power cuts, requests lost, timed out
                    \*   or answered 5xx while the browser reports it is
                    \*   online, times it goes offline, bills answered "retry"
                    \*   for a transient error: so many in all
    ShiftCloses     \* whether the shift may close before the bills arrive

ASSUME SalesFinite == IsFiniteSet(Sales)
ASSUME CorruptibleType == Corruptible \subseteq Sales
ASSUME BoundsType ==
    /\ MaxAttempts \in Nat \ {0}
    /\ MaxFaults \in Nat
    /\ ShiftCloses \in BOOLEAN

VARIABLES
    box,        \* offline_outbox rows: [status, attempts, number, lastError]
    online,     \* isOnline
    timer,      \* pendingSyncTimer is set
    cycle,      \* the runSync call that holds `syncing`, "idle" if none
    batch,      \* attempts of the bills it read, as it read them
    todo,       \* bills the current loop of the cycle has not done yet
    answers,    \* result map of the response, by clientUuid
    requests,   \* bills of the cycle's request the server has not done
    late,       \* bills of requests nobody waits for any more
    number,     \* the server's bills: official number, 0 when there is none
    shiftOpen,
    corrupt,    \* the sales the server rejects (token, quantity, payment)
    used        \* the faults so far, by kind

engine == <<timer, cycle, batch, todo, answers>>
server == <<number, shiftOpen, corrupt>>
wire   == <<requests, late>>
vars   == <<box, online, engine, wire, server, used>>

-----------------------------------------------------------------------------
Pending == {u \in Sales : box[u].status \in {"pending", "retry"}}
Results == {"committed", "retry", "rejected"}
Errors == {"none", "network", "server", "max_attempts", "rejected"}

MayFault == used.reloads + used.drops + used.flaps + used.hiccups < MaxFaults

Init ==
    /\ box = [u \in Sales |-> [status |-> "absent", attempts |-> 0,
                               number |-> 0, lastError |-> "none"]]
    /\ online \in BOOLEAN
    /\ timer = FALSE
    /\ cycle = "idle"
    /\ batch = << >>
    /\ todo = {}
    /\ answers = << >>
    /\ requests = {}
    /\ late = {}
    /\ number = [u \in Sales |-> 0]
    /\ shiftOpen = TRUE
    /\ corrupt \in SUBSET Corruptible
    /\ used = [reloads |-> 0, drops |-> 0, flaps |-> 0, hiccups |-> 0]

-----------------------------------------------------------------------------
(***************************************************************************)
(* The terminal.                                                           *)
(***************************************************************************)

\* handleConfirmPayment of an offline bill: addToOutbox, then triggerSync,
\* which does nothing while offline.
Queue(u) ==
    /\ box[u].status = "absent"
    /\ box' = [box EXCEPT ![u].status = "pending"]
    /\ timer' = (timer \/ online)
    /\ UNCHANGED <<online, cycle, batch, todo, answers, wire, server, used>>

\* Mutated form: coming online triggers nothing.
GoOnlineQuietly ==
    /\ ~online
    /\ online' = TRUE
    /\ UNCHANGED <<box, timer, cycle, batch, todo, answers, wire, server, used>>

GoOnline ==
    /\ ~online
    /\ online' = TRUE
    /\ timer' = TRUE
    /\ UNCHANGED <<box, cycle, batch, todo, answers, wire, server, used>>

GoOffline ==
    /\ online
    /\ MayFault
    /\ online' = FALSE
    /\ cycle' = IF cycle = "waiting" THEN "broken" ELSE cycle
    /\ used' = [used EXCEPT !.flaps = @ + 1]
    /\ UNCHANGED <<box, timer, batch, todo, answers, wire, server>>

\* Reload or power cut.  The new page has an engine and no timer: nothing
\* triggers a sync on mount.
Reload ==
    /\ MayFault
    /\ timer' = FALSE
    /\ cycle' = "idle"
    /\ batch' = << >> /\ todo' = {} /\ answers' = << >>
    /\ requests' = {}
    /\ late' = late \cup requests
    /\ used' = [used EXCEPT !.reloads = @ + 1]
    /\ UNCHANGED <<box, online, server>>

\* Mutated form: rows given up for manual handling leave as well.
ClearFinished ==
    /\ \E u \in Sales : box[u].status = "committed"
    /\ box' = [u \in Sales |->
                  IF \/ box[u].status = "committed"
                     \/ box[u].status = "retry" /\ box[u].attempts = MaxAttempts
                  THEN [box[u] EXCEPT !.status = "cleared"] ELSE box[u]]
    /\ UNCHANGED <<online, engine, wire, server, used>>

\* clearCommitted: rows that have their official number leave the outbox.
ClearCommitted ==
    /\ \E u \in Sales : box[u].status = "committed"
    /\ box' = [u \in Sales |-> IF box[u].status = "committed"
                               THEN [box[u] EXCEPT !.status = "cleared"]
                               ELSE box[u]]
    /\ UNCHANGED <<online, engine, wire, server, used>>

-----------------------------------------------------------------------------
(***************************************************************************)
(* runSync.                                                                *)
(***************************************************************************)

\* A timer that fires during a cycle is armed again for after it.
TimerFires ==
    /\ timer
    /\ IF cycle = "idle" THEN cycle' = "reading" /\ timer' = FALSE
                         ELSE UNCHANGED <<cycle, timer>>
    /\ UNCHANGED <<box, online, batch, todo, answers, wire, server, used>>

ReadPending ==
    /\ cycle = "reading"
    /\ IF Pending = {}
       THEN cycle' = "idle" /\ UNCHANGED <<batch, todo>>
       ELSE /\ cycle' = "marking"
            /\ batch' = [u \in Pending |-> box[u].attempts]
            /\ todo' = Pending
    /\ UNCHANGED <<box, online, timer, answers, wire, server, used>>

MarkSyncing(u) ==
    /\ cycle = "marking" /\ u \in todo
    /\ box' = [box EXCEPT ![u].status = "syncing"]
    /\ todo' = todo \ {u}
    /\ UNCHANGED <<online, timer, cycle, batch, answers, wire, server, used>>

\* Mutated forms: the marks are not awaited; the outbox is read again.
PostUnmarked ==
    /\ cycle = "marking" /\ online
    /\ cycle' = "waiting" /\ requests' = DOMAIN batch
    /\ answers' = << >>
    /\ UNCHANGED <<box, online, timer, batch, todo, late, server, used>>
PostPending ==
    /\ cycle = "marking" /\ todo = {} /\ online
    /\ cycle' = "waiting" /\ requests' = DOMAIN batch \cup Pending
    /\ answers' = << >>
    /\ UNCHANGED <<box, online, timer, batch, todo, late, server, used>>

\* api.post: a fetch fails at once while offline.
Post ==
    /\ cycle = "marking" /\ todo = {}
    /\ answers' = << >>
    /\ IF online
       THEN cycle' = "waiting" /\ requests' = DOMAIN batch /\ UNCHANGED todo
       ELSE cycle' = "requeueing" /\ todo' = DOMAIN batch /\ UNCHANGED requests
    /\ UNCHANGED <<box, online, timer, batch, late, server, used>>

\* The 200 with the full result map.
Response ==
    /\ cycle \in {"waiting", "broken"}
    /\ DOMAIN answers = DOMAIN batch
    /\ cycle' = "settling"
    /\ todo' = DOMAIN batch
    /\ UNCHANGED <<box, online, timer, batch, answers, wire, server, used>>

\* The fetch failed, because the network went away while it waited ("broken")
\* or for a reason the browser does not report.  The server may or may not have
\* got the request.
NetworkError ==
    /\ \/ cycle = "broken" /\ UNCHANGED used
       \/ cycle = "waiting" /\ MayFault
          /\ used' = [used EXCEPT !.drops = @ + 1]
    /\ cycle' = "requeueing"
    /\ todo' = DOMAIN batch
    /\ requests' = {}
    /\ late' = late \cup requests
    /\ UNCHANGED <<box, online, timer, batch, answers, server>>

\* markRetry.  The row's own attempts are counted, the cap on them is a bound.
Retried(u, error) ==
    [box EXCEPT ![u].status = "retry", ![u].lastError = error,
                ![u].attempts = IF @ < MaxAttempts THEN @ + 1 ELSE @]

Requeue(u) ==
    /\ cycle = "requeueing" /\ u \in todo
    /\ box' = Retried(u, "network")
    /\ todo' = todo \ {u}
    /\ UNCHANGED <<online, timer, cycle, batch, answers, wire, server, used>>

\* Mutated form: whatever was not rejected was committed.
SettleOptimistic(u) ==
    /\ cycle = "settling" /\ u \in todo
    /\ box' = IF answers[u].status = "rejected" THEN Retried(u, "rejected")
              ELSE [box EXCEPT ![u].status = "committed",
                               ![u].number = answers[u].number]
    /\ todo' = todo \ {u}
    /\ UNCHANGED <<online, timer, cycle, batch, answers, wire, server, used>>

\* Mutated form: a bill is given up one attempt early.
MayRetryLess(u) == batch[u] + 2 < MaxAttempts

\* The back-off counts the attempts of the row as it was read.
MayRetry(u) == batch[u] + 1 < MaxAttempts

\* One iteration of the loop over the response.  At the cap the row is flagged
\* and no timer is set.
Settle(u) ==
    /\ cycle = "settling" /\ u \in todo
    /\ CASE answers[u].status = "committed" ->
                /\ box' = [box EXCEPT ![u].status = "committed",
                                      ![u].number = answers[u].number]
                /\ UNCHANGED timer
         [] answers[u].status = "rejected" ->
                /\ box' = Retried(u, "rejected")
                /\ UNCHANGED timer
         [] answers[u].status = "retry" ->
                /\ box' = Retried(u, IF MayRetry(u) THEN "server" ELSE "max_attempts")
                /\ timer' = (timer \/ MayRetry(u))
    /\ todo' = todo \ {u}
    /\ UNCHANGED <<online, cycle, batch, answers, wire, server, used>>

EndCycle ==
    /\ cycle \in {"settling", "requeueing"} /\ todo = {}
    /\ cycle' = "idle"
    /\ batch' = << >> /\ answers' = << >>
    /\ UNCHANGED <<box, online, timer, todo, wire, server, used>>

-----------------------------------------------------------------------------
(***************************************************************************)
(* The server.                                                             *)
(***************************************************************************)
LastNo == Cardinality({v \in Sales : number[v] > 0})

\* What processBill does with bill u and answers; hiccup is a transient error.
Processed(u, hiccup, answer) ==
    \/ /\ u \in corrupt
       /\ answer = [status |-> "rejected", number |-> 0]
       /\ UNCHANGED number
    \/ /\ u \notin corrupt /\ number[u] > 0
       /\ answer = [status |-> "committed", number |-> number[u]]
       /\ UNCHANGED number
    \/ /\ u \notin corrupt /\ number[u] = 0
       /\ shiftOpen /\ ~hiccup
       /\ number' = [number EXCEPT ![u] = LastNo + 1]
       /\ answer = [status |-> "committed", number |-> LastNo + 1]
    \/ /\ u \notin corrupt /\ number[u] = 0
       /\ ~shiftOpen \/ hiccup
       /\ answer = [status |-> "retry", number |-> 0]
       /\ UNCHANGED number

Answers == [status : Results, number : 0..Cardinality(Sales)]

Serve(u) ==
    /\ u \in requests
    /\ \E hiccup \in BOOLEAN, a \in Answers :
          /\ hiccup => MayFault
          /\ used' = IF hiccup THEN [used EXCEPT !.hiccups = @ + 1] ELSE used
          /\ Processed(u, hiccup, a)
          /\ answers' = [v \in DOMAIN answers \cup {u} |->
                            IF v = u THEN a ELSE answers[v]]
    /\ requests' = requests \ {u}
    /\ UNCHANGED <<box, online, timer, cycle, batch, todo, late, shiftOpen, corrupt>>

\* The answer to a request the terminal gave up, or the request is lost.
ServeLate(u) ==
    /\ u \in late
    /\ late' = late \ {u}
    /\ \/ \E a \in Answers : Processed(u, FALSE, a)
       \/ UNCHANGED number
    /\ UNCHANGED <<box, online, engine, requests, shiftOpen, corrupt, used>>

\* POST /sales/bills/force-close with a manager's PIN: the same processBill,
\* and the terminal's outbox is not told.
ForceClose(u) ==
    /\ box[u].status = "retry"
    /\ number[u] = 0
    /\ \E a \in Answers : Processed(u, FALSE, a)
    /\ UNCHANGED <<box, online, engine, wire, shiftOpen, corrupt, used>>

CloseShift ==
    /\ ShiftCloses /\ shiftOpen
    /\ shiftOpen' = FALSE
    /\ UNCHANGED <<box, online, engine, wire, number, corrupt, used>>

-----------------------------------------------------------------------------
Cycle ==
    \/ TimerFires \/ ReadPending \/ Post \/ Response \/ EndCycle
    \/ \E u \in Sales : MarkSyncing(u) \/ Requeue(u) \/ Settle(u)

Next ==
    \/ \E u \in Sales : Queue(u) \/ Serve(u) \/ ServeLate(u) \/ ForceClose(u)
    \/ Cycle \/ NetworkError
    \/ GoOnline \/ GoOffline \/ Reload \/ ClearCommitted \/ CloseShift

Spec == Init /\ [][Next]_vars

\* The event loop runs timers and continuations, a fetch ends one way or the
\* other, the network comes back, the server works through its requests.
Fairness ==
    /\ WF_vars(Cycle)
    /\ WF_vars(NetworkError \/ Response)
    /\ WF_vars(GoOnline)
    /\ \A u \in Sales : WF_vars(Serve(u))

FairSpec == Spec /\ Fairness

-----------------------------------------------------------------------------
TypeOK ==
    /\ box \in [Sales -> [status : {"absent", "pending", "syncing", "retry",
                                    "committed", "cleared"},
                          attempts : 0..MaxAttempts,
                          number : 0..Cardinality(Sales),
                          lastError : Errors]]
    /\ online \in BOOLEAN /\ timer \in BOOLEAN /\ shiftOpen \in BOOLEAN
    /\ cycle \in {"idle", "reading", "marking", "waiting", "broken",
                  "settling", "requeueing"}
    /\ DOMAIN batch \subseteq Sales
    /\ \A u \in DOMAIN batch : batch[u] \in 0..MaxAttempts
    /\ DOMAIN answers \subseteq DOMAIN batch
    /\ \A u \in DOMAIN answers : answers[u] \in Answers
    /\ todo \subseteq DOMAIN batch
    /\ requests \subseteq DOMAIN batch
    /\ late \subseteq Sales
    /\ number \in [Sales -> 0..Cardinality(Sales)]
    /\ corrupt \subseteq Corruptible

\* The number the terminal shows for a bill is the one the server gave it,
\* whatever was lost, resent or answered late (outbox-store.ts: a committed
\* bill is kept to display "bill number is X").
ShownNumberIsOfficial ==
    \A u \in Sales : box[u].status \in {"committed", "cleared"} =>
        number[u] > 0 /\ box[u].number = number[u]

\* A row leaves the outbox only with an official number in it, and a settled row
\* is never submitted again (outbox-store.ts, sync-engine.ts: "removed from
\* outbox ONLY after receiving officialNumber").
KeptUntilNumbered ==
    [][\A u \in Sales :
          /\ box[u].status # "absent" => box'[u].status # "absent"
          /\ box'[u].status = "cleared" => number[u] > 0
          /\ box[u].status \in {"committed", "cleared"} =>
                box'[u].status \in {"committed", "cleared"}
      ]_vars

\* A bill the engine read is submitted by at most one cycle at a time and is
\* "syncing" for as long as its cycle has not settled it, so no cycle can
\* submit it twice or settle it with another cycle's answer.
CycleOwnsItsBatch ==
    /\ cycle \in {"waiting", "broken"} =>
          \A u \in DOMAIN batch : box[u].status = "syncing"
    /\ cycle \in {"settling", "requeueing"} =>
          \A u \in todo : box[u].status = "syncing"

\* Every good bill taken offline gets its official number on the terminal, after
\* the network flaps and the server hiccups (outbox-store.ts: "bills are never
\* lost"), or is flagged for manual handling at the cap on its attempts
\* (sync-engine.ts: "max 5 attempts then flag for manual"), where the engine gives
\* it up until something else triggers a cycle.  Three things stop both: a reload,
\* a request lost while the browser says it is online, and a shift that closes
\* first.
EveryQueuedBillCommits ==
    \A u \in Sales :
        box[u].status = "pending" ~>
            \/ box[u].status \in {"committed", "cleared"}
            \/ box[u].lastError = "max_attempts" /\ box[u].attempts = MaxAttempts
            \/ u \in corrupt \/ used.reloads > 0 \/ used.drops > 0 \/ ~shiftOpen

\* A row marked "syncing" becomes committed or retry (outbox-store.ts: "pending
\* -> syncing -> committed | retry").
SyncingResolves ==
    \A u \in Sales : box[u].status = "syncing" ~> box[u].status # "syncing"
=============================================================================
