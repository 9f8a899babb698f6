---------------------------- MODULE Access_proofs ----------------------------
(***************************************************************************)
(* Machine-checked proofs about Access, for every number of calls, every   *)
(* set of roles and all limits.                                            *)
(*                                                                         *)
(* A call in flight relies on what it read until it writes.  The inductive *)
(* invariant says of each call what it read, and that this still holds     *)
(* unless another call on the same topic was in flight with it.            *)
(***************************************************************************)
EXTENDS Access, TLAPS

Places ==
    {"idle", "done", "passed", "password", "lockOut", "evict", "warm", "readTv", "fill",
     "pin", "lockPin", "users", "count", "write", "drop"}

\* A request of a token, and a check of a role, both wait to fill their cache.
FillsTv(c) == at[c] = "fill" /\ req[c].op = "request"
FillsCaps(c) == at[c] = "fill" /\ req[c].op = "can"

\* Calls are functions of the call.
Tables ==
    /\ at \in [Calls -> Places]
    /\ req = [c \in Calls |-> req[c]] /\ seen = [c \in Calls |-> seen[c]]
    /\ since = [c \in Calls |-> since[c]]
    /\ quiet \in Nat

\* The request of a call fits the place where the call is, and so does what it has read.
Fits(c) ==
    /\ at[c] = "password" => req[c].op = "login" /\ req[c].right \in BOOLEAN
    /\ at[c] = "lockOut" => req[c].op = "login"
    /\ at[c] \in {"evict", "warm"} => req[c].op \in {"login", "revoke"}
    /\ at[c] \in {"readTv", "passed"} => req[c].op = "request"
    /\ at[c] = "fill" => req[c].op \in {"request", "can"}
    /\ at[c] \in {"readTv", "passed"} \/ FillsTv(c) =>
          /\ req[c].tv \in Nat
          /\ since[c][1] \in 0 .. acct.tv /\ since[c][2] \in Nat
    /\ at[c] \in {"pin", "lockPin"} => req[c].op \in {"pinLogin", "approve"}
    /\ at[c] = "pin" => req[c].right \in BOOLEAN
    /\ at[c] \in {"password", "evict", "warm", "pin"} \/ FillsTv(c) => seen[c] \in 0 .. acct.tv
    /\ at[c] = "users" => req[c].op = "delete"
    /\ at[c] \in {"users", "count", "write", "drop"} =>
          /\ req[c].op \in {"setCaps", "delete"} /\ req[c].role \in Roles
          /\ req[c].op = "setCaps" => req[c].admin \in BOOLEAN
    /\ at[c] = "users" \/ FillsCaps(c) => seen[c] \in BOOLEAN
    /\ FillsCaps(c) => req[c].role \in Roles

\* What a call has read still holds, unless another call on the topic was in flight with it.
Fresh(c) ==
    /\ at[c] \in {"evict", "warm"} \/ FillsTv(c) => seen[c] = acct.tv \/ "tv" \in raced
    /\ at[c] \in {"password", "lockOut"} /\ acct.lock = "held" => "lock" \in raced
    /\ FillsCaps(c) => (seen[c] <=> req[c].role \in admins) \/ "caps" \in raced
    /\ at[c] = "users" => (seen[c] <=> req[c].role \in admins) \/ "role" \in raced
    /\ at[c] = "write" =>
          \/ "role" \in raced \/ req[c].role \notin admins
          \/ req[c].op = "setCaps" /\ req[c].admin
          \/ admins \ {req[c].role} # {}
    /\ at[c] \in {"count", "write"} /\ req[c].op = "delete" =>
          acct.role # req[c].role \/ "role" \in raced
    /\ FillsTv(c) => since[c][1] <= seen[c]
    /\ at[c] = "passed" /\ req[c].tv < since[c][1] =>
          "tv" \in raced \/ req[c].tv < since[c][2]

\* Two calls in flight on one topic have raced.
Overlaps ==
    \A c, d \in InFlight : c # d => Topics(req[c]) \cap Topics(req[d]) \subseteq raced

\* A Redis entry older than the row is about to be dropped, or was left by a bump that
\* does not touch Redis.
StaleEntry ==
    redis # None /\ redis < acct.tv =>
        \/ "tv" \in raced \/ quiet >= acct.tv
        \/ \E c \in Calls : at[c] = "evict"

AdminLeft == "role" \in raced \/ admins # {}

CallsRight == \A c \in Calls : Fits(c) /\ Fresh(c)
Whole == CountsLock /\ StaleEntry /\ EditsSeen /\ AdminLeft
Sound == TypeOK /\ Tables /\ CallsRight /\ Overlaps /\ Whole

-----------------------------------------------------------------------------
(***************************************************************************)
(* The other calls.                                                        *)
(***************************************************************************)
\* Call c, with request r, takes a step: it tells what it changes by r's topics.
Acts(c, r) ==
    /\ \A d \in Calls \ {c} :
          at'[d] = at[d] /\ req'[d] = req[d] /\ seen'[d] = seen[d] /\ since'[d] = since[d]
    /\ raced \subseteq raced'
    /\ \A d \in InFlight \ {c} : Topics(r) \cap Topics(req[d]) \subseteq raced'
    /\ at'[c] \notin Over => req'[c] = r
    /\ acct'.tv \in Nat /\ acct'.tv >= acct.tv
    /\ acct'.tv # acct.tv => "tv" \in Topics(r)
    /\ acct'.lock = "held" /\ acct.lock # "held" => "lock" \in Topics(r)
    /\ acct'.role # acct.role => "role" \in Topics(r)
    /\ admins' # admins => "role" \in Topics(r) /\ "caps" \in Topics(r)

\* The topics of a call in flight.
LEMMA TopicsAt ==
  ASSUME NEW c \in Calls, Fits(c)
  PROVE  /\ at[c] \in {"password", "lockOut"} =>
               "lock" \in Topics(req[c]) /\ "tv" \in Topics(req[c])
         /\ at[c] \in {"evict", "warm"} \/ FillsTv(c) => "tv" \in Topics(req[c])
         /\ FillsCaps(c) => "caps" \in Topics(req[c])
         /\ at[c] \in {"users", "count", "write", "drop"} =>
               "role" \in Topics(req[c]) /\ "caps" \in Topics(req[c])
         /\ at[c] \in {"pin", "lockPin"} => "pin" \in Topics(req[c])
  BY DEF Fits, Topics, FillsTv, FillsCaps

\* A step leaves the other calls fitting and right.
LEMMA OthersStay ==
  ASSUME Sound, NEW c \in Calls, NEW r, Acts(c, r), NEW d \in Calls \ {c}
  PROVE  Fits(d)' /\ Fresh(d)'
  <1>1. /\ at'[d] = at[d] /\ req'[d] = req[d] /\ seen'[d] = seen[d] /\ since'[d] = since[d]
        /\ raced \subseteq raced'
        /\ at[d] \notin Over => Topics(r) \cap Topics(req[d]) \subseteq raced'
        /\ acct'.tv \in Nat /\ acct'.tv >= acct.tv
    BY DEF Acts, InFlight
  <1>2. Fits(d) /\ Fresh(d) /\ acct.tv \in Nat /\ at[d] \in Places
    BY DEF Sound, CallsRight, TypeOK, Tables
  <1>3. (FillsTv(d)' <=> FillsTv(d)) /\ (FillsCaps(d)' <=> FillsCaps(d))
    BY <1>1 DEF FillsTv, FillsCaps
  <1>4. Fits(d)'
    <2>1. \A x : x \in 0 .. acct.tv => x \in 0 .. acct'.tv
      BY <1>1, <1>2
    <2> QED BY <1>1, <1>2, <1>3, <2>1 DEF Fits
  <1>5. at[d] \in {"evict", "warm"} \/ FillsTv(d) => seen'[d] = acct'.tv \/ "tv" \in raced'
    <2> HAVE at[d] \in {"evict", "warm"} \/ FillsTv(d)
    <2>1. at[d] \notin Over /\ "tv" \in Topics(req[d])
      BY <1>2, TopicsAt DEF Over, FillsTv
    <2>2. acct'.tv # acct.tv => "tv" \in raced'
      BY <1>1, <2>1 DEF Acts
    <2> QED BY <1>1, <1>2, <2>2 DEF Fresh
  <1>6. at[d] \in {"password", "lockOut"} /\ acct'.lock = "held" => "lock" \in raced'
    <2> HAVE at[d] \in {"password", "lockOut"} /\ acct'.lock = "held"
    <2>1. at[d] \notin Over /\ "lock" \in Topics(req[d])
      BY <1>2, TopicsAt DEF Over
    <2>2. acct.lock # "held" => "lock" \in raced'
      BY <1>1, <2>1 DEF Acts
    <2> QED BY <1>1, <1>2, <2>2 DEF Fresh
  <1>7. at[d] \in {"users", "count", "write"} /\ admins' # admins => "role" \in raced'
    BY <1>1, <1>2, TopicsAt DEF Over, Acts
  <1>8. FillsCaps(d) /\ admins' # admins => "caps" \in raced'
    BY <1>1, <1>2, TopicsAt DEF Over, Acts, FillsCaps
  <1>9. at[d] \in {"count", "write"} /\ acct'.role # acct.role => "role" \in raced'
    BY <1>1, <1>2, TopicsAt DEF Over, Acts
  <1>10. Fresh(d)'
    <2>1. FillsCaps(d) => (seen'[d] <=> req'[d].role \in admins') \/ "caps" \in raced'
      BY <1>1, <1>2, <1>8 DEF Fresh
    <2>2. at[d] = "users" => (seen'[d] <=> req'[d].role \in admins') \/ "role" \in raced'
      BY <1>1, <1>2, <1>7 DEF Fresh
    <2>3. at[d] = "write" =>
             \/ "role" \in raced' \/ req'[d].role \notin admins'
             \/ req'[d].op = "setCaps" /\ req'[d].admin
             \/ admins' \ {req'[d].role} # {}
      BY <1>1, <1>2, <1>7 DEF Fresh
    <2>4. at[d] \in {"count", "write"} /\ req'[d].op = "delete" =>
             acct'.role # req'[d].role \/ "role" \in raced'
      BY <1>1, <1>2, <1>9 DEF Fresh
    <2>5. FillsTv(d) => since'[d][1] <= seen'[d]
      BY <1>1, <1>2 DEF Fresh
    <2>6. at[d] = "passed" /\ req'[d].tv < since'[d][1] =>
             "tv" \in raced' \/ req'[d].tv < since'[d][2]
      BY <1>1, <1>2 DEF Fresh
    <2> QED BY <1>1, <1>3, <1>5, <1>6, <2>1, <2>2, <2>3, <2>4, <2>5, <2>6 DEF Fresh
  <1> QED BY <1>4, <1>10

\* Calls that overlap on a topic stay recorded.
LEMMA OverlapsStay ==
  ASSUME Sound, NEW c \in Calls, NEW r, Acts(c, r)
  PROVE  Overlaps'
  <1> SUFFICES ASSUME NEW d \in Calls, NEW e \in Calls, d # e, at'[d] \notin Over, at'[e] \notin Over
               PROVE  Topics(req'[d]) \cap Topics(req'[e]) \subseteq raced'
    BY DEF Overlaps, InFlight, Topics
  <1>1. \A x \in Calls \ {c} : at'[x] = at[x] /\ req'[x] = req[x]
    BY DEF Acts
  <1>2. \A x \in Calls \ {c} : at[x] \notin Over => Topics(r) \cap Topics(req[x]) \subseteq raced'
    BY DEF Acts, InFlight
  <1>3. CASE d = c
    BY <1>1, <1>2, <1>3 DEF Acts
  <1>4. CASE e = c
    BY <1>1, <1>2, <1>4 DEF Acts
  <1>5. CASE d # c /\ e # c
    BY <1>1, <1>5 DEF Acts, Sound, Overlaps, InFlight
  <1> QED BY <1>3, <1>4, <1>5

\* So a step keeps the invariant if it keeps the types, its own call and the rest.
LEMMA ActsSound ==
  ASSUME Sound, NEW c \in Calls, NEW r, Acts(c, r), TypeOK', Tables', Fits(c)', Fresh(c)', Whole'
  PROVE  Sound'
  <1>1. CallsRight'
    <2>1. \A d \in Calls \ {c} : Fits(d)' /\ Fresh(d)'
      BY OthersStay
    <2> QED BY <2>1 DEF CallsRight
  <1> QED BY <1>1, OverlapsStay DEF Sound

\* What the arrival of request r does to the calls.
Came(c, r, where, v) ==
    /\ at[c] = "idle" /\ at'[c] = where /\ at' \in [Calls -> Places]
    /\ where # "done" => req'[c] = r /\ seen'[c] = v
    /\ \A d \in Calls \ {c} : at'[d] = at[d] /\ req'[d] = req[d] /\ seen'[d] = seen[d]
    /\ req' = [d \in Calls |-> req'[d]] /\ seen' = [d \in Calls |-> seen'[d]]
    /\ raced \subseteq raced'
    /\ \A d \in InFlight \ {c} : Topics(r) \cap Topics(req[d]) \subseteq raced'

\* The arrival of a request does just this.
LEMMA ArriveIs ==
  ASSUME Sound, NEW c \in Calls, NEW r, NEW where \in Places, NEW v, Arrive(c, r, where, v)
  PROVE  Came(c, r, where, v)
  BY DEF Came, Arrive, Sound, Tables, InFlight, Over

\* What a call in flight has met.
LEMMA Met ==
  ASSUME Sound, NEW c \in InFlight
  PROVE  \A d \in InFlight \ {c} : Topics(req[c]) \cap Topics(req[d]) \subseteq raced
  BY DEF Sound, Overlaps

-----------------------------------------------------------------------------
(***************************************************************************)
(* Each step.                                                              *)
(***************************************************************************)
\* The fields of a request.
LEMMA RequestIs ==
  ASSUME TypeOK
  PROVE  /\ \A r \in AccountRequests :
               /\ r.op \in {"login", "pinLogin", "approve"} => r.right \in BOOLEAN
               /\ r.op \in {"request", "refresh"} => r.tv \in 0 .. acct.tv
               /\ r.op \in {"resetPin", "setPin"} => r.pin \in {"pinLogin", "approve"}
         /\ \A r \in RoleRequests :
               r.role \in Roles /\ (r.op = "setCaps" => r.admin \in BOOLEAN)
  BY DEF TypeOK, AccountRequests, RoleRequests

\* A call in flight goes on, or is done.
Went(c) ==
    /\ \A d \in Calls \ {c} : at'[d] = at[d] /\ req'[d] = req[d] /\ seen'[d] = seen[d]
    /\ at' \in [Calls -> Places]
    /\ req' = [d \in Calls |-> req'[d]] /\ seen' = [d \in Calls |-> seen'[d]]
    /\ raced' = raced
    /\ \A d \in InFlight \ {c} : Topics(req[c]) \cap Topics(req[d]) \subseteq raced'
    /\ at'[c] \notin Over => req'[c] = req[c]

\* The effects of Goto, GotoWith and Done on the calls.
LEMMA StepIs ==
  ASSUME Sound, NEW c \in Calls, at[c] \notin Over
  PROVE  /\ \A where \in Places : Goto(c, where) =>
               Went(c) /\ at'[c] = where /\ req'[c] = req[c] /\ seen'[c] = seen[c]
         /\ \A where \in Places : \A v : GotoWith(c, where, v) =>
               Went(c) /\ at'[c] = where /\ req'[c] = req[c] /\ seen'[c] = v
         /\ Done(c) => Went(c) /\ at'[c] = "done"
  <1>1. \A d \in InFlight \ {c} : Topics(req[c]) \cap Topics(req[d]) \subseteq raced
    BY Met DEF InFlight
  <1>2. at \in [Calls -> Places] /\ DOMAIN req = Calls /\ DOMAIN seen = Calls
    BY DEF Sound, Tables
  <1> QED BY <1>1, <1>2 DEF Goto, GotoWith, Done, Went, Sound, Tables, Over, Places

\* A step of one call that leaves the account, the roles and both caches alone, and no
\* duty of the call undone.
Plain(c) ==
    /\ UNCHANGED <<acct, redis, roles, lapsed, kept, quiet>>
    /\ \A d \in Calls \ {c} : at'[d] = at[d] /\ req'[d] = req[d]
    /\ raced \subseteq raced'
    /\ at[c] \notin {"lockOut", "lockPin", "evict", "drop"}

\* Such a step leaves the account, the caches and the roles right.
LEMMA PlainKeeps ==
  ASSUME Sound, NEW c \in Calls, Plain(c)
  PROVE  Whole'
  <1>1. \A d \in Calls : at[d] \in {"lockOut", "lockPin", "evict", "drop"} =>
           at'[d] = at[d] /\ req'[d] = req[d]
    BY DEF Plain
  <1>2. CountsLock'
    BY <1>1 DEF Plain, Sound, Whole, CountsLock
  <1>3. StaleEntry'
    BY <1>1 DEF Plain, Sound, Whole, StaleEntry
  <1>4. EditsSeen'
    BY <1>1 DEF Plain, Sound, Whole, EditsSeen, roles
  <1>5. AdminLeft'
    BY DEF Plain, Sound, Whole, AdminLeft, roles
  <1> QED BY <1>2, <1>3, <1>4, <1>5 DEF Whole

\* A request that arrives and changes no row, role or cache.
LEMMA PlainStart ==
  ASSUME Sound, NEW c \in Calls, NEW r, NEW where \in Places, NEW v, Arrive(c, r, where, v),
         UNCHANGED <<acct, redis, roles, lapsed, kept, quiet>>,
         tokens' \subseteq 0 .. acct.tv,
         since' = [d \in Calls |-> since'[d]], \A d \in Calls \ {c} : since'[d] = since[d],
         Fits(c)', Fresh(c)'
  PROVE  Sound'
  <1>1. Came(c, r, where, v)
    BY ArriveIs
  <1>2. acct.tv \in Nat
    BY DEF Sound, TypeOK
  <1>3. Acts(c, r)
    BY <1>1, <1>2 DEF Came, Acts, Over, roles
  <1>4. TypeOK'
    BY DEF Sound, TypeOK, roles
  <1>5. Tables'
    BY <1>1 DEF Came, Sound, Tables
  <1>6. Whole'
    BY <1>1, PlainKeeps DEF Came, Plain
  <1> QED BY <1>3, <1>4, <1>5, <1>6, ActsSound

\* A step of a call in flight that changes no row, role or cache.
LEMMA PlainStep ==
  ASSUME Sound, NEW c \in Calls, Went(c), UNCHANGED <<account, roles, history>>,
         at[c] \notin {"lockOut", "lockPin", "evict", "drop"}, Fits(c)', Fresh(c)'
  PROVE  Sound'
  <1>1. acct.tv \in Nat
    BY DEF Sound, TypeOK
  <1>2. Acts(c, req[c])
    BY <1>1 DEF Went, Acts, account, roles, history
  <1>3. TypeOK'
    BY DEF Sound, TypeOK, account, roles
  <1>4. Tables'
    BY DEF Went, Sound, Tables, history
  <1>5. Whole'
    BY PlainKeeps DEF Went, Plain, account, history
  <1> QED BY <1>2, <1>3, <1>4, <1>5, ActsSound

\* A sign-in arrives: it reads the lock, and the version it will put in its token.
LEMMA ReadForLoginSound ==
  ASSUME Sound, NEW c \in Calls, ReadForLogin(c)
  PROVE  Sound'
  <1>1. PICK r \in AccountRequests :
           /\ r.op = "login"
           /\ Arrive(c, r, IF acct.lock = "open" THEN "password" ELSE "done", acct.tv)
    BY DEF ReadForLogin
  <1>2. UNCHANGED <<account, roles, history>>
    BY DEF ReadForLogin
  <1>3. PICK where \in {"password", "done"} :
           /\ Arrive(c, r, where, acct.tv)
           /\ where = "password" => acct.lock = "open"
    BY <1>1
  <1>4. where \in Places
    BY DEF Places
  <1>5. Came(c, r, where, acct.tv)
    BY <1>3, <1>4, ArriveIs
  <1>6. r.op = "login" /\ r.right \in BOOLEAN
    BY <1>1, RequestIs DEF Sound
  <1>7. acct.tv \in Nat /\ tokens \subseteq 0 .. acct.tv /\ since = [d \in Calls |-> since[d]]
    BY DEF Sound, TypeOK, Tables
  <1>8. Fits(c)'
    BY <1>2, <1>5, <1>6, <1>7 DEF Came, Fits, FillsTv, FillsCaps, account
  <1>9. Fresh(c)'
    BY <1>2, <1>3, <1>5 DEF Came, Fresh, FillsTv, FillsCaps, account
  <1> QED BY <1>2, <1>3, <1>4, <1>7, <1>8, <1>9, PlainStart DEF account, roles, history

\* A refresh arrives: the token it issues has the row's version.
LEMMA RefreshSound ==
  ASSUME Sound, NEW c \in Calls, Refresh(c)
  PROVE  Sound'
  <1>1. PICK r \in AccountRequests :
           /\ Arrive(c, r, "done", None)
           /\ tokens' = IF acct.lock = "open" /\ r.tv >= acct.tv
                          THEN tokens \cup {acct.tv} ELSE tokens
    BY DEF Refresh
  <1>2. UNCHANGED <<acct, redis, roles, history>>
    BY DEF Refresh
  <1>3. "done" \in Places
    BY DEF Places
  <1>4. at'[c] = "done"
    BY <1>1, <1>3, ArriveIs DEF Came
  <1>5. acct.tv \in Nat /\ tokens \subseteq 0 .. acct.tv /\ since = [d \in Calls |-> since[d]]
    BY DEF Sound, TypeOK, Tables
  <1>6. tokens' \subseteq 0 .. acct.tv
    BY <1>1, <1>5
  <1>7. Fits(c)' /\ Fresh(c)'
    BY <1>4 DEF Fits, Fresh, FillsTv, FillsCaps
  <1> QED BY <1>1, <1>2, <1>3, <1>5, <1>6, <1>7, PlainStart DEF roles, history

\* A request arrives with its token, and is compared with the Redis entry if there is one.
LEMMA ReadRedisSound ==
  ASSUME Sound, NEW c \in Calls, ReadRedis(c)
  PROVE  Sound'
  <1>1. PICK r \in AccountRequests :
           /\ r.op = "request"
           /\ \/ redis # None /\ Arrive(c, r, IF r.tv < redis THEN "done" ELSE "passed", redis)
              \/ Arrive(c, r, "readTv", None)
    BY DEF ReadRedis
  <1>2. UNCHANGED <<account, roles, lapsed, kept, quiet>> /\ since' = [since EXCEPT ![c] = <<acct.tv, quiet>>]
    BY DEF ReadRedis
  <1>3. PICK where \in {"done", "passed", "readTv"}, v \in {redis, None} :
           /\ Arrive(c, r, where, v)
           /\ where = "passed" => redis # None /\ ~(r.tv < redis)
    BY <1>1
  <1>4. where \in Places
    BY DEF Places
  <1>5. Came(c, r, where, v)
    BY <1>3, <1>4, ArriveIs
  <1>6. r.op = "request" /\ r.tv \in 0 .. acct.tv
    BY <1>1, RequestIs DEF Sound
  <1>7. /\ acct.tv \in Nat /\ tokens \subseteq 0 .. acct.tv /\ redis \in {None} \cup 0 .. acct.tv
        /\ since = [d \in Calls |-> since[d]] /\ quiet \in Nat
    BY DEF Sound, TypeOK, Tables
  <1>8. /\ since' = [d \in Calls |-> since'[d]] /\ \A d \in Calls \ {c} : since'[d] = since[d]
        /\ since'[c][1] = acct.tv /\ since'[c][2] = quiet
    BY <1>2, <1>7
  <1>9. Fits(c)'
    BY <1>2, <1>5, <1>6, <1>7, <1>8 DEF Came, Fits, FillsTv, FillsCaps, account
  <1>10. where = "passed" /\ r.tv < acct.tv => "tv" \in raced' \/ r.tv < quiet
    <2> HAVE where = "passed" /\ r.tv < acct.tv
    <2>1. \/ "tv" \in raced \/ quiet >= acct.tv
          \/ \E d \in Calls : at[d] = "evict"
      BY <1>3, <1>6, <1>7 DEF Sound, Whole, StaleEntry
    <2>2. ASSUME NEW d \in Calls, at[d] = "evict" PROVE "tv" \in raced'
      <3>1. Fits(d)
        BY DEF Sound, CallsRight
      <3>2. "tv" \in Topics(req[d]) /\ d \in InFlight \ {c}
        BY <2>2, <3>1, <1>5, TopicsAt DEF InFlight, Over, Came
      <3>3. "tv" \in Topics(r)
        BY <1>6 DEF Topics
      <3> QED BY <1>5, <3>2, <3>3 DEF Came
    <2>3. raced \subseteq raced'
      BY <1>5 DEF Came
    <2> QED BY <1>6, <1>7, <2>1, <2>2, <2>3
  <1>11. Fresh(c)'
    BY <1>5, <1>8, <1>10 DEF Came, Fresh, FillsTv, FillsCaps
  <1> QED BY <1>2, <1>3, <1>4, <1>7, <1>8, <1>9, <1>11, PlainStart DEF account, roles

\* A PIN arrives.
LEMMA ReadForPinSound ==
  ASSUME Sound, NEW c \in Calls, ReadForPin(c)
  PROVE  Sound'
  <1>1. PICK r \in AccountRequests :
           /\ r.op \in {"pinLogin", "approve"}
           /\ Arrive(c, r, IF MayTryPin(r) THEN "pin" ELSE "done", acct.tv)
    BY DEF ReadForPin
  <1>2. UNCHANGED <<account, roles, history>>
    BY DEF ReadForPin
  <1>3. PICK where \in {"pin", "done"} : Arrive(c, r, where, acct.tv)
    BY <1>1
  <1>4. where \in Places
    BY DEF Places
  <1>5. Came(c, r, where, acct.tv)
    BY <1>3, <1>4, ArriveIs
  <1>6. r.op \in {"pinLogin", "approve"} /\ r.right \in BOOLEAN
    BY <1>1, RequestIs DEF Sound
  <1>7. acct.tv \in Nat /\ tokens \subseteq 0 .. acct.tv /\ since = [d \in Calls |-> since[d]]
    BY DEF Sound, TypeOK, Tables
  <1>8. Fits(c)'
    BY <1>2, <1>5, <1>6, <1>7 DEF Came, Fits, FillsTv, FillsCaps, account
  <1>9. Fresh(c)'
    BY <1>2, <1>5 DEF Came, Fresh, FillsTv, FillsCaps, account
  <1> QED BY <1>2, <1>3, <1>4, <1>7, <1>8, <1>9, PlainStart DEF account, roles, history

\* An edit of a role arrives: it reads whether the role administers.
LEMMA SetCapsSound ==
  ASSUME Sound, NEW c \in Calls, SetCaps(c)
  PROVE  Sound'
  <1>1. PICK r \in RoleRequests :
           /\ r.op = "setCaps"
           /\ Arrive(c, r, CASE r.role \notin live -> "done"
                             [] r.role \in admins /\ ~r.admin -> "count"
                             [] OTHER -> "write", None)
    BY DEF SetCaps
  <1>2. UNCHANGED <<account, roles, history>>
    BY DEF SetCaps
  <1>3. PICK where \in {"done", "count", "write"} :
           /\ Arrive(c, r, where, None)
           /\ where = "write" => r.role \notin admins \/ r.admin
    BY <1>1, RequestIs DEF Sound
  <1>4. where \in Places
    BY DEF Places
  <1>5. Came(c, r, where, None)
    BY <1>3, <1>4, ArriveIs
  <1>6. r.op = "setCaps" /\ r.role \in Roles /\ r.admin \in BOOLEAN
    BY <1>1, RequestIs DEF Sound
  <1>7. acct.tv \in Nat /\ tokens \subseteq 0 .. acct.tv /\ since = [d \in Calls |-> since[d]]
    BY DEF Sound, TypeOK, Tables
  <1>8. Fits(c)'
    BY <1>5, <1>6 DEF Came, Fits, FillsTv, FillsCaps
  <1>9. Fresh(c)'
    BY <1>2, <1>3, <1>5, <1>6 DEF Came, Fresh, FillsTv, FillsCaps, roles
  <1> QED BY <1>2, <1>3, <1>4, <1>7, <1>8, <1>9, PlainStart DEF account, roles, history

\* A deletion of a role arrives: it reads whether the role administers.
LEMMA DeleteSound ==
  ASSUME Sound, NEW c \in Calls, Delete(c)
  PROVE  Sound'
  <1>1. PICK r \in RoleRequests :
           /\ r.op = "delete"
           /\ Arrive(c, r, IF r.role \in live THEN "users" ELSE "done", r.role \in admins)
    BY DEF Delete
  <1>2. UNCHANGED <<account, roles, history>>
    BY DEF Delete
  <1> DEFINE v == r.role \in admins
  <1>a. v \in BOOLEAN /\ (v <=> r.role \in admins)
    OBVIOUS
  <1>b. Arrive(c, r, IF r.role \in live THEN "users" ELSE "done", v)
    BY <1>1
  <1> HIDE DEF v
  <1>3. PICK where \in {"done", "users"} : Arrive(c, r, where, v)
    BY <1>b
  <1>4. where \in Places
    BY DEF Places
  <1>5. Came(c, r, where, v)
    BY <1>3, <1>4, ArriveIs
  <1>6. r.op = "delete" /\ r.role \in Roles
    BY <1>1, RequestIs DEF Sound
  <1>7. acct.tv \in Nat /\ tokens \subseteq 0 .. acct.tv /\ since = [d \in Calls |-> since[d]]
    BY DEF Sound, TypeOK, Tables
  <1>8. Fits(c)'
    BY <1>5, <1>6, <1>a DEF Came, Fits, FillsTv, FillsCaps
  <1>9. Fresh(c)'
    BY <1>2, <1>5, <1>6, <1>a DEF Came, Fresh, FillsTv, FillsCaps, roles
  <1> QED BY <1>2, <1>3, <1>4, <1>7, <1>8, <1>9, PlainStart DEF account, roles, history

\* A check of a role arrives: past the cache it reads the table.
LEMMA CanSound ==
  ASSUME Sound, NEW c \in Calls, Can(c)
  PROVE  Sound'
  <1>1. PICK r \in RoleRequests :
           /\ r.op = "can"
           /\ IF caps[r.role] # None THEN Arrive(c, r, "done", None)
                ELSE Arrive(c, r, "fill", r.role \in admins)
    BY DEF Can
  <1>2. UNCHANGED <<account, roles, history>>
    BY DEF Can
  <1> DEFINE w == r.role \in admins
  <1>a. w \in BOOLEAN /\ (w <=> r.role \in admins)
    OBVIOUS
  <1>b. Arrive(c, r, "done", None) \/ Arrive(c, r, "fill", w)
    BY <1>1
  <1> HIDE DEF w
  <1>3. PICK where \in {"done", "fill"}, v \in {None, w} :
           Arrive(c, r, where, v) /\ (where = "fill" => v = w)
    BY <1>b
  <1>4. where \in Places
    BY DEF Places
  <1>5. Came(c, r, where, v)
    BY <1>3, <1>4, ArriveIs
  <1>6. r.op = "can" /\ r.role \in Roles
    BY <1>1, RequestIs DEF Sound
  <1>7. acct.tv \in Nat /\ tokens \subseteq 0 .. acct.tv /\ since = [d \in Calls |-> since[d]]
    BY DEF Sound, TypeOK, Tables
  <1>8. Fits(c)'
    BY <1>3, <1>5, <1>6, <1>a DEF Came, Fits, FillsTv, FillsCaps
  <1>9. Fresh(c)'
    BY <1>2, <1>3, <1>5, <1>6, <1>a DEF Came, Fresh, FillsTv, FillsCaps, roles
  <1> QED BY <1>2, <1>3, <1>4, <1>7, <1>8, <1>9, PlainStart DEF account, roles, history

\* A request that missed the Redis entry reads the row.
LEMMA ReadTvSound ==
  ASSUME Sound, NEW c \in Calls, ReadTv(c)
  PROVE  Sound'
  <1>1. at[c] = "readTv" /\ GotoWith(c, "fill", acct.tv) /\ UNCHANGED <<account, roles, history>>
    BY DEF ReadTv
  <1>2. Went(c) /\ at'[c] = "fill" /\ req'[c] = req[c] /\ seen'[c] = acct.tv
    BY <1>1, StepIs DEF Over, Places
  <1>3. Fits(c) /\ acct.tv \in Nat
    BY DEF Sound, CallsRight, TypeOK
  <1>4. Fits(c)'
    BY <1>1, <1>2, <1>3 DEF Fits, FillsTv, FillsCaps, account, history
  <1>5. Fresh(c)'
    BY <1>1, <1>2, <1>3 DEF Fits, Fresh, FillsTv, FillsCaps, account, history
  <1> QED BY <1>1, <1>2, <1>4, <1>5, PlainStep

\* A deletion counts the role's users.
LEMMA CountUsersSound ==
  ASSUME Sound, NEW c \in Calls, CountUsers(c)
  PROVE  Sound'
  <1>1. /\ at[c] = "users" /\ UNCHANGED <<account, roles, history>>
        /\ GotoOrEnd(c, acct.role # req[c].role, IF seen[c] THEN "count" ELSE "write")
    BY DEF CountUsers
  <1>2. Fits(c) /\ Fresh(c)
    BY DEF Sound, CallsRight
  <1>3. PICK where \in {"done", "count", "write"} :
           /\ IF where = "done" THEN Done(c) ELSE Goto(c, where)
           /\ where # "done" => acct.role # req[c].role
           /\ where = "write" => ~seen[c]
    BY <1>1, <1>2 DEF GotoOrEnd, Fits
  <1>4. Went(c) /\ at'[c] = where /\ (where # "done" => req'[c] = req[c])
    BY <1>1, <1>3, StepIs DEF Over, Places
  <1>5. Fits(c)'
    BY <1>1, <1>2, <1>4 DEF Fits, FillsTv, FillsCaps
  <1>6. Fresh(c)'
    BY <1>1, <1>2, <1>3, <1>4 DEF Went, Fits, Fresh, FillsTv, FillsCaps, account, roles
  <1> QED BY <1>1, <1>4, <1>5, <1>6, PlainStep

\* An edit of the administrators counts the other roles that administer.
LEMMA CountOtherAdminsSound ==
  ASSUME Sound, NEW c \in Calls, CountOtherAdmins(c)
  PROVE  Sound'
  <1>1. /\ at[c] = "count" /\ UNCHANGED <<account, roles, history>>
        /\ GotoOrEnd(c, OtherAdmins(req[c].role) # {}, "write")
    BY DEF CountOtherAdmins
  <1>2. Fits(c) /\ Fresh(c)
    BY DEF Sound, CallsRight
  <1>3. PICK where \in {"done", "write"} :
           /\ IF where = "done" THEN Done(c) ELSE Goto(c, where)
           /\ where = "write" => admins \ {req[c].role} # {}
    BY <1>1 DEF GotoOrEnd, OtherAdmins
  <1>4. Went(c) /\ at'[c] = where /\ (where # "done" => req'[c] = req[c])
    BY <1>1, <1>3, StepIs DEF Over, Places
  <1>5. Fits(c)'
    BY <1>1, <1>2, <1>4 DEF Fits, FillsTv, FillsCaps
  <1>6. Fresh(c)'
    BY <1>1, <1>2, <1>3, <1>4 DEF Went, Fits, Fresh, FillsTv, FillsCaps, account, roles
  <1> QED BY <1>1, <1>4, <1>5, <1>6, PlainStep

-----------------------------------------------------------------------------
(***************************************************************************)
(* The steps that write the account's row.                                 *)
(***************************************************************************)

\* What the account's row may hold.
Rows ==
    [fails : Nat, lock : {"open", "timed", "held"}, tv : Nat, pinFails : Nat,
     pinLock : BOOLEAN, pins : SUBSET {"pinLogin", "approve"}, role : Roles]

\* A step that leaves the roles and the Redis entry alone, and sees to the counts and to
\* the entry's age.
LEMMA RowStep ==
  ASSUME Sound, NEW c \in Calls, acct' \in Rows, acct'.tv >= acct.tv,
         tokens' \subseteq 0 .. acct'.tv, UNCHANGED <<redis, roles, kept>>, at[c] # "drop",
         \A d \in Calls \ {c} : at'[d] = at[d] /\ req'[d] = req[d],
         raced \subseteq raced', CountsLock', StaleEntry'
  PROVE  TypeOK' /\ Whole'
  <1>1. acct.tv \in Nat /\ redis \in {None} \cup 0 .. acct.tv
    BY DEF Sound, TypeOK
  <1>2. acct'.tv \in Nat
    BY DEF Rows
  <1>3. redis' \in {None} \cup 0 .. acct'.tv
    BY <1>1, <1>2
  <1>4. TypeOK'
    BY <1>3 DEF Sound, TypeOK, roles, Rows
  <1>5. EditsSeen'
    <2>1. \A d \in Calls : at[d] = "drop" => at'[d] = at[d] /\ req'[d] = req[d]
      OBVIOUS
    <2> QED BY <2>1 DEF Sound, Whole, EditsSeen, roles
  <1>6. AdminLeft'
    BY DEF Sound, Whole, AdminLeft, roles
  <1> QED BY <1>4, <1>5, <1>6 DEF Whole

\* While the version and the Redis entry stay, so does what is said of them.
LEMMA TvStays ==
  ASSUME Sound, NEW c \in Calls, acct'.tv = acct.tv, redis' = redis, quiet' = quiet,
         raced \subseteq raced', \A d \in Calls \ {c} : at'[d] = at[d], at[c] # "evict"
  PROVE  StaleEntry'
  BY DEF Sound, Whole, StaleEntry

\* A request that writes the row and answers at once.
LEMMA RowStart ==
  ASSUME Sound, NEW c \in Calls, NEW r, Arrive(c, r, "done", None),
         acct' \in Rows, acct'.tv >= acct.tv, quiet' \in Nat,
         UNCHANGED <<redis, tokens, roles, kept, since>>,
         acct'.tv # acct.tv => "tv" \in Topics(r),
         acct'.lock = "held" /\ acct.lock # "held" => "lock" \in Topics(r),
         acct'.role # acct.role => "role" \in Topics(r),
         CountsLock', StaleEntry'
  PROVE  Sound'
  <1>1. Came(c, r, "done", None)
    BY ArriveIs DEF Places
  <1>2. acct.tv \in Nat /\ tokens \subseteq 0 .. acct.tv /\ acct'.tv \in Nat
    BY DEF Sound, TypeOK, Rows
  <1>3. Acts(c, r)
    BY <1>1, <1>2 DEF Came, Acts, Over, roles
  <1>4. tokens' \subseteq 0 .. acct'.tv
    BY <1>2
  <1>5. TypeOK' /\ Whole'
    BY <1>1, <1>4, RowStep DEF Came
  <1>6. Tables'
    BY <1>1 DEF Came, Sound, Tables
  <1>7. Fits(c)' /\ Fresh(c)'
    BY <1>1 DEF Came, Fits, Fresh, FillsTv, FillsCaps
  <1> QED BY <1>3, <1>5, <1>6, <1>7, ActsSound

\* Such a request that leaves the version and the sign-in lock alone.
LEMMA RowStartSameTv ==
  ASSUME Sound, NEW c \in Calls, NEW r, Arrive(c, r, "done", None),
         acct' \in Rows, acct'.tv = acct.tv, acct'.lock # "held" \/ acct.lock = "held",
         UNCHANGED <<redis, tokens, roles, history>>,
         acct'.role # acct.role => "role" \in Topics(r),
         CountsLock'
  PROVE  Sound'
  <1>1. Came(c, r, "done", None)
    BY ArriveIs DEF Places
  <1>2. StaleEntry'
    BY <1>1, TvStays DEF Came, history
  <1>3. acct.tv \in Nat /\ quiet \in Nat
    BY DEF Sound, TypeOK, Tables
  <1> QED BY <1>2, <1>3, RowStart DEF history

\* The account's row has its type.
LEMMA AcctIs ==
  ASSUME Sound
  PROVE  acct \in Rows /\ quiet \in Nat
  BY DEF Sound, TypeOK, Tables, Rows

\* A call that arrives is in no duty; the others keep theirs.
LEMMA DutiesStay ==
  ASSUME Sound, NEW c \in Calls, NEW r, Arrive(c, r, "done", None)
  PROVE  \A d \in Calls : at[d] \in {"lockOut", "lockPin", "evict", "drop"} =>
            at'[d] = at[d] /\ req'[d] = req[d]
  BY ArriveIs DEF Came, Places

\* A PIN is set.
LEMMA SetPinSound ==
  ASSUME Sound, NEW c \in Calls, SetPin(c)
  PROVE  Sound'
  <1>1. PICK r \in AccountRequests :
           /\ r.op = "setPin" /\ Arrive(c, r, "done", None)
           /\ acct' = [acct EXCEPT !.pins = @ \cup {r.pin}]
    BY DEF SetPin
  <1>2. UNCHANGED <<redis, tokens, roles, history>>
    BY DEF SetPin
  <1>3. r.pin \in {"pinLogin", "approve"}
    BY <1>1, RequestIs DEF Sound
  <1>4. acct' \in Rows /\ \A f \in {"fails", "lock", "tv", "pinFails", "pinLock", "role"} : acct'[f] = acct[f]
    BY <1>1, <1>3, AcctIs DEF Rows
  <1>5. CountsLock'
    BY <1>1, <1>2, <1>4, DutiesStay DEF CountsLock, Sound, Whole, history
  <1> QED BY <1>1, <1>2, <1>4, <1>5, RowStartSameTv

\* An administrator takes a PIN away, with its count and its lock.
LEMMA ResetPinSound ==
  ASSUME Sound, NEW c \in Calls, ResetPin(c)
  PROVE  Sound'
  <1>1. PICK r \in AccountRequests :
           /\ r.op = "resetPin" /\ Arrive(c, r, "done", None)
           /\ acct' = [acct EXCEPT !.pins = @ \ {r.pin}, !.pinFails = 0, !.pinLock = FALSE]
    BY DEF ResetPin
  <1>2. UNCHANGED <<redis, tokens, roles, history>>
    BY DEF ResetPin
  <1>3. acct' \in Rows /\ acct'.pinFails = 0 /\ \A f \in {"fails", "lock", "tv", "role"} : acct'[f] = acct[f]
    BY <1>1, AcctIs DEF Rows
  <1>4. CountsLock'
    BY <1>1, <1>2, <1>3, DutiesStay, TriesType DEF CountsLock, Sound, Whole, history
  <1> QED BY <1>1, <1>2, <1>3, <1>4, RowStartSameTv

\* The account is given a role.
LEMMA AssignSound ==
  ASSUME Sound, NEW c \in Calls, Assign(c)
  PROVE  Sound'
  <1>1. PICK r \in RoleRequests :
           /\ r.op = "assign" /\ Arrive(c, r, "done", None)
           /\ acct' = [acct EXCEPT !.role = r.role]
    BY DEF Assign
  <1>2. UNCHANGED <<redis, tokens, roles, history>>
    BY DEF Assign
  <1>3. r.role \in Roles
    BY <1>1, RequestIs DEF Sound
  <1>4. acct' \in Rows /\ \A f \in {"fails", "lock", "tv", "pinFails", "pinLock"} : acct'[f] = acct[f]
    BY <1>1, <1>3, AcctIs DEF Rows
  <1>5. CountsLock'
    BY <1>1, <1>2, <1>4, DutiesStay DEF CountsLock, Sound, Whole, history
  <1>6. "role" \in Topics(r)
    BY <1>1 DEF Topics
  <1> QED BY <1>1, <1>2, <1>4, <1>5, <1>6, RowStartSameTv

\* An administrator locks the account: whoever signed in meanwhile races with this.
LEMMA LockSound ==
  ASSUME Sound, NEW c \in Calls, Lock(c)
  PROVE  Sound'
  <1> DEFINE r == [op |-> "lock"]
  <1>1. /\ Arrive(c, r, "done", None)
        /\ acct' = [acct EXCEPT !.lock = "held", !.tv = @ + 1]
        /\ quiet' = IF acct'.tv > acct.tv THEN acct'.tv ELSE quiet
        /\ UNCHANGED <<redis, tokens, roles, lapsed, kept, since>>
    BY DEF Lock, Administer
  <1>2. "lock" \in Topics(r) /\ "tv" \in Topics(r)
    BY DEF Topics
  <1> HIDE DEF r
  <1>3. /\ acct' \in Rows /\ acct'.tv = acct.tv + 1 /\ acct.tv \in Nat /\ acct'.lock = "held"
        /\ \A f \in {"fails", "pinFails", "pinLock", "role"} : acct'[f] = acct[f]
    <2>1. acct \in Rows
      BY AcctIs
    <2>2. acct.tv + 1 \in Nat /\ acct.tv \in Nat
      BY <2>1 DEF Rows
    <2>3. acct' \in Rows
      BY <1>1, <2>1, <2>2 DEF Rows
    <2>4. acct'.tv = acct.tv + 1 /\ acct'.lock = "held"
      BY <1>1, <2>1 DEF Rows
    <2>5. \A f \in {"fails", "pinFails", "pinLock", "role"} : acct'[f] = acct[f]
      BY <1>1, <2>1 DEF Rows
    <2> QED BY <2>2, <2>3, <2>4, <2>5
  <1>4. quiet' = acct'.tv
    BY <1>1, <1>3
  <1>5. CountsLock'
    BY <1>1, <1>3, DutiesStay DEF CountsLock, Sound, Whole
  <1>6. StaleEntry'
    BY <1>3, <1>4 DEF StaleEntry
  <1> QED BY <1>1, <1>2, <1>3, <1>4, <1>5, <1>6, RowStart

\* An administrator unlocks the account, and the count of its sign-ins starts again.
LEMMA UnlockSound ==
  ASSUME Sound, NEW c \in Calls, Unlock(c)
  PROVE  Sound'
  <1> DEFINE r == [op |-> "unlock"]
  <1>1. /\ Arrive(c, r, "done", None)
        /\ acct' = [acct EXCEPT !.lock = "open", !.fails = 0]
        /\ quiet' = IF acct'.tv > acct.tv THEN acct'.tv ELSE quiet
        /\ UNCHANGED <<redis, tokens, roles, lapsed, kept, since>>
    BY DEF Unlock, Administer
  <1> HIDE DEF r
  <1>2. /\ acct' \in Rows /\ acct'.tv = acct.tv /\ acct.tv \in Nat /\ acct'.lock = "open"
        /\ acct'.fails = 0 /\ \A f \in {"pinFails", "pinLock", "role"} : acct'[f] = acct[f]
    BY <1>1, AcctIs DEF Rows
  <1>3. quiet' = quiet
    BY <1>1, <1>2
  <1>4. CountsLock'
    BY <1>1, <1>2, DutiesStay, TriesType DEF CountsLock, Sound, Whole
  <1> QED BY <1>1, <1>2, <1>3, <1>4, RowStartSameTv DEF history

\* A new password bumps the version and leaves the Redis entry.
LEMMA ResetPasswordSound ==
  ASSUME Sound, NEW c \in Calls, ResetPassword(c)
  PROVE  Sound'
  <1> DEFINE r == [op |-> "resetPassword"]
  <1>1. /\ Arrive(c, r, "done", None)
        /\ acct' = [acct EXCEPT !.tv = @ + 1]
        /\ quiet' = IF acct'.tv > acct.tv THEN acct'.tv ELSE quiet
        /\ UNCHANGED <<redis, tokens, roles, lapsed, kept, since>>
    BY DEF ResetPassword, Administer
  <1>2. "tv" \in Topics(r)
    BY DEF Topics
  <1> HIDE DEF r
  <1>3. /\ acct' \in Rows /\ acct'.tv = acct.tv + 1 /\ acct.tv \in Nat
        /\ \A f \in {"fails", "lock", "pinFails", "pinLock", "role"} : acct'[f] = acct[f]
    BY <1>1, AcctIs DEF Rows
  <1>4. quiet' = acct'.tv
    BY <1>1, <1>3
  <1>5. CountsLock'
    BY <1>1, <1>3, DutiesStay DEF CountsLock, Sound, Whole
  <1>6. StaleEntry'
    BY <1>3, <1>4 DEF StaleEntry
  <1> QED BY <1>1, <1>2, <1>3, <1>4, <1>5, <1>6, RowStart

\* A revocation bumps the version, and goes on to drop the Redis entry.
LEMMA RevokeSound ==
  ASSUME Sound, NEW c \in Calls, Revoke(c)
  PROVE  Sound'
  <1> DEFINE r == [op |-> "revoke"]
  <1>1. /\ Arrive(c, r, "evict", acct.tv + 1)
        /\ acct' = [acct EXCEPT !.tv = @ + 1]
        /\ UNCHANGED <<redis, tokens, roles, history>>
    BY DEF Revoke
  <1>2. "tv" \in Topics(r) /\ r.op = "revoke"
    BY DEF Topics
  <1> HIDE DEF r
  <1>3. /\ acct' \in Rows /\ acct'.tv = acct.tv + 1 /\ acct.tv \in Nat
        /\ \A f \in {"fails", "lock", "pinFails", "pinLock", "role"} : acct'[f] = acct[f]
    BY <1>1, AcctIs DEF Rows
  <1>4. Came(c, r, "evict", acct.tv + 1)
    BY <1>1, ArriveIs DEF Places
  <1>5. Acts(c, r)
    BY <1>1, <1>2, <1>3, <1>4 DEF Came, Acts, Over, roles, history
  <1>6. CountsLock'
    <2>1. \A d \in Calls : at[d] \in {"lockOut", "lockPin"} => at'[d] = at[d]
      BY <1>4 DEF Came
    <2> QED BY <1>1, <1>3, <2>1 DEF CountsLock, Sound, Whole, history
  <1>7. StaleEntry'
    BY <1>4 DEF StaleEntry, Came
  <1>8. tokens \subseteq 0 .. acct.tv
    BY DEF Sound, TypeOK
  <1>9. TypeOK' /\ Whole'
    BY <1>1, <1>3, <1>4, <1>6, <1>7, <1>8, RowStep DEF Came, history
  <1>10. Tables'
    BY <1>1, <1>4 DEF Came, Sound, Tables, history
  <1>11. Fits(c)'
    BY <1>2, <1>3, <1>4 DEF Came, Fits, FillsTv, FillsCaps
  <1>12. Fresh(c)'
    BY <1>3, <1>4 DEF Came, Fresh, FillsTv, FillsCaps
  <1> QED BY <1>5, <1>9, <1>10, <1>11, <1>12, ActsSound

\* A step of a call in flight that writes the row.
LEMMA RowWent ==
  ASSUME Sound, NEW c \in Calls, Went(c), at[c] # "drop",
         acct' \in Rows, acct'.tv >= acct.tv, quiet' \in Nat, tokens' \subseteq 0 .. acct'.tv,
         UNCHANGED <<redis, roles, kept, since>>,
         acct'.tv # acct.tv => "tv" \in Topics(req[c]),
         acct'.lock = "held" => acct.lock = "held",
         acct'.role = acct.role,
         CountsLock', StaleEntry', Fits(c)', Fresh(c)'
  PROVE  Sound'
  <1>1. acct.tv \in Nat /\ acct'.tv \in Nat
    BY AcctIs DEF Rows
  <1>2. Acts(c, req[c])
    BY <1>1 DEF Went, Acts, roles
  <1>3. TypeOK' /\ Whole'
    BY RowStep DEF Went
  <1>4. Tables'
    BY DEF Went, Sound, Tables
  <1> QED BY <1>2, <1>3, <1>4, ActsSound

\* A call that is done has nothing left to be right.
LEMMA DoneFits ==
  ASSUME NEW c \in Calls, at'[c] = "done"
  PROVE  Fits(c)' /\ Fresh(c)'
  BY DEF Fits, Fresh, FillsTv, FillsCaps

\* The right password opens the account; its token has the version the sign-in read.
LEMMA LoginRightSound ==
  ASSUME Sound, NEW c \in Calls, LoginRight(c)
  PROVE  Sound'
  <1>1. /\ at[c] = "password" /\ acct' = [acct EXCEPT !.fails = 0, !.lock = "open"]
        /\ tokens' = tokens \cup {seen[c]} /\ Done(c) /\ UNCHANGED <<redis, roles, history>>
    BY DEF LoginRight
  <1>2. Went(c) /\ at'[c] = "done"
    BY <1>1, StepIs DEF Over
  <1>3. /\ acct' \in Rows /\ acct'.tv = acct.tv /\ acct.tv \in Nat /\ acct'.lock = "open"
        /\ acct'.fails = 0 /\ \A f \in {"pinFails", "pinLock", "role"} : acct'[f] = acct[f]
    BY <1>1, AcctIs DEF Rows
  <1>4. seen[c] \in 0 .. acct.tv /\ tokens \subseteq 0 .. acct.tv
    BY <1>1 DEF Sound, CallsRight, Fits, TypeOK
  <1>5. CountsLock'
    <2>1. \A d \in Calls : at[d] = "lockPin" => at'[d] = at[d]
      BY <1>1, <1>2 DEF Went
    <2> QED BY <1>1, <1>3, <2>1, TriesType DEF CountsLock, Sound, Whole, history
  <1>6. StaleEntry'
    BY <1>1, <1>2, <1>3, TvStays DEF Went, history
  <1>7. quiet' \in Nat
    BY <1>1, AcctIs DEF history
  <1> QED BY <1>1, <1>2, <1>3, <1>4, <1>5, <1>6, <1>7, DoneFits, RowWent DEF history

\* The wrong password is counted, and the count at its limit goes on to lock.
LEMMA LoginWrongSound ==
  ASSUME Sound, NEW c \in Calls, LoginWrong(c)
  PROVE  Sound'
  <1>1. /\ at[c] = "password" /\ acct' = [acct EXCEPT !.fails = @ + 1]
        /\ GotoOrEnd(c, acct'.fails >= LoginTries, "lockOut")
        /\ UNCHANGED <<redis, tokens, roles, history>>
    BY DEF LoginWrong
  <1>2. PICK where \in {"done", "lockOut"} :
           /\ IF where = "done" THEN Done(c) ELSE Goto(c, where)
           /\ acct'.fails >= LoginTries => where = "lockOut"
    BY <1>1 DEF GotoOrEnd
  <1>3. Went(c) /\ at'[c] = where /\ (where # "done" => req'[c] = req[c])
    BY <1>1, <1>2, StepIs DEF Over, Places
  <1>4. /\ acct' \in Rows /\ acct'.tv = acct.tv /\ acct.tv \in Nat
        /\ \A f \in {"lock", "pinFails", "pinLock", "role"} : acct'[f] = acct[f]
    BY <1>1, AcctIs DEF Rows
  <1>5. Fits(c) /\ Fresh(c) /\ tokens \subseteq 0 .. acct.tv
    BY DEF Sound, CallsRight, TypeOK
  <1>6. CountsLock'
    <2>1. \A d \in Calls : at[d] = "lockPin" => at'[d] = at[d]
      BY <1>1, <1>3 DEF Went
    <2>2. acct'.fails >= LoginTries => \E d \in Calls : at'[d] = "lockOut"
      BY <1>2, <1>3
    <2> QED BY <1>1, <1>4, <2>1, <2>2 DEF CountsLock, Sound, Whole, history
  <1>7. StaleEntry'
    BY <1>1, <1>3, <1>4, TvStays DEF Went, history
  <1>8. Fits(c)'
    BY <1>1, <1>3, <1>5 DEF Fits, FillsTv, FillsCaps
  <1>9. Fresh(c)'
    BY <1>1, <1>3, <1>4, <1>5 DEF Went, Fresh, FillsTv, FillsCaps
  <1>10. quiet' \in Nat /\ UNCHANGED <<kept, since>>
    BY <1>1, AcctIs DEF history
  <1> QED BY <1>1, <1>3, <1>4, <1>5, <1>6, <1>7, <1>8, <1>9, <1>10, RowWent

\* The lock bumps the version, and the call goes on to drop the Redis entry.
LEMMA LockOutSound ==
  ASSUME Sound, NEW c \in Calls, LockOut(c)
  PROVE  Sound'
  <1>1. /\ at[c] = "lockOut" /\ acct' = [acct EXCEPT !.lock = "timed", !.tv = @ + 1]
        /\ lapsed' = lapsed \ {"lock"} /\ GotoWith(c, "evict", acct'.tv)
        /\ UNCHANGED <<redis, tokens, roles, kept, quiet, since>>
    BY DEF LockOut
  <1>2. Went(c) /\ at'[c] = "evict" /\ req'[c] = req[c] /\ seen'[c] = acct'.tv
    BY <1>1, StepIs DEF Over, Places
  <1>3. acct.tv \in Nat /\ acct.tv + 1 \in Nat /\ quiet' \in Nat
    BY <1>1, AcctIs DEF Rows
  <1>4. acct' \in Rows
    BY <1>1, <1>3, AcctIs DEF Rows
  <1>5. acct'.tv = acct.tv + 1 /\ acct'.lock = "timed"
    BY <1>1, AcctIs DEF Rows
  <1>6. \A f \in {"pinFails", "pinLock", "role"} : acct'[f] = acct[f]
    BY <1>1, AcctIs DEF Rows
  <1>7. Fits(c) /\ tokens \subseteq 0 .. acct.tv
    BY DEF Sound, CallsRight, TypeOK
  <1>8. "tv" \in Topics(req[c])
    BY <1>1, <1>7, TopicsAt
  <1>9. CountsLock'
    <2>1. \A d \in Calls : at[d] = "lockPin" => at'[d] = at[d]
      BY <1>1, <1>2 DEF Went
    <2> QED BY <1>1, <1>5, <1>6, <2>1 DEF CountsLock, Sound, Whole
  <1>10. StaleEntry'
    BY <1>2 DEF StaleEntry
  <1>11. Fits(c)'
    BY <1>1, <1>2, <1>3, <1>5, <1>7 DEF Fits, FillsTv, FillsCaps
  <1>12. Fresh(c)'
    BY <1>2 DEF Fresh, FillsTv, FillsCaps
  <1>13. tokens' \subseteq 0 .. acct'.tv /\ acct'.tv >= acct.tv
    BY <1>1, <1>3, <1>5, <1>7
  <1> QED BY <1>1, <1>2, <1>3, <1>4, <1>5, <1>6, <1>8, <1>9, <1>10, <1>11, <1>12, <1>13, RowWent

\* The right PIN clears its count and lock, unless an approval's reset rolls back.
LEMMA PinRightSound ==
  ASSUME Sound, NEW c \in Calls, PinRight(c)
  PROVE  Sound'
  <1>1. /\ at[c] = "pin" /\ Done(c) /\ UNCHANGED <<redis, roles, history>>
        /\ acct' = [acct EXCEPT !.pinFails = 0, !.pinLock = FALSE] \/ acct' = acct
        /\ tokens' = IF req[c].op = "pinLogin" THEN tokens \cup {seen[c]} ELSE tokens
    BY DEF PinRight
  <1>2. Went(c) /\ at'[c] = "done"
    BY <1>1, StepIs DEF Over
  <1>3. /\ acct' \in Rows /\ \A f \in {"fails", "lock", "tv", "role"} : acct'[f] = acct[f]
        /\ acct'.pinFails = 0 \/ (acct'.pinFails = acct.pinFails /\ acct'.pinLock = acct.pinLock)
    <2>1. CASE acct' = acct
      BY <2>1, AcctIs
    <2>2. CASE acct' = [acct EXCEPT !.pinFails = 0, !.pinLock = FALSE]
      BY <2>2, AcctIs DEF Rows
    <2> QED BY <1>1, <2>1, <2>2
  <1>4. seen[c] \in 0 .. acct.tv /\ tokens \subseteq 0 .. acct.tv /\ acct.tv \in Nat
    BY <1>1 DEF Sound, CallsRight, Fits, TypeOK
  <1>5. tokens' \subseteq 0 .. acct'.tv
    BY <1>1, <1>3, <1>4
  <1>6. CountsLock'
    <2>1. \A d \in Calls : at[d] \in {"lockOut", "lockPin"} => at'[d] = at[d]
      BY <1>1, <1>2 DEF Went
    <2> QED BY <1>1, <1>3, <2>1, TriesType DEF CountsLock, Sound, Whole, history
  <1>7. StaleEntry'
    BY <1>1, <1>2, <1>3, TvStays DEF Went, history
  <1>8. quiet' \in Nat /\ UNCHANGED <<kept, since>>
    BY <1>1, AcctIs DEF history
  <1> QED BY <1>1, <1>2, <1>3, <1>4, <1>5, <1>6, <1>7, <1>8, DoneFits, RowWent

\* The wrong PIN is counted; at the larger limit either try goes on to lock.
LEMMA PinWrongSound ==
  ASSUME Sound, NEW c \in Calls, PinWrong(c)
  PROVE  Sound'
  <1>1. /\ at[c] = "pin" /\ acct' = [acct EXCEPT !.pinFails = @ + 1]
        /\ GotoOrEnd(c, acct'.pinFails >= Tries(req[c]), "lockPin")
        /\ UNCHANGED <<redis, tokens, roles, history>>
    BY DEF PinWrong
  <1>2. PICK where \in {"done", "lockPin"} :
           /\ IF where = "done" THEN Done(c) ELSE Goto(c, where)
           /\ acct'.pinFails >= Tries(req[c]) => where = "lockPin"
    BY <1>1 DEF GotoOrEnd
  <1>3. Went(c) /\ at'[c] = where /\ (where # "done" => req'[c] = req[c])
    BY <1>1, <1>2, StepIs DEF Over, Places
  <1>4. /\ acct' \in Rows /\ acct'.tv = acct.tv /\ acct.tv \in Nat /\ acct'.pinFails \in Nat
        /\ \A f \in {"fails", "lock", "pinLock", "role"} : acct'[f] = acct[f]
    BY <1>1, AcctIs DEF Rows
  <1>5. Fits(c) /\ tokens \subseteq 0 .. acct.tv
    BY DEF Sound, CallsRight, TypeOK
  <1>6. CountsLock'
    <2>1. \A d \in Calls : at[d] = "lockOut" => at'[d] = at[d]
      BY <1>1, <1>3 DEF Went
    <2>2. Tries(req[c]) \in Nat /\ Tries(req[c]) <= CashierTries /\ CashierTries \in Nat
      BY TriesType DEF Tries
    <2>3. acct'.pinFails >= CashierTries => at'[c] = "lockPin"
      BY <1>2, <1>3, <1>4, <2>2
    <2> QED BY <1>1, <1>4, <2>1, <2>3 DEF CountsLock, Sound, Whole, history
  <1>7. StaleEntry'
    BY <1>1, <1>3, <1>4, TvStays DEF Went, history
  <1>8. Fits(c)'
    BY <1>1, <1>3, <1>5 DEF Fits, FillsTv, FillsCaps
  <1>9. Fresh(c)'
    BY <1>3 DEF Fresh, FillsTv, FillsCaps
  <1>10. quiet' \in Nat /\ UNCHANGED <<kept, since>>
    BY <1>1, AcctIs DEF history
  <1> QED BY <1>1, <1>3, <1>4, <1>5, <1>6, <1>7, <1>8, <1>9, <1>10, RowWent

\* The PIN is locked.
LEMMA LockPinSound ==
  ASSUME Sound, NEW c \in Calls, LockPin(c)
  PROVE  Sound'
  <1>1. /\ at[c] = "lockPin" /\ acct' = [acct EXCEPT !.pinLock = TRUE]
        /\ lapsed' = lapsed \ {"pin"} /\ Done(c)
        /\ UNCHANGED <<redis, tokens, roles, kept, quiet, since>>
    BY DEF LockPin
  <1>2. Went(c) /\ at'[c] = "done"
    BY <1>1, StepIs DEF Over
  <1>3. /\ acct' \in Rows /\ acct'.tv = acct.tv /\ acct.tv \in Nat /\ acct'.pinLock
        /\ \A f \in {"fails", "lock", "role"} : acct'[f] = acct[f]
    BY <1>1, AcctIs DEF Rows
  <1>4. tokens \subseteq 0 .. acct.tv
    BY DEF Sound, TypeOK
  <1>5. CountsLock'
    <2>1. \A d \in Calls : at[d] = "lockOut" => at'[d] = at[d]
      BY <1>1, <1>2 DEF Went
    <2> QED BY <1>1, <1>3, <2>1 DEF CountsLock, Sound, Whole
  <1>6. StaleEntry'
    BY <1>1, <1>2, <1>3, TvStays DEF Went
  <1>7. quiet' \in Nat
    BY <1>1, AcctIs
  <1>8. tokens' \subseteq 0 .. acct'.tv
    BY <1>1, <1>3, <1>4
  <1>9. acct'.tv >= acct.tv /\ acct'.lock = acct.lock /\ acct'.role = acct.role
    BY <1>3, <1>4
  <1> QED BY <1>1, <1>2, <1>3, <1>5, <1>6, <1>7, <1>8, <1>9, DoneFits, RowWent

-----------------------------------------------------------------------------
(***************************************************************************)
(* The steps on the Redis entry and on the roles.                          *)
(***************************************************************************)
\* A step of a call in flight that leaves the row alone and sees to its own entry.
LEMMA EntryWent ==
  ASSUME Sound, NEW c \in Calls, Went(c), at[c] \in {"evict", "warm", "fill"},
         UNCHANGED <<acct, tokens, roles, lapsed, kept, since>>,
         redis' \in {None} \cup 0 .. acct.tv, quiet' \in Nat,
         StaleEntry', Fits(c)', Fresh(c)'
  PROVE  Sound'
  <1>1. acct.tv \in Nat
    BY DEF Sound, TypeOK
  <1>2. Acts(c, req[c])
    BY <1>1 DEF Went, Acts, roles
  <1>3. TypeOK'
    BY DEF Sound, TypeOK, roles
  <1>4. Tables'
    BY DEF Went, Sound, Tables
  <1>5. \A d \in Calls : at[d] \in {"lockOut", "lockPin", "drop"} => at'[d] = at[d] /\ req'[d] = req[d]
    BY DEF Went
  <1>6. CountsLock'
    BY <1>5 DEF Sound, Whole, CountsLock
  <1>7. EditsSeen'
    BY <1>5 DEF Went, Sound, Whole, EditsSeen, roles
  <1>8. AdminLeft'
    BY DEF Went, Sound, Whole, AdminLeft, roles
  <1> QED BY <1>2, <1>3, <1>4, <1>6, <1>7, <1>8, ActsSound DEF Whole

\* The Redis entry is dropped.
LEMMA EvictSound ==
  ASSUME Sound, NEW c \in Calls, Evict(c)
  PROVE  Sound'
  <1>1. /\ at[c] = "evict" /\ redis' = None /\ quiet' = 0 /\ Goto(c, "warm")
        /\ UNCHANGED <<acct, tokens, roles, lapsed, kept, since>>
    BY DEF Evict
  <1>2. Went(c) /\ at'[c] = "warm" /\ req'[c] = req[c] /\ seen'[c] = seen[c]
    BY <1>1, StepIs DEF Over, Places
  <1>3. Fits(c) /\ Fresh(c)
    BY DEF Sound, CallsRight
  <1>4. Fits(c)'
    BY <1>1, <1>2, <1>3 DEF Fits, FillsTv, FillsCaps
  <1>5. Fresh(c)'
    BY <1>1, <1>2, <1>3 DEF Went, Fresh, FillsTv, FillsCaps
  <1>6. StaleEntry'
    BY <1>1 DEF StaleEntry
  <1> QED BY <1>1, <1>2, <1>4, <1>5, <1>6, EntryWent

\* The drop fails: the bump is on record as one that left the entry.
LEMMA EvictFailsSound ==
  ASSUME Sound, NEW c \in Calls, EvictFails(c)
  PROVE  Sound'
  <1>1. /\ at[c] = "evict" /\ quiet' = seen[c] /\ Done(c)
        /\ UNCHANGED <<account, roles, lapsed, kept, since>>
    BY DEF EvictFails
  <1>2. Went(c) /\ at'[c] = "done"
    BY <1>1, StepIs DEF Over
  <1>3. Fits(c) /\ Fresh(c) /\ redis \in {None} \cup 0 .. acct.tv /\ acct.tv \in Nat
    BY DEF Sound, CallsRight, TypeOK
  <1>4. seen[c] \in 0 .. acct.tv /\ (seen[c] = acct.tv \/ "tv" \in raced)
    BY <1>1, <1>3 DEF Fits, Fresh
  <1>5. StaleEntry'
    BY <1>1, <1>2, <1>3, <1>4 DEF Went, StaleEntry, account
  <1> QED BY <1>1, <1>2, <1>3, <1>4, <1>5, DoneFits, EntryWent DEF account

\* The entry is warmed, or the warming fails.
LEMMA WarmSound ==
  ASSUME Sound, NEW c \in Calls, Warm(c)
  PROVE  Sound'
  <1>1. /\ at[c] = "warm" /\ redis' \in {seen[c], redis} /\ Done(c)
        /\ UNCHANGED <<acct, tokens, roles, history>>
    BY DEF Warm
  <1>2. Went(c) /\ at'[c] = "done"
    BY <1>1, StepIs DEF Over
  <1>3. /\ Fits(c) /\ Fresh(c) /\ redis \in {None} \cup 0 .. acct.tv /\ acct.tv \in Nat
        /\ StaleEntry /\ quiet \in Nat
    BY DEF Sound, CallsRight, TypeOK, Whole, Tables
  <1>4. seen[c] \in 0 .. acct.tv /\ (seen[c] = acct.tv \/ "tv" \in raced)
    BY <1>1, <1>3 DEF Fits, Fresh
  <1>5. \A d \in Calls : at[d] = "evict" => at'[d] = "evict"
    BY <1>1, <1>2 DEF Went
  <1>6. StaleEntry'
    BY <1>1, <1>2, <1>3, <1>4, <1>5 DEF Went, StaleEntry, history
  <1>7. redis' \in {None} \cup 0 .. acct.tv
    BY <1>1, <1>3, <1>4
  <1> QED BY <1>1, <1>2, <1>3, <1>6, <1>7, DoneFits, EntryWent DEF history

\* A request that missed the entry fills it, and is refused if its token is too old.
LEMMA FillRedisSound ==
  ASSUME Sound, NEW c \in Calls, FillRedis(c)
  PROVE  Sound'
  <1>1. /\ at[c] = "fill" /\ req[c].op = "request" /\ redis' \in {seen[c], redis}
        /\ GotoOrEnd(c, req[c].tv >= seen[c], "passed")
        /\ UNCHANGED <<acct, tokens, roles, history>>
    BY DEF FillRedis
  <1>2. PICK where \in {"done", "passed"} :
           /\ IF where = "done" THEN Done(c) ELSE Goto(c, where)
           /\ where = "passed" => req[c].tv >= seen[c]
    BY <1>1 DEF GotoOrEnd
  <1>3. Went(c) /\ at'[c] = where /\ (where # "done" => req'[c] = req[c])
    BY <1>1, <1>2, StepIs DEF Over, Places
  <1>4. /\ Fits(c) /\ Fresh(c) /\ redis \in {None} \cup 0 .. acct.tv /\ acct.tv \in Nat
        /\ StaleEntry /\ quiet \in Nat
    BY DEF Sound, CallsRight, TypeOK, Whole, Tables
  <1>5. /\ seen[c] \in 0 .. acct.tv /\ (seen[c] = acct.tv \/ "tv" \in raced)
        /\ since[c][1] \in 0 .. acct.tv /\ since[c][2] \in Nat /\ req[c].tv \in Nat
        /\ since[c][1] <= seen[c]
    BY <1>1, <1>4 DEF Fits, Fresh, FillsTv
  <1>6. \A d \in Calls : at[d] = "evict" => at'[d] = "evict"
    BY <1>1, <1>3 DEF Went
  <1>7. StaleEntry'
    BY <1>1, <1>3, <1>4, <1>5, <1>6 DEF Went, StaleEntry, history
  <1>8. redis' \in {None} \cup 0 .. acct.tv
    BY <1>1, <1>4, <1>5
  <1>9. Fits(c)'
    BY <1>1, <1>3, <1>5 DEF Fits, FillsTv, FillsCaps, history
  <1>10. Fresh(c)'
    BY <1>1, <1>2, <1>3, <1>5 DEF Fresh, FillsTv, FillsCaps, history
  <1> QED BY <1>1, <1>3, <1>4, <1>7, <1>8, <1>9, <1>10, EntryWent DEF history

\* A role is written, or its deletion: the edit counted the administrators and the users.
LEMMA WriteRoleSound ==
  ASSUME Sound, NEW c \in Calls, WriteRole(c)
  PROVE  Sound'
  <1> DEFINE r == req[c]
  <1>1. /\ at[c] = "write" /\ UNCHANGED <<account, caps, history>>
        /\ GotoOrEnd(c, r.role \in live, "drop")
        /\ IF r.op = "delete"
             THEN live' = live \ {r.role} /\ admins' = admins \ {r.role}
             ELSE /\ admins' = IF r.role \in live /\ r.admin
                                 THEN admins \cup {r.role} ELSE admins \ {r.role}
                  /\ live' = live
    BY DEF WriteRole
  <1>2. PICK where \in {"done", "drop"} :
           /\ IF where = "done" THEN Done(c) ELSE Goto(c, where)
           /\ r.role \in live => where = "drop"
    BY <1>1 DEF GotoOrEnd
  <1>3. Went(c) /\ at'[c] = where /\ (where # "done" => req'[c] = r)
    BY <1>1, <1>2, StepIs DEF Over, Places
  <1>4. /\ Fits(c) /\ Fresh(c) /\ acct.tv \in Nat /\ admins \subseteq live /\ live \subseteq Roles
        /\ CountsLock /\ StaleEntry /\ EditsSeen /\ AdminLeft
    BY DEF Sound, CallsRight, TypeOK, Whole
  <1>5. /\ r.op \in {"setCaps", "delete"} /\ r.role \in Roles
        /\ r.op = "setCaps" => r.admin \in BOOLEAN
        /\ "role" \in Topics(r) /\ "caps" \in Topics(r)
    BY <1>1, <1>4, TopicsAt DEF Fits
  <1>6. /\ admins' \subseteq live' /\ live' \subseteq Roles
        /\ \A x \in Roles \ {r.role} : (x \in admins' <=> x \in admins)
        /\ r.role \notin live => admins' = admins
    BY <1>1, <1>4
  <1>7. "role" \in raced \/ admins' # {}
    <2>1. CASE "role" \in raced
      BY <2>1
    <2>2. CASE r.role \notin live
      BY <1>4, <1>6, <2>2 DEF AdminLeft
    <2>3. CASE r.role \in live /\ r.role \notin admins /\ "role" \notin raced
      <3>1. admins # {}
        BY <1>4, <2>3 DEF AdminLeft
      <3> QED BY <1>1, <2>3, <3>1
    <2>4. CASE r.role \in live /\ r.op = "setCaps" /\ r.admin
      BY <1>1, <2>4
    <2>5. CASE admins \ {r.role} # {}
      BY <1>1, <2>5
    <2> QED BY <1>1, <1>4, <2>1, <2>2, <2>3, <2>4, <2>5 DEF Fresh
  <1> HIDE DEF r
  <1>8. Acts(c, r)
    BY <1>1, <1>3, <1>4, <1>5 DEF Went, Acts, account, history, r
  <1>9. TypeOK'
    BY <1>1, <1>6 DEF Sound, TypeOK, account
  <1>10. Tables'
    BY <1>1, <1>3 DEF Went, Sound, Tables, history
  <1>11. Fits(c)'
    BY <1>1, <1>3, <1>5 DEF Fits, FillsTv, FillsCaps
  <1>12. Fresh(c)'
    BY <1>3 DEF Fresh, FillsTv, FillsCaps
  <1>13. \A d \in Calls : at[d] \in {"lockOut", "lockPin", "evict", "drop"} =>
            at'[d] = at[d] /\ req'[d] = req[d]
    BY <1>1, <1>3 DEF Went
  <1>14. CountsLock'
    BY <1>1, <1>4, <1>13 DEF CountsLock, account, history
  <1>15. StaleEntry'
    BY <1>1, <1>3, <1>4, <1>13 DEF Went, StaleEntry, account, history
  <1>16. EditsSeen'
    <2> SUFFICES ASSUME NEW x \in Roles, caps[x] \notin {None, (x \in admins')}
                 PROVE  "caps" \in raced' \/ x \in kept'
                          \/ \E d \in Calls : at'[d] = "drop" /\ req'[d].role = x
      BY <1>1 DEF EditsSeen
    <2>1. CASE x = r.role /\ r.role \in live
      BY <1>2, <1>3, <2>1
    <2>2. CASE x # r.role \/ r.role \notin live
      <3>1. (x \in admins') <=> (x \in admins)
        BY <1>6, <2>2
      <3>2. caps[x] \notin {None, (x \in admins)}
        BY <3>1
      <3>3. "caps" \in raced \/ x \in kept \/ \E d \in Calls : at[d] = "drop" /\ req[d].role = x
        BY <1>4, <3>2 DEF EditsSeen
      <3> QED BY <1>1, <1>3, <1>13, <3>3 DEF Went, history
    <2> QED BY <2>1, <2>2
  <1>17. AdminLeft'
    BY <1>3, <1>7 DEF Went, AdminLeft
  <1> QED BY <1>8, <1>9, <1>10, <1>11, <1>12, <1>14, <1>15, <1>16, <1>17, ActsSound DEF Whole

\* A step of a call in flight that writes only the capability cache.
LEMMA CapsWent ==
  ASSUME Sound, NEW c \in Calls, Went(c), at'[c] = "done", at[c] \in {"drop", "fill"},
         UNCHANGED <<account, live, admins, lapsed, quiet, since>>,
         caps' \in [Roles -> BOOLEAN \cup {None}], EditsSeen'
  PROVE  Sound'
  <1>1. acct.tv \in Nat
    BY DEF Sound, TypeOK
  <1>2. Acts(c, req[c])
    BY <1>1 DEF Went, Acts, account
  <1>3. TypeOK'
    BY DEF Sound, TypeOK, account
  <1>4. Tables'
    BY DEF Went, Sound, Tables
  <1>5. \A d \in Calls : at[d] \in {"lockOut", "lockPin", "evict"} => at'[d] = at[d]
    BY DEF Went
  <1>6. CountsLock'
    BY <1>5 DEF Sound, Whole, CountsLock, account
  <1>7. StaleEntry'
    BY <1>5 DEF Went, Sound, Whole, StaleEntry, account
  <1>8. AdminLeft'
    BY DEF Went, Sound, Whole, AdminLeft
  <1> QED BY <1>2, <1>3, <1>4, <1>6, <1>7, <1>8, DoneFits, ActsSound DEF Whole

\* The edit drops the role's cached answer.
LEMMA DropCapsSound ==
  ASSUME Sound, NEW c \in Calls, DropCaps(c)
  PROVE  Sound'
  <1>1. /\ at[c] = "drop" /\ caps' = [caps EXCEPT ![req[c].role] = None] /\ Done(c)
        /\ kept' = kept \ {req[c].role}
        /\ UNCHANGED <<account, live, admins, lapsed, quiet, since>>
    BY DEF DropCaps
  <1>2. Went(c) /\ at'[c] = "done"
    BY <1>1, StepIs DEF Over
  <1>3. caps \in [Roles -> BOOLEAN \cup {None}] /\ Fits(c) /\ EditsSeen
    BY DEF Sound, TypeOK, CallsRight, Whole
  <1>4. req[c].role \in Roles
    BY <1>1, <1>3 DEF Fits
  <1>5. caps' \in [Roles -> BOOLEAN \cup {None}]
    BY <1>1, <1>3
  <1>6. EditsSeen'
    <2> SUFFICES ASSUME NEW x \in Roles, caps'[x] \notin {None, (x \in admins)}
                 PROVE  "caps" \in raced' \/ x \in kept'
                          \/ \E d \in Calls : at'[d] = "drop" /\ req'[d].role = x
      BY <1>1 DEF EditsSeen
    <2>1. x # req[c].role /\ caps'[x] = caps[x]
      BY <1>1, <1>3, <1>4
    <2>2. "caps" \in raced \/ x \in kept \/ \E d \in Calls : at[d] = "drop" /\ req[d].role = x
      BY <1>3, <2>1 DEF EditsSeen
    <2> QED BY <1>1, <1>2, <2>1, <2>2 DEF Went
  <1> QED BY <1>1, <1>2, <1>5, <1>6, CapsWent

\* A check caches the answer it read.
LEMMA FillCapsSound ==
  ASSUME Sound, NEW c \in Calls, FillCaps(c)
  PROVE  Sound'
  <1>1. /\ at[c] = "fill" /\ req[c].op = "can"
        /\ caps' = [caps EXCEPT ![req[c].role] = seen[c]] /\ Done(c)
        /\ UNCHANGED <<account, live, admins, history>>
    BY DEF FillCaps
  <1>2. Went(c) /\ at'[c] = "done"
    BY <1>1, StepIs DEF Over
  <1>3. caps \in [Roles -> BOOLEAN \cup {None}] /\ Fits(c) /\ Fresh(c) /\ EditsSeen
    BY DEF Sound, TypeOK, CallsRight, Whole
  <1>4. /\ req[c].role \in Roles /\ seen[c] \in BOOLEAN
        /\ (seen[c] <=> req[c].role \in admins) \/ "caps" \in raced
    BY <1>1, <1>3 DEF Fits, Fresh, FillsCaps
  <1>5. caps' \in [Roles -> BOOLEAN \cup {None}]
    BY <1>1, <1>3, <1>4
  <1>6. EditsSeen'
    <2> SUFFICES ASSUME NEW x \in Roles, caps'[x] \notin {None, (x \in admins)}
                 PROVE  "caps" \in raced' \/ x \in kept'
                          \/ \E d \in Calls : at'[d] = "drop" /\ req'[d].role = x
      BY <1>1 DEF EditsSeen
    <2>1. CASE x = req[c].role
      <3>1. caps'[x] = seen[c]
        BY <1>1, <1>3, <1>4, <2>1
      <3>2. ~(seen[c] <=> x \in admins)
        <4>1. seen[c] # (x \in admins)
          BY <3>1
        <4>2. (x \in admins) = TRUE \/ (x \in admins) = FALSE
          OBVIOUS
        <4>3. CASE (x \in admins) = TRUE
          BY <1>4, <4>1, <4>3
        <4>4. CASE (x \in admins) = FALSE
          BY <1>4, <4>1, <4>4
        <4> QED BY <4>2, <4>3, <4>4
      <3> QED BY <1>2, <1>4, <2>1, <3>2 DEF Went
    <2>2. CASE x # req[c].role
      <3>1. caps'[x] = caps[x]
        BY <1>1, <1>3, <1>4, <2>2
      <3>2. "caps" \in raced \/ x \in kept \/ \E d \in Calls : at[d] = "drop" /\ req[d].role = x
        BY <1>1, <1>3, <3>1 DEF EditsSeen
      <3> QED BY <1>1, <1>2, <3>2 DEF Went, history
    <2> QED BY <2>1, <2>2
  <1> QED BY <1>1, <1>2, <1>5, <1>6, CapsWent DEF history

\* A call fails: the lock it owed is on record as not set, the cached answer as kept.
LEMMA CallFailsSound ==
  ASSUME Sound, NEW c \in Calls, CallFails(c)
  PROVE  Sound'
  <1>1. /\ at[c] \in {"password", "lockOut", "readTv", "pin", "lockPin", "users", "count",
                     "write", "drop"}
        /\ lapsed' = lapsed \cup {l \in {"lock"} : at[c] = "lockOut"}
                            \cup {l \in {"pin"} : at[c] = "lockPin"}
        /\ kept' = kept \cup {r \in Roles : at[c] = "drop" /\ r = req[c].role /\ caps[r] # None}
        /\ Done(c) /\ UNCHANGED <<account, roles, quiet, since>>
    BY DEF CallFails
  <1>2. Went(c) /\ at'[c] = "done"
    BY <1>1, StepIs DEF Over
  <1>3. acct.tv \in Nat
    BY DEF Sound, TypeOK
  <1>4. Acts(c, req[c])
    BY <1>1, <1>2, <1>3 DEF Went, Acts, account, roles
  <1>5. TypeOK'
    BY <1>1 DEF Sound, TypeOK, account, roles
  <1>6. Tables'
    BY <1>1, <1>2 DEF Went, Sound, Tables
  <1>7. \A d \in Calls \ {c} : at'[d] = at[d] /\ req'[d] = req[d]
    BY <1>2 DEF Went
  <1>8. CountsLock'
    <2>1. /\ at[c] = "lockOut" => "lock" \in lapsed'
          /\ at[c] = "lockPin" => "pin" \in lapsed'
          /\ lapsed \subseteq lapsed'
      BY <1>1
    <2> QED BY <1>1, <1>7, <2>1 DEF Sound, Whole, CountsLock, account
  <1>9. StaleEntry'
    <2>1. \A d \in Calls : at[d] = "evict" => at'[d] = "evict"
      BY <1>1, <1>7
    <2> QED BY <1>1, <1>2, <2>1 DEF Went, Sound, Whole, StaleEntry, account
  <1>10. EditsSeen'
    <2> SUFFICES ASSUME NEW x \in Roles, caps[x] \notin {None, (x \in admins)}
                 PROVE  "caps" \in raced' \/ x \in kept'
                          \/ \E d \in Calls : at'[d] = "drop" /\ req'[d].role = x
      BY <1>1 DEF EditsSeen, roles
    <2>1. "caps" \in raced \/ x \in kept \/ \E d \in Calls : at[d] = "drop" /\ req[d].role = x
      BY DEF Sound, Whole, EditsSeen
    <2>2. at[c] = "drop" /\ req[c].role = x => x \in kept'
      BY <1>1
    <2> QED BY <1>1, <1>2, <1>7, <2>1, <2>2 DEF Went
  <1>11. AdminLeft'
    BY <1>1, <1>2 DEF Went, Sound, Whole, AdminLeft, roles
  <1> QED BY <1>2, <1>4, <1>5, <1>6, <1>8, <1>9, <1>10, <1>11, DoneFits, ActsSound DEF Whole

-----------------------------------------------------------------------------
(***************************************************************************)
(* The clock, the start and the theorems.                                  *)
(***************************************************************************)
\* A step of the clock moves no call, and neither bumps the version nor edits a role.
LEMMA ClockStep ==
  ASSUME Sound, UNCHANGED <<call, raced, since, live, admins, tokens>>,
         acct' \in Rows, acct'.tv = acct.tv, acct'.lock = "held" => acct.lock = "held",
         acct'.role = acct.role, redis' \in {redis, None}, quiet' \in Nat,
         caps' \in [Roles -> BOOLEAN \cup {None}], Whole'
  PROVE  Sound'
  <1>1. TypeOK'
    BY DEF Sound, TypeOK, Rows
  <1>2. Tables'
    BY DEF Sound, Tables, call
  <1>3. CallsRight'
    <2>1. ASSUME NEW c \in Calls PROVE Fits(c)' /\ Fresh(c)'
      <3>1. Fits(c) /\ Fresh(c)
        BY DEF Sound, CallsRight
      <3>2. Fits(c)'
        BY <3>1 DEF Fits, FillsTv, FillsCaps, call
      <3>3. Fresh(c)'
        BY <3>1 DEF Fresh, FillsTv, FillsCaps, call
      <3> QED BY <3>2, <3>3
    <2> QED BY <2>1 DEF CallsRight
  <1>4. Overlaps'
    BY DEF Sound, Overlaps, InFlight, Topics, call
  <1> QED BY <1>1, <1>2, <1>3, <1>4 DEF Sound

\* A timed lock runs out.
LEMMA LockLapsesSound ==
  ASSUME Sound, LockLapses
  PROVE  Sound'
  <1>1. /\ acct' = [acct EXCEPT !.lock = "open"] /\ lapsed' = lapsed \cup {"lock"}
        /\ UNCHANGED <<redis, tokens, roles, call, raced, kept, quiet, since>>
    BY DEF LockLapses
  <1>2. /\ acct' \in Rows /\ acct'.lock = "open" /\ quiet' \in Nat
        /\ \A f \in {"fails", "tv", "pinFails", "pinLock", "role"} : acct'[f] = acct[f]
    BY <1>1, AcctIs DEF Rows
  <1>3. CountsLock'
    BY <1>1, <1>2 DEF Sound, Whole, CountsLock, call
  <1>4. StaleEntry'
    BY <1>1, <1>2 DEF Sound, Whole, StaleEntry, call
  <1>5. EditsSeen' /\ AdminLeft'
    BY <1>1 DEF Sound, Whole, EditsSeen, AdminLeft, call, roles
  <1>6. caps' \in [Roles -> BOOLEAN \cup {None}] /\ UNCHANGED <<live, admins>>
    BY <1>1 DEF Sound, TypeOK, roles
  <1>7. acct'.tv = acct.tv /\ acct'.role = acct.role
    BY <1>2
  <1>8. Whole'
    BY <1>3, <1>4, <1>5 DEF Whole
  <1> QED BY <1>1, <1>2, <1>6, <1>7, <1>8, ClockStep

\* The lock of the PINs runs out.
LEMMA PinLockLapsesSound ==
  ASSUME Sound, PinLockLapses
  PROVE  Sound'
  <1>1. /\ acct' = [acct EXCEPT !.pinLock = FALSE] /\ lapsed' = lapsed \cup {"pin"}
        /\ UNCHANGED <<redis, tokens, roles, call, raced, kept, quiet, since>>
    BY DEF PinLockLapses
  <1>2. /\ acct' \in Rows /\ quiet' \in Nat
        /\ \A f \in {"fails", "lock", "tv", "pinFails", "role"} : acct'[f] = acct[f]
    BY <1>1, AcctIs DEF Rows
  <1>3. CountsLock'
    BY <1>1, <1>2 DEF Sound, Whole, CountsLock, call
  <1>4. StaleEntry'
    BY <1>1, <1>2 DEF Sound, Whole, StaleEntry, call
  <1>5. EditsSeen' /\ AdminLeft'
    BY <1>1 DEF Sound, Whole, EditsSeen, AdminLeft, call, roles
  <1>6. caps' \in [Roles -> BOOLEAN \cup {None}] /\ UNCHANGED <<live, admins>>
    BY <1>1 DEF Sound, TypeOK, roles
  <1>7. acct'.tv = acct.tv /\ acct'.role = acct.role /\ acct'.lock = acct.lock
    BY <1>2
  <1>8. Whole'
    BY <1>3, <1>4, <1>5 DEF Whole
  <1> QED BY <1>1, <1>2, <1>6, <1>7, <1>8, ClockStep

\* The Redis entry expires.
LEMMA RedisExpiresSound ==
  ASSUME Sound, RedisExpires
  PROVE  Sound'
  <1>1. /\ redis' = None /\ quiet' = 0
        /\ UNCHANGED <<acct, tokens, roles, call, raced, lapsed, kept, since>>
    BY DEF RedisExpires
  <1>2. CountsLock' /\ EditsSeen' /\ AdminLeft'
    BY <1>1 DEF Sound, Whole, CountsLock, EditsSeen, AdminLeft, call, roles
  <1>3. StaleEntry'
    BY <1>1 DEF StaleEntry
  <1>4. caps' \in [Roles -> BOOLEAN \cup {None}] /\ UNCHANGED <<live, admins>>
    BY <1>1 DEF Sound, TypeOK, roles
  <1>5. Whole'
    BY <1>2, <1>3 DEF Whole
  <1>6. acct' \in Rows /\ quiet' \in Nat
    BY <1>1, AcctIs
  <1> QED BY <1>1, <1>4, <1>5, <1>6, ClockStep

\* A cached answer expires.
LEMMA CapsExpireSound ==
  ASSUME Sound, CapsExpire
  PROVE  Sound'
  <1>1. PICK r \in Roles : caps' = [caps EXCEPT ![r] = None] /\ kept' = kept \ {r}
    BY DEF CapsExpire
  <1>2. UNCHANGED <<account, live, admins, call, raced, lapsed, quiet, since>>
    BY DEF CapsExpire
  <1>3. caps \in [Roles -> BOOLEAN \cup {None}] /\ EditsSeen
    BY DEF Sound, TypeOK, Whole
  <1>4. EditsSeen'
    <2> SUFFICES ASSUME NEW x \in Roles, caps'[x] \notin {None, (x \in admins)}
                 PROVE  "caps" \in raced \/ x \in kept' \/ \E d \in Calls : at[d] = "drop" /\ req[d].role = x
      BY <1>2 DEF EditsSeen, call
    <2>1. caps'[x] = caps[x] /\ x # r
      BY <1>1, <1>3
    <2> QED BY <1>1, <1>3, <2>1 DEF EditsSeen
  <1>5. CountsLock' /\ StaleEntry' /\ AdminLeft'
    BY <1>2 DEF Sound, Whole, CountsLock, StaleEntry, AdminLeft, call, account
  <1>6. Whole'
    BY <1>4, <1>5 DEF Whole
  <1>7. caps' \in [Roles -> BOOLEAN \cup {None}]
    BY <1>1, <1>3
  <1>8. acct' \in Rows /\ quiet' \in Nat /\ UNCHANGED <<acct, redis, tokens, quiet, since, lapsed>>
    BY <1>2, AcctIs DEF account, history
  <1> QED BY <1>2, <1>6, <1>7, <1>8, ClockStep

\* Before the first call nothing has raced and no duty is owed.
LEMMA SoundInit == Init => Sound
  <1> SUFFICES ASSUME Init PROVE Sound
    OBVIOUS
  <1>1. /\ at = [c \in Calls |-> "idle"] /\ req = [c \in Calls |-> None]
        /\ seen = [c \in Calls |-> None] /\ since = [c \in Calls |-> None]
        /\ tokens = {1} /\ live = Roles /\ quiet = 0
    BY DEF Init
  <1>2. PICK n \in 0 .. LoginTries - 1, m \in 0 .. ApprovalTries - 1, r \in Roles :
           acct = FirstRow(n, m, r)
    <2>1. CASE InitAccount
      <3>1. (CHOOSE r \in Roles : TRUE) \in Roles
        BY RolesExist
      <3> QED BY <2>1, <3>1 DEF InitAccount
    <2>2. CASE InitRoles
      <3>1. 0 \in 0 .. LoginTries - 1 /\ 0 \in 0 .. ApprovalTries - 1
        BY TriesType
      <3> QED BY <2>2, <3>1 DEF InitRoles
    <2> QED BY <2>1, <2>2 DEF Init
  <1>3. acct \in Rows /\ acct.fails < LoginTries /\ acct.pinFails < CashierTries /\ acct.tv = 1
    <2>1. n \in Nat /\ m \in Nat /\ n < LoginTries /\ m < CashierTries
      BY <1>2, TriesType
    <2> QED BY <1>2, <2>1 DEF FirstRow, Rows
  <1>4. /\ redis \in {None, 1} /\ admins \subseteq Roles /\ admins # {}
        /\ caps \in [Roles -> BOOLEAN \cup {None}]
        /\ \A r1 \in Roles : caps[r1] \in {None, (r1 \in admins)}
    <2>1. CASE InitAccount
      BY <2>1, RolesExist DEF InitAccount
    <2>2. CASE InitRoles
      <3>1. PICK known \in SUBSET Roles :
               caps = [r1 \in Roles |-> IF r1 \in known THEN r1 \in admins ELSE None]
        BY <2>2 DEF InitRoles
      <3>2. \A r1 \in Roles : caps[r1] = None \/ caps[r1] = (r1 \in admins)
        BY <3>1
      <3>3. \A r1 \in Roles : caps[r1] \in BOOLEAN \cup {None}
        BY <3>1
      <3>4. caps \in [Roles -> BOOLEAN \cup {None}]
        BY <3>1, <3>3
      <3> QED BY <2>2, <3>2, <3>4 DEF InitRoles
    <2> QED BY <2>1, <2>2 DEF Init
  <1>5. TypeOK
    BY <1>1, <1>3, <1>4 DEF TypeOK, Rows
  <1>6. Tables
    BY <1>1 DEF Tables, Places
  <1>7. CallsRight
    BY <1>1 DEF CallsRight, Fits, Fresh, FillsTv, FillsCaps
  <1>8. Overlaps
    BY <1>1 DEF Overlaps, InFlight, Over
  <1>9. CountsLock
    BY <1>3, TriesType DEF CountsLock, Rows
  <1>10. StaleEntry
    BY <1>3, <1>4 DEF StaleEntry
  <1>11. EditsSeen /\ AdminLeft
    BY <1>4 DEF EditsSeen, AdminLeft
  <1> QED BY <1>5, <1>6, <1>7, <1>8, <1>9, <1>10, <1>11 DEF Sound, Whole

\* Every step keeps the invariant.
LEMMA SoundNext == Sound /\ [Next]_vars => Sound'
  <1> SUFFICES ASSUME Sound, [Next]_vars PROVE Sound'
    OBVIOUS
  <1>1. ASSUME NEW c \in Calls, Start(c) PROVE Sound'
    BY <1>1, ReadForLoginSound, RevokeSound, RefreshSound, ReadRedisSound, ReadForPinSound,
       SetPinSound, LockSound, UnlockSound, ResetPasswordSound, ResetPinSound,
       SetCapsSound, DeleteSound, AssignSound, CanSound
    DEF Start
  <1>2. ASSUME NEW c \in Calls, Step(c) PROVE Sound'
    BY <1>2, LoginRightSound, LoginWrongSound, LockOutSound, EvictSound, EvictFailsSound,
       WarmSound, ReadTvSound, FillRedisSound, PinRightSound, PinWrongSound, LockPinSound,
       CountUsersSound, CountOtherAdminsSound, WriteRoleSound, DropCapsSound, FillCapsSound,
       CallFailsSound
    DEF Step
  <1>3. CASE UNCHANGED vars
    <2>1. UNCHANGED <<acct, redis, tokens, live, admins, caps, desk, at, req, seen, raced,
                      lapsed, kept, quiet, since>>
      BY <1>3 DEF vars, account, roles, call, history
    <2>2. TypeOK' /\ Tables' /\ Overlaps'
      BY <2>1 DEF Sound, TypeOK, Tables, Overlaps, InFlight, Topics
    <2>3. CallsRight'
      BY <2>1 DEF Sound, CallsRight, Fits, Fresh, FillsTv, FillsCaps
    <2>4. Whole'
      BY <2>1 DEF Sound, Whole, CountsLock, StaleEntry, EditsSeen, AdminLeft
    <2> QED BY <2>2, <2>3, <2>4 DEF Sound
  <1> QED BY <1>1, <1>2, <1>3, LockLapsesSound, PinLockLapsesSound, RedisExpiresSound,
             CapsExpireSound
      DEF Next

\* The invariant holds in every reachable state.
LEMMA SoundAlways == Spec => []Sound
  BY SoundInit, SoundNext, PTL DEF Spec

\* No token and no cached version is newer than the account's row, and only roles that
\* exist administer (auth.service.ts, revocation.service.ts, role.service.ts).
THEOREM AccessTyped == Spec => []TypeOK
  <1>1. Sound => TypeOK
    BY DEF Sound
  <1> QED BY <1>1, SoundAlways, PTL

\* However the tries overlap, no count reaches its limit without its lock, but where the try
\* failed between the two (auth.service.ts login and pinLogin, discounts.service.ts
\* verifyApprovalPin).
THEOREM CountsAlwaysLock == Spec => []CountsLock
  <1>1. Sound => CountsLock
    BY DEF Sound, Whole
  <1> QED BY <1>1, SoundAlways, PTL

\* A revocation and an edit of a role take effect past both caches (revocation.service.ts,
\* permission.service.ts), for every number of calls that read and fill them.
THEOREM EditsAlwaysTakeEffect == Spec => []EditsTakeEffect
  <1>1. Sound => EditsTakeEffect
    <2> SUFFICES ASSUME Sound PROVE EditsTakeEffect
      OBVIOUS
    <2>1. EditsSeen
      BY DEF Sound, Whole
    <2>2. OldTokenRefused
      BY DEF Sound, CallsRight, Fresh, OldTokenRefused
    <2> QED BY <2>1, <2>2 DEF EditsTakeEffect
  <1> QED BY <1>1, SoundAlways, PTL

\* Only a sign-in that had read the row, or the clock, opens a lock unasked.
LEMMA HeldStep ==
  ASSUME Sound, [Next]_vars, acct.lock = "held", acct'.lock # "held"
  PROVE  "lock" \in raced' \/ \E c \in Calls : Unlock(c)
  <1>1. acct \in Rows
    BY AcctIs
  <1>2. ASSUME NEW c \in Calls, Start(c) PROVE Unlock(c)
    <2>1. acct'.lock = acct.lock \/ Lock(c) \/ Unlock(c)
      BY <1>1, <1>2 DEF Start, ReadForLogin, Revoke, Refresh, ReadRedis, ReadForPin, SetPin,
           ResetPassword, ResetPin, Administer, SetCaps, Delete, Assign, Can, account, Rows
    <2>2. Lock(c) => acct'.lock = "held"
      BY <1>1 DEF Lock, Administer, Rows
    <2> QED BY <2>1, <2>2
  <1>3. ASSUME NEW c \in Calls, Step(c) PROVE "lock" \in raced'
    <2>1. acct'.lock = acct.lock \/ LoginRight(c) \/ LockOut(c)
      BY <1>1, <1>3 DEF Step, LoginWrong, Evict, EvictFails, Warm, ReadTv, FillRedis, PinRight,
           PinWrong, LockPin, CountUsers, CountOtherAdmins, WriteRole, DropCaps, FillCaps,
           CallFails, account, Rows
    <2>2. at[c] \in {"password", "lockOut"} /\ raced' = raced
      BY <2>1 DEF LoginRight, LockOut, Done, GotoWith
    <2> QED BY <2>2 DEF Sound, CallsRight, Fresh
  <1>4. CASE LockLapses
    BY <1>4 DEF LockLapses
  <1>5. CASE PinLockLapses \/ RedisExpires \/ CapsExpire \/ UNCHANGED vars
    BY <1>1, <1>5 DEF PinLockLapses, RedisExpires, CapsExpire, vars, account, Rows
  <1> QED BY <1>2, <1>3, <1>4, <1>5 DEF Next

\* An administrator's lock is ended by an administrator (users.service.ts unlock), but for
\* sign-ins in flight with it, in every interleaving of any number of calls.
THEOREM HeldStays == Spec => HeldStaysHeld
  <1>1. Sound /\ [Next]_vars =>
          [acct.lock = "held" /\ acct'.lock # "held"
             => "lock" \in raced' \/ \E c \in Calls : Unlock(c)]_vars
    BY HeldStep
  <1> QED BY <1>1, SoundAlways, PTL DEF Spec, HeldStaysHeld

\* Only the write of a deletion removes a role, and the deletion has counted its users.
LEMMA DeletedStep ==
  ASSUME Sound, [Next]_vars, NEW r \in live \ live'
  PROVE  acct.role # r \/ "role" \in raced
  <1>1. ASSUME NEW c \in Calls, Start(c) PROVE live' = live
    BY <1>1 DEF Start, ReadForLogin, Revoke, Refresh, ReadRedis, ReadForPin, SetPin, Lock, Unlock,
         ResetPassword, ResetPin, Administer, SetCaps, Delete, Assign, Can, roles
  <1>2. ASSUME NEW c \in Calls, Step(c) PROVE live' = live \/ WriteRole(c)
    BY <1>2 DEF Step, LoginRight, LoginWrong, LockOut, Evict, EvictFails, Warm, ReadTv, FillRedis,
         PinRight, PinWrong, LockPin, CountUsers, CountOtherAdmins, DropCaps, FillCaps, CallFails,
         roles
  <1>3. ASSUME NEW c \in Calls, WriteRole(c) PROVE acct.role # r \/ "role" \in raced
    <2>1. at[c] = "write" /\ req[c].op = "delete" /\ r = req[c].role
      BY <1>3 DEF WriteRole
    <2> QED BY <2>1 DEF Sound, CallsRight, Fresh
  <1>4. CASE LockLapses \/ PinLockLapses \/ RedisExpires \/ CapsExpire \/ UNCHANGED vars
    BY <1>4 DEF LockLapses, PinLockLapses, RedisExpires, CapsExpire, vars, roles
  <1> QED BY <1>1, <1>2, <1>3, <1>4 DEF Next

\* Edits of roles leave somebody to administer and everybody a role, but for two edits in
\* flight together (role.service.ts setCapabilities and deleteRole).
THEOREM RolesAlwaysStand == Spec => RolesStand
  <1>1. Sound' => "role" \in raced' \/ admins' # {}
    BY DEF Sound, Whole, AdminLeft
  <1>2. Sound /\ [Next]_vars => \A r \in live \ live' : acct.role # r \/ "role" \in raced
    BY DeletedStep
  <1>3. Spec => AdminRemains
    <2>1. Sound' => ["role" \in raced' \/ admins' # {}]_vars
      BY <1>1
    <2> QED BY <2>1, SoundAlways, PTL DEF AdminRemains
  <1>4. Spec => HeldRoleStays
    <2>1. Sound /\ [Next]_vars => [\A r \in live \ live' : acct.role # r \/ "role" \in raced]_vars
      BY <1>2
    <2> QED BY <2>1, SoundAlways, PTL DEF Spec, HeldRoleStays
  <1> QED BY <1>3, <1>4 DEF RolesStand
=============================================================================
