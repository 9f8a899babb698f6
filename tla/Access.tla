------------------------------- MODULE Access -------------------------------
(***************************************************************************)
(* Who may act: one account with its sign-in lock, its two PINs and its    *)
(* token version, the Redis entry every request compares its token with,   *)
(* and the roles with their in-memory capability cache.                    *)
(*                                                                         *)
(* Handlers read a row, await an argon2 check or a second query, and then  *)
(* write by id: a call is in flight between the two.  raced remembers the  *)
(* topics on which two calls were in flight together.                      *)
(***************************************************************************)
EXTENDS Integers, FiniteSets

CONSTANTS
    MaxCalls,       \* bound: the calls of a behaviour, numbered as they arrive
    Desks,          \* bound: a behaviour takes RoleOps or one of these sets of operations
    Roles,          \* role codes; the account starts with one of them
    LoginTries,     \* MAX_LOGIN_FAILURES
    CashierTries,   \* MAX_PIN_FAILURES of the cashier's quick login
    ApprovalTries,  \* MAX_PIN_ATTEMPTS of the manager's approval
    None

ASSUME TriesType ==
    /\ {LoginTries, CashierTries, ApprovalTries} \subseteq Nat \ {0}
    /\ ApprovalTries <= CashierTries
ASSUME CallsType == MaxCalls \in Nat
ASSUME RolesExist == Roles # {}         \* the migrations seed them

Calls == 1 .. MaxCalls

VARIABLES
    acct,       \* the app_user row
    redis,      \* the cached token version, or None
    tokens,     \* versions (the tv claim) of the tokens issued so far
    live,       \* role codes that have a row
    admins,     \* of those, the ones granting chain:user:manage
    caps,       \* PermissionService.cache: what it says of that capability
    desk,       \* which of Desks this behaviour is about
    at, req,    \* the calls: where they are and what they were asked
    seen,       \* what a call read and will use later
    raced,      \* history: topics on which two calls were in flight together
    lapsed,     \* history: locks that ran out by the clock or were not set
                \* because their call failed, counts kept
    kept,       \* history: roles whose cached answer a failed deletion left
    quiet,      \* history: last version bumped while the Redis entry stayed
    since       \* history: <<acct.tv, quiet>> when a request arrived

account == <<acct, redis, tokens>>
roles == <<live, admins, caps>>
call == <<desk, at, req, seen>>
history == <<lapsed, kept, quiet, since>>
vars == <<account, roles, call, raced, history>>

-----------------------------------------------------------------------------
AccountRequests ==
    [op : {"login"}, right : BOOLEAN]
      \cup [op : {"pinLogin", "approve"}, right : BOOLEAN]
      \cup [op : {"request", "refresh"}, tv : tokens]
      \cup [op : {"revoke", "lock", "unlock", "resetPassword"}]
      \cup [op : {"resetPin", "setPin"}, pin : {"pinLogin", "approve"}]

RoleRequests ==
    [op : {"setCaps"}, role : Roles, admin : BOOLEAN]
      \cup [op : {"delete", "assign", "can"}, role : Roles]

RoleOps == {"setCaps", "delete", "assign", "can"}

\* What a call reads or writes that another may write under it.
Topics(r) ==
    CASE r.op \in {"login", "lock", "unlock"} -> {"lock", "tv"}
      [] r.op \in {"request", "revoke", "resetPassword"} -> {"tv"}
      [] r.op \in {"pinLogin", "approve", "resetPin", "setPin"} -> {"pin"}
      [] r.op \in {"setCaps", "delete"} -> {"role", "caps"}
      [] r.op = "assign" -> {"role"}
      [] r.op = "can" -> {"caps"}
      [] OTHER -> {}

Over == {"idle", "done", "passed"}
InFlight == {c \in Calls : at[c] \notin Over}

FirstRow(n, m, r) ==
    [fails |-> n, lock |-> "open", tv |-> 1, pinFails |-> m, pinLock |-> FALSE,
     pins |-> {"pinLogin", "approve"}, role |-> r]

\* Some tries have failed, or some entries are cached, before the first call.
InitAccount ==
    /\ desk \in Desks
    /\ \E n \in 0 .. LoginTries - 1, m \in 0 .. ApprovalTries - 1 :
          acct = FirstRow(n, m, CHOOSE r \in Roles : TRUE)
    /\ redis \in {None, 1}
    /\ admins = Roles
    /\ caps = [r \in Roles |-> None]

InitRoles ==
    /\ desk = RoleOps
    /\ \E r \in Roles : acct = FirstRow(0, 0, r)
    /\ redis = None
    /\ admins \in (SUBSET Roles) \ {{}}
    /\ \E known \in SUBSET Roles :
          caps = [r \in Roles |-> IF r \in known THEN r \in admins ELSE None]

Init ==
    /\ InitAccount \/ InitRoles
    /\ tokens = {1}
    /\ live = Roles
    /\ at = [c \in Calls |-> "idle"]
    /\ req = [c \in Calls |-> None]
    /\ seen = [c \in Calls |-> None]
    /\ raced = {} /\ lapsed = {} /\ kept = {} /\ quiet = 0
    /\ since = [c \in Calls |-> None]

\* Request r arrives as call c and goes to where; v is what it has read.
Arrive(c, r, where, v) ==
    /\ at[c] = "idle"
    /\ \A d \in 1 .. c - 1 : at[d] # "idle"
    /\ r.op \in desk
    /\ at' = [at EXCEPT ![c] = where]
    /\ req' = [req EXCEPT ![c] = IF where = "done" THEN None ELSE r]
    /\ seen' = [seen EXCEPT ![c] = IF where = "done" THEN None ELSE v]
    /\ raced' = raced \cup UNION {Topics(r) \cap Topics(req[d]) : d \in InFlight}
    /\ UNCHANGED desk

Goto(c, where) ==
    /\ at' = [at EXCEPT ![c] = where]
    /\ UNCHANGED <<desk, req, seen, raced>>

GotoWith(c, where, v) ==
    /\ at' = [at EXCEPT ![c] = where]
    /\ seen' = [seen EXCEPT ![c] = v]
    /\ UNCHANGED <<desk, req, raced>>

\* Call c answers and is forgotten.
Done(c) ==
    /\ at' = [at EXCEPT ![c] = "done"]
    /\ req' = [req EXCEPT ![c] = None]
    /\ seen' = [seen EXCEPT ![c] = None]
    /\ UNCHANGED <<desk, raced>>

GotoOrEnd(c, more, where) == IF more THEN Goto(c, where) ELSE Done(c)

-----------------------------------------------------------------------------
(* auth.service: the password                                              *)

\* Mutant: the lock is not looked at.
ReadForLoginAny(c) ==
    /\ \E r \in AccountRequests : r.op = "login" /\ Arrive(c, r, "password", acct.tv)
    /\ UNCHANGED <<account, roles, history>>

ReadForLogin(c) ==
    /\ \E r \in AccountRequests :
          /\ r.op = "login"
          /\ Arrive(c, r, IF acct.lock = "open" THEN "password" ELSE "done", acct.tv)
    /\ UNCHANGED <<account, roles, history>>

LoginRight(c) ==
    /\ at[c] = "password" /\ req[c].right
    /\ acct' = [acct EXCEPT !.fails = 0, !.lock = "open"]
    /\ tokens' = tokens \cup {seen[c]}
    /\ Done(c)
    /\ UNCHANGED <<redis, roles, history>>

\* Mutant: the count before this failure decides.
LoginWrongFromRead(c) ==
    /\ at[c] = "password" /\ ~req[c].right
    /\ acct' = [acct EXCEPT !.fails = @ + 1]
    /\ GotoOrEnd(c, acct.fails >= LoginTries, "lockOut")
    /\ UNCHANGED <<redis, tokens, roles, history>>

LoginWrong(c) ==
    /\ at[c] = "password" /\ ~req[c].right
    /\ acct' = [acct EXCEPT !.fails = @ + 1]
    /\ GotoOrEnd(c, acct'.fails >= LoginTries, "lockOut")
    /\ UNCHANGED <<redis, tokens, roles, history>>

LockOut(c) ==
    /\ at[c] = "lockOut"
    /\ acct' = [acct EXCEPT !.lock = "timed", !.tv = @ + 1]
    /\ lapsed' = lapsed \ {"lock"}
    /\ GotoWith(c, "evict", acct'.tv)
    /\ UNCHANGED <<redis, tokens, roles, kept, quiet, since>>

\* revokeAllSessions, and from "evict" on RevocationService.invalidateAndSet.
Revoke(c) ==
    /\ Arrive(c, [op |-> "revoke"], "evict", acct.tv + 1)
    /\ acct' = [acct EXCEPT !.tv = @ + 1]
    /\ UNCHANGED <<redis, tokens, roles, history>>

\* Mutant: the entry is only warmed, and the warming may fail.
EvictNothing(c) ==
    /\ at[c] = "evict"
    /\ quiet' = 0
    /\ Goto(c, "warm")
    /\ UNCHANGED <<account, roles, lapsed, kept, since>>

Evict(c) ==
    /\ at[c] = "evict"
    /\ redis' = None /\ quiet' = 0
    /\ Goto(c, "warm")
    /\ UNCHANGED <<acct, tokens, roles, lapsed, kept, since>>

EvictFails(c) ==
    /\ at[c] = "evict"
    /\ quiet' = seen[c]
    /\ Done(c)
    /\ UNCHANGED <<account, roles, lapsed, kept, since>>

Warm(c) ==
    /\ at[c] = "warm"
    /\ redis' \in {seen[c], redis}      \* a failed SETEX is only logged
    /\ Done(c)
    /\ UNCHANGED <<acct, tokens, roles, history>>

Refresh(c) ==
    /\ \E r \in AccountRequests :
          /\ r.op = "refresh"
          /\ Arrive(c, r, "done", None)
          /\ tokens' = IF acct.lock = "open" /\ r.tv >= acct.tv
                         THEN tokens \cup {acct.tv} ELSE tokens
    /\ UNCHANGED <<acct, redis, roles, history>>

-----------------------------------------------------------------------------
(* jwt-auth.guard and RevocationService.getCurrentTv                       *)

\* A Redis error is read as a miss.
ReadRedis(c) ==
    /\ \E r \in AccountRequests :
          /\ r.op = "request"
          /\ \/ redis # None /\ Arrive(c, r, IF r.tv < redis THEN "done" ELSE "passed", redis)
             \/ Arrive(c, r, "readTv", None)
    /\ since' = [since EXCEPT ![c] = <<acct.tv, quiet>>]
    /\ UNCHANGED <<account, roles, lapsed, kept, quiet>>

ReadTv(c) ==
    /\ at[c] = "readTv"
    /\ GotoWith(c, "fill", acct.tv)
    /\ UNCHANGED <<account, roles, history>>

FillRedis(c) ==
    /\ at[c] = "fill" /\ req[c].op = "request"
    /\ redis' \in {seen[c], redis}
    /\ GotoOrEnd(c, req[c].tv >= seen[c], "passed")
    /\ UNCHANGED <<acct, tokens, roles, history>>

-----------------------------------------------------------------------------
(* The PINs: auth.service pinLogin and discounts.service verifyApprovalPin *)
(* count their failures in one field, each against a limit of its own.     *)

Tries(r) == IF r.op = "pinLogin" THEN CashierTries ELSE ApprovalTries

MayTryPin(r) ==
    /\ r.op = "pinLogin" => acct.lock = "open"
    /\ ~acct.pinLock
    /\ r.op \in acct.pins

ReadForPin(c) ==
    /\ \E r \in AccountRequests :
          /\ r.op \in {"pinLogin", "approve"}
          /\ Arrive(c, r, IF MayTryPin(r) THEN "pin" ELSE "done", acct.tv)
    /\ UNCHANGED <<account, roles, history>>

\* An approval's reset rides the caller's transaction and may roll back with it.
PinRight(c) ==
    /\ at[c] = "pin" /\ req[c].right
    /\ \/ acct' = [acct EXCEPT !.pinFails = 0, !.pinLock = FALSE]
       \/ req[c].op = "approve" /\ UNCHANGED acct
    /\ tokens' = IF req[c].op = "pinLogin" THEN tokens \cup {seen[c]} ELSE tokens
    /\ Done(c)
    /\ UNCHANGED <<redis, roles, history>>

PinWrong(c) ==
    /\ at[c] = "pin" /\ ~req[c].right
    /\ acct' = [acct EXCEPT !.pinFails = @ + 1]
    /\ GotoOrEnd(c, acct'.pinFails >= Tries(req[c]), "lockPin")
    /\ UNCHANGED <<redis, tokens, roles, history>>

LockPin(c) ==
    /\ at[c] = "lockPin"
    /\ acct' = [acct EXCEPT !.pinLock = TRUE]
    /\ lapsed' = lapsed \ {"pin"}
    /\ Done(c)
    /\ UNCHANGED <<redis, tokens, roles, kept, quiet, since>>

SetPin(c) ==
    /\ \E r \in AccountRequests :
          /\ r.op = "setPin"
          /\ Arrive(c, r, "done", None)
          /\ acct' = [acct EXCEPT !.pins = @ \cup {r.pin}]
    /\ UNCHANGED <<redis, tokens, roles, history>>

-----------------------------------------------------------------------------
(* users.service: one UPDATE each, which never touches Redis.              *)

Administer(c, op, row) ==
    /\ Arrive(c, [op |-> op], "done", None)
    /\ acct' = row
    /\ quiet' = IF row.tv > acct.tv THEN row.tv ELSE quiet
    /\ UNCHANGED <<redis, tokens, roles, lapsed, kept, since>>

Lock(c) == Administer(c, "lock", [acct EXCEPT !.lock = "held", !.tv = @ + 1])
Unlock(c) == Administer(c, "unlock", [acct EXCEPT !.lock = "open", !.fails = 0])
ResetPassword(c) == Administer(c, "resetPassword", [acct EXCEPT !.tv = @ + 1])

ResetPin(c) ==
    /\ \E r \in AccountRequests :
          /\ r.op = "resetPin"
          /\ Arrive(c, r, "done", None)
          /\ acct' = [acct EXCEPT !.pins = @ \ {r.pin}, !.pinFails = 0, !.pinLock = FALSE]
    /\ UNCHANGED <<redis, tokens, roles, history>>

-----------------------------------------------------------------------------
(* role.service and permission.service                                     *)

\* Mutant: the role under edit is counted too.
OtherAdminsAll(r) == admins

OtherAdmins(r) == admins \ {r}

SetCaps(c) ==
    /\ \E r \in RoleRequests :
          /\ r.op = "setCaps"
          /\ Arrive(c, r, CASE r.role \notin live -> "done"
                            [] r.role \in admins /\ ~r.admin -> "count"
                            [] OTHER -> "write", None)
    /\ UNCHANGED <<account, roles, history>>

Delete(c) ==
    /\ \E r \in RoleRequests :
          /\ r.op = "delete"
          /\ Arrive(c, r, IF r.role \in live THEN "users" ELSE "done", r.role \in admins)
    /\ UNCHANGED <<account, roles, history>>

\* Mutant: a role is deleted whoever holds it.
CountUsersNone(c) ==
    /\ at[c] = "users"
    /\ Goto(c, IF seen[c] THEN "count" ELSE "write")
    /\ UNCHANGED <<account, roles, history>>

CountUsers(c) ==
    /\ at[c] = "users"
    /\ GotoOrEnd(c, acct.role # req[c].role, IF seen[c] THEN "count" ELSE "write")
    /\ UNCHANGED <<account, roles, history>>

CountOtherAdmins(c) ==
    /\ at[c] = "count"
    /\ GotoOrEnd(c, OtherAdmins(req[c].role) # {}, "write")
    /\ UNCHANGED <<account, roles, history>>

\* Mutant: a deleted role leaves its capability rows.
WriteRoleKeepingCaps(c) ==
    LET r == req[c] IN
    /\ at[c] = "write"
    /\ IF r.op = "delete"
         THEN live' = live \ {r.role} /\ UNCHANGED admins
         ELSE /\ admins' = IF r.role \in live /\ r.admin
                             THEN admins \cup {r.role} ELSE admins \ {r.role}
              /\ UNCHANGED live
    /\ GotoOrEnd(c, r.role \in live, "drop")
    /\ UNCHANGED <<account, caps, history>>

\* A role deleted under the call: the write fails, or changes nothing.
WriteRole(c) ==
    LET r == req[c] IN
    /\ at[c] = "write"
    /\ IF r.op = "delete"
         THEN live' = live \ {r.role} /\ admins' = admins \ {r.role}
         ELSE /\ admins' = IF r.role \in live /\ r.admin
                             THEN admins \cup {r.role} ELSE admins \ {r.role}
              /\ UNCHANGED live
    /\ GotoOrEnd(c, r.role \in live, "drop")
    /\ UNCHANGED <<account, caps, history>>

\* Mutant: the cache waits for its TTL.
DropCapsLater(c) ==
    /\ at[c] = "drop"
    /\ Done(c)
    /\ UNCHANGED <<account, roles, history>>

DropCaps(c) ==
    /\ at[c] = "drop"
    /\ caps' = [caps EXCEPT ![req[c].role] = None]
    /\ kept' = kept \ {req[c].role}
    /\ Done(c)
    /\ UNCHANGED <<account, live, admins, lapsed, quiet, since>>

\* users.create and users.update: the role is not looked up in the role table.
Assign(c) ==
    /\ \E r \in RoleRequests :
          /\ r.op = "assign"
          /\ Arrive(c, r, "done", None)
          /\ acct' = [acct EXCEPT !.role = r.role]
    /\ UNCHANGED <<redis, tokens, roles, history>>

Can(c) ==
    /\ \E r \in RoleRequests :
          /\ r.op = "can"
          /\ IF caps[r.role] # None THEN Arrive(c, r, "done", None)
               ELSE Arrive(c, r, "fill", r.role \in admins)
    /\ UNCHANGED <<account, roles, history>>

FillCaps(c) ==
    /\ at[c] = "fill" /\ req[c].op = "can"
    /\ caps' = [caps EXCEPT ![req[c].role] = seen[c]]
    /\ Done(c)
    /\ UNCHANGED <<account, live, admins, history>>

-----------------------------------------------------------------------------
(* Failures                                                                *)

\* A query or an audit insert throws: the call answers an error, and what it
\* wrote before stays.  Redis errors are caught (EvictFails, Warm, ReadRedis);
\* an edit's audit is in its transaction, a deletion's comes before the drop.
CallFails(c) ==
    /\ \/ at[c] \in {"password", "lockOut", "readTv", "pin", "lockPin",
                     "users", "count", "write"}
       \/ at[c] = "drop" /\ req[c].op = "delete"
    /\ lapsed' = lapsed \cup {l \in {"lock"} : at[c] = "lockOut"}
                        \cup {l \in {"pin"} : at[c] = "lockPin"}
    /\ kept' = kept \cup {r \in Roles : at[c] = "drop" /\ r = req[c].role /\ caps[r] # None}
    /\ Done(c)
    /\ UNCHANGED <<account, roles, quiet, since>>

-----------------------------------------------------------------------------
(* The clock                                                               *)

LockLapses ==
    /\ acct.lock = "timed"
    /\ acct' = [acct EXCEPT !.lock = "open"]
    /\ lapsed' = lapsed \cup {"lock"}
    /\ UNCHANGED <<redis, tokens, roles, call, raced, kept, quiet, since>>

PinLockLapses ==
    /\ acct.pinLock
    /\ acct' = [acct EXCEPT !.pinLock = FALSE]
    /\ lapsed' = lapsed \cup {"pin"}
    /\ UNCHANGED <<redis, tokens, roles, call, raced, kept, quiet, since>>

RedisExpires ==
    /\ redis # None
    /\ redis' = None /\ quiet' = 0
    /\ UNCHANGED <<acct, tokens, roles, call, raced, lapsed, kept, since>>

CapsExpire ==
    /\ \E r \in Roles :
          /\ caps[r] # None
          /\ caps' = [caps EXCEPT ![r] = None]
          /\ kept' = kept \ {r}
    /\ UNCHANGED <<account, live, admins, call, raced, lapsed, quiet, since>>

Start(c) ==
    \/ ReadForLogin(c) \/ Revoke(c) \/ Refresh(c) \/ ReadRedis(c) \/ ReadForPin(c)
    \/ SetPin(c) \/ Lock(c) \/ Unlock(c) \/ ResetPassword(c) \/ ResetPin(c)
    \/ SetCaps(c) \/ Delete(c) \/ Assign(c) \/ Can(c)

Step(c) ==
    \/ LoginRight(c) \/ LoginWrong(c) \/ LockOut(c)
    \/ Evict(c) \/ EvictFails(c) \/ Warm(c)
    \/ ReadTv(c) \/ FillRedis(c)
    \/ PinRight(c) \/ PinWrong(c) \/ LockPin(c)
    \/ CountUsers(c) \/ CountOtherAdmins(c) \/ WriteRole(c) \/ DropCaps(c) \/ FillCaps(c)
    \/ CallFails(c)

Next ==
    \/ \E c \in Calls : Start(c) \/ Step(c)
    \/ LockLapses \/ PinLockLapses \/ RedisExpires \/ CapsExpire

Spec == Init /\ [][Next]_vars

-----------------------------------------------------------------------------
(* Properties                                                              *)

\* Counters, versions and caches stay within what the columns can hold: no
\* token or cached version is newer than the row.
TypeOK ==
    /\ acct \in [fails : Nat, lock : {"open", "timed", "held"}, tv : Nat, pinFails : Nat,
                 pinLock : BOOLEAN, pins : SUBSET {"pinLogin", "approve"}, role : Roles]
    /\ tokens \subseteq 0 .. acct.tv
    /\ redis \in {None} \cup 0 .. acct.tv
    /\ admins \subseteq live /\ live \subseteq Roles
    /\ caps \in [Roles -> BOOLEAN \cup {None}]

\* However tries overlap, a count that has reached its limit means the account
\* is locked, is being locked, or has sat out a lock since, or that the call
\* failed between the count and the lock: no other try at the limit goes without
\* its lock (the count is shared by both PINs, so the larger limit).
CountsLock ==
    /\ acct.fails >= LoginTries =>
          \/ acct.lock # "open" \/ "lock" \in lapsed
          \/ \E c \in Calls : at[c] = "lockOut"
    /\ acct.pinFails >= CashierTries =>
          \/ acct.pinLock \/ "pin" \in lapsed
          \/ \E c \in Calls : at[c] = "lockPin"

\* An administrator's lock ends by an administrator's unlock, unless a sign-in
\* that read the row before the lock finishes after it.
HeldStaysHeld ==
    [][ acct.lock = "held" /\ acct'.lock # "held"
          => "lock" \in raced' \/ \E c \in Calls : Unlock(c) ]_vars

\* A token older than the row was when its request arrived is refused, unless
\* the bump left the Redis entry alone (users.service, or a failed DEL) or the
\* entry was written by a call in flight with the bump.
OldTokenRefused ==
    \A c \in Calls :
        at[c] = "passed" /\ req[c].tv < since[c][1] => "tv" \in raced \/ req[c].tv < since[c][2]

\* Some role can still manage users and roles, unless two edits of roles
\* overlapped (role.service.ts: the last administrator role is kept).
AdminRemains == [][ "role" \in raced' \/ admins' # {} ]_vars

\* A role is not deleted from under the account that holds it, unless it was
\* given to the account while the deletion counted its users.
HeldRoleStays ==
    [][ \A r \in live \ live' : acct.role # r \/ "role" \in raced ]_vars

\* Edits of roles leave somebody to administer and everybody a role.
RolesStand == AdminRemains /\ HeldRoleStays

\* After an edit of a role has answered, a check sees it: only a check in flight
\* with the edit can put the old answer back into the cache, and only a deletion
\* that fails before its drop can leave it there, for the cache's TTL.
EditsSeen ==
    \A r \in Roles :
        caps[r] \notin {None, (r \in admins)} =>
            "caps" \in raced \/ r \in kept \/ \E c \in Calls : at[c] = "drop" /\ req[c].role = r

\* A revocation and an edit of a role take effect past both caches.
EditsTakeEffect == OldTokenRefused /\ EditsSeen
=============================================================================
