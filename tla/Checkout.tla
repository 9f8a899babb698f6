------------------------------ MODULE Checkout ------------------------------
(***************************************************************************)
(* One terminal's counter sale: the cart, the pay dialog over it, and the  *)
(* two ways a sale is settled, a server bill or a row of the outbox.       *)
(*                                                                         *)
(*   sell-page.tsx          cart, clientUuid of the sale, success handler  *)
(*   pay-dialog.tsx         create, choose a method, confirm               *)
(*   draft-bill-store.ts    what a reload finds: the draft and the uuid    *)
(*   bills, payments, sync  the server, each call one atomic step here     *)
(*                          (BillLedger, Settlement and Outbox split them) *)
(*                                                                         *)
(* Closing the dialog unmounts it: its create is forgotten, but a          *)
(* confirmation in progress goes on and still reports its success to the   *)
(* page.  A request whose answer nobody waits for may be served later.     *)
(***************************************************************************)
EXTENDS Naturals, FiniteSets

CONSTANTS
    MaxSales,       \* bound: sales, named 1.. in the order of their uuids
    MaxItems,       \* bound: items in a cart; an item costs one unit
    MaxTasks,       \* bound: confirmations in progress at once
    MaxFaults,      \* bound: reloads, times offline, lost answers, full disks,
                    \*   dialogs closed half way, and bills cancelled or paid
                    \*   from elsewhere
    None

ASSUME BoundsType ==
    /\ {MaxSales, MaxItems, MaxTasks} \subseteq Nat \ {0}
    /\ MaxFaults \in Nat

Sales == 1 .. MaxSales
Carts == 1 .. MaxItems
Tasks == 1 .. MaxTasks

VARIABLES
    cart,       \* cartItems: how many, 0 when empty
    draft,      \* the draft row in IndexedDB
    uuid,       \* clientUuid in localStorage: the sale on the screen
    dialog,     \* the pay dialog, Closed when not mounted
    tasks,      \* handleConfirmPayment calls in progress
    online,     \* isOnline
    late,       \* requests nobody waits for
    bills,      \* the server's bill of a sale, None when there is none
    outbox,     \* the outbox row of a sale, None when there is none
    faults,     \* how many so far
    settled,    \* history: what the terminal reported as settled
    sent,       \* history: sales whose create was sent
    edited,     \* history: sales whose cart changed after it was sent or queued
    overtaken   \* history: sales on the screen when an older one succeeded

page    == <<cart, draft, uuid, dialog>>
server  == <<bills, outbox>>
history == <<settled, sent, edited, overtaken>>
vars    == <<page, tasks, online, late, server, faults, history>>

-----------------------------------------------------------------------------
Closed == [step |-> "closed", amount |-> 0, offline |-> FALSE, reply |-> None]
Show(step, amount, offline, reply) ==
    [step |-> step, amount |-> amount, offline |-> offline, reply |-> reply]

InProgress == {n \in Tasks : tasks[n] # None}

\* A create, a confirmation or a row already carries the cart of sale u.
Carried(u) ==
    \/ u \in sent
    \/ u \in Sales /\ outbox[u] # None
    \/ \E n \in InProgress : tasks[n].sale = u

Init ==
    /\ cart = 0 /\ draft = 0
    /\ uuid = 1
    /\ dialog = Closed
    /\ tasks = [n \in Tasks |-> None]
    /\ online \in BOOLEAN
    /\ late = {}
    /\ bills = [u \in Sales |-> None]
    /\ outbox = [u \in Sales |-> None]
    /\ faults = 0
    /\ settled = {} /\ sent = {} /\ edited = {} /\ overtaken = {}

MayFault == faults < MaxFaults
Fault == MayFault /\ faults' = faults + 1

-----------------------------------------------------------------------------
(***************************************************************************)
(* The page.                                                               *)
(***************************************************************************)

\* addToCart; nothing is ever taken out.  The cashier's taps are slower than the
\* draft's writes, a reload may not be.
AddToCart ==
    /\ dialog = Closed
    /\ uuid \in Sales /\ cart < MaxItems
    /\ draft = cart
    /\ cart' = cart + 1
    /\ edited' = IF cart > 0 /\ Carried(uuid) THEN edited \cup {uuid} ELSE edited
    /\ UNCHANGED <<draft, uuid, dialog, tasks, online, late, server, faults,
                   settled, sent, overtaken>>

\* The effect on cartItems, or clearDraft, has reached IndexedDB.
SaveDraft ==
    /\ draft # cart
    /\ draft' = cart
    /\ UNCHANGED <<cart, uuid, dialog, tasks, online, late, server, faults, history>>

\* The dialog leaves the screen; a create it waits for may still be served.
Forget ==
    IF dialog.step = "creating" /\ dialog.reply = None
    THEN {[op |-> "create", sale |-> uuid, amount |-> cart]} ELSE {}

Unshown(t) == IF t = None THEN None ELSE [t EXCEPT !.shown = FALSE]

\* Mutated form: closing the dialog also drops the clientUuid.
CloseForgetsSale ==
    /\ dialog # Closed
    /\ IF dialog.step = "error" THEN UNCHANGED faults ELSE Fault
    /\ dialog' = Closed
    /\ uuid' = IF uuid \in Sales THEN uuid + 1 ELSE uuid
    /\ late' = late \cup Forget
    /\ tasks' = [n \in Tasks |-> Unshown(tasks[n])]
    /\ UNCHANGED <<cart, draft, online, server, history>>

\* The close button, or the Escape key at any moment.
Close ==
    /\ dialog # Closed
    /\ IF dialog.step = "error" THEN UNCHANGED faults ELSE Fault
    /\ dialog' = Closed
    /\ late' = late \cup Forget
    /\ tasks' = [n \in Tasks |-> Unshown(tasks[n])]
    /\ UNCHANGED <<cart, draft, uuid, online, server, history>>

Unanswered ==
    {[op |-> "pay", sale |-> tasks[n].sale, amount |-> 0] :
        n \in {m \in InProgress : tasks[m].via = "net" /\ tasks[m].at = "sent"}}

\* Reload or power cut: what is in memory is gone.
Reload ==
    /\ Fault
    /\ dialog' = Closed
    /\ cart' = draft
    /\ tasks' = [n \in Tasks |-> None]
    /\ late' = late \cup Forget \cup Unanswered
    /\ edited' = IF cart # draft /\ Carried(uuid) THEN edited \cup {uuid} ELSE edited
    /\ UNCHANGED <<draft, uuid, online, server, settled, sent, overtaken>>

GoOnline ==
    /\ ~online
    /\ online' = TRUE
    /\ UNCHANGED <<page, tasks, late, server, faults, history>>

GoOffline ==
    /\ online
    /\ Fault
    /\ online' = FALSE
    /\ UNCHANGED <<page, tasks, late, server, history>>

(***************************************************************************)
(* handlePaymentSuccess, for the sale that was confirmed as task or poll:  *)
(* it empties the cart that is there now and takes a fresh clientUuid.     *)
(***************************************************************************)
\* Mutated form: the clientUuid is kept.
SettleSameSale(sale, amount, of, via) ==
    /\ settled' = settled \cup {[sale |-> sale, amount |-> amount, cart |-> of, via |-> via]}
    /\ cart' = 0
    /\ dialog' = Closed
    /\ overtaken' = IF sale # uuid THEN overtaken \cup {uuid} ELSE overtaken
    /\ late' = late \cup Forget
    /\ UNCHANGED <<draft, uuid, online, faults, sent, edited>>

Settle(sale, amount, of, via) ==
    /\ settled' = settled \cup {[sale |-> sale, amount |-> amount, cart |-> of, via |-> via]}
    /\ cart' = 0
    /\ uuid' = IF uuid \in Sales THEN uuid + 1 ELSE uuid
    /\ dialog' = Closed
    /\ overtaken' = IF sale # uuid THEN overtaken \cup {uuid} ELSE overtaken
    /\ late' = late \cup Forget
    /\ UNCHANGED <<draft, online, faults, sent, edited>>

-----------------------------------------------------------------------------
(***************************************************************************)
(* The dialog opens: the cart is posted, or offline it becomes the bill,   *)
(* unless the device's clock is known to be wrong.                         *)
(***************************************************************************)
\* Mutated form: an empty cart can be paid for.
CanOpenEmpty == dialog = Closed /\ uuid \in Sales /\ draft = cart
CanOpen == dialog = Closed /\ uuid \in Sales /\ cart > 0 /\ draft = cart

OpenOnline ==
    /\ CanOpen /\ online
    /\ dialog' = Show("creating", 0, FALSE, None)
    /\ sent' = sent \cup {uuid}
    /\ UNCHANGED <<cart, draft, uuid, tasks, online, late, server, faults,
                   settled, edited, overtaken>>

OpenOffline ==
    /\ CanOpen /\ ~online
    /\ \/ dialog' = Show("choose", cart, TRUE, None)
       \/ dialog' = Show("error", 0, FALSE, None)
    /\ UNCHANGED <<cart, draft, uuid, tasks, online, late, server, faults, history>>

Bill(amount, paid) == [amount |-> amount, status |-> "COMPLETED", paid |-> paid]

\* createBill: the existing bill of the clientUuid, whatever it holds, or a new one.
ServeCreate ==
    /\ dialog.step = "creating" /\ dialog.reply = None
    /\ bills' = IF bills[uuid] = None THEN [bills EXCEPT ![uuid] = Bill(cart, FALSE)]
                                      ELSE bills
    /\ dialog' = [dialog EXCEPT !.reply = bills'[uuid].amount]
    /\ UNCHANGED <<cart, draft, uuid, tasks, online, late, outbox, faults, history>>

\* Mutated form: the dialog shows the total of the cart.
CreateAnsweredByCart ==
    /\ dialog.step = "creating" /\ dialog.reply # None
    /\ dialog' = Show("choose", cart, FALSE, None)
    /\ UNCHANGED <<cart, draft, uuid, tasks, online, late, server, faults, history>>

CreateAnswered ==
    /\ dialog.step = "creating" /\ dialog.reply # None
    /\ dialog' = Show("choose", dialog.reply, FALSE, None)
    /\ UNCHANGED <<cart, draft, uuid, tasks, online, late, server, faults, history>>

\* The fetch fails, offline or for another reason, before or after it was served.
CreateFails ==
    /\ dialog.step = "creating"
    /\ IF online THEN Fault ELSE UNCHANGED faults
    /\ dialog' = Show("error", 0, FALSE, None)
    /\ late' = late \cup Forget
    /\ UNCHANGED <<cart, draft, uuid, tasks, online, server, history>>

-----------------------------------------------------------------------------
(***************************************************************************)
(* handleConfirmPayment.                                                   *)
(***************************************************************************)
Confirm(n) ==
    /\ dialog.step = "choose"
    /\ n \notin InProgress /\ \A m \in 1 .. n - 1 : m \in InProgress
    /\ tasks' = [tasks EXCEPT ![n] =
          [sale |-> uuid, amount |-> dialog.amount, cart |-> cart, at |-> "sent",
           via |-> IF dialog.offline THEN "box" ELSE "net", shown |-> TRUE]]
    /\ dialog' = [dialog EXCEPT !.step = "paying"]
    /\ UNCHANGED <<cart, draft, uuid, online, late, server, faults, history>>

\* The dialog says what went wrong, if it is the one that asked.
ShowError(n) ==
    dialog' = IF tasks[n].shown THEN Show("error", 0, FALSE, None) ELSE dialog

AtTask(n, via, at) ==
    n \in InProgress /\ tasks[n].via = via /\ tasks[n].at = at

\* Mutated form: whatever addToOutbox throws is taken for a duplicate.
StoreMaybe(n) ==
    /\ AtTask(n, "box", "sent")
    /\ tasks' = [tasks EXCEPT ![n].at = "done"]
    /\ UNCHANGED <<page, online, late, server, faults, history>>

\* addToOutbox; a row of the same clientUuid is there already: ConstraintError,
\* the sale counts as settled.
Store(n) ==
    /\ AtTask(n, "box", "sent")
    /\ tasks' = [tasks EXCEPT ![n].at = "done"]
    /\ outbox' = IF outbox[tasks[n].sale] # None THEN outbox
                 ELSE [outbox EXCEPT ![tasks[n].sale] =
                          [amount |-> tasks[n].cart, synced |-> FALSE]]
    /\ UNCHANGED <<page, online, late, bills, faults, history>>

StoreFails(n) ==
    /\ AtTask(n, "box", "sent")
    /\ Fault
    /\ ShowError(n)
    /\ tasks' = [tasks EXCEPT ![n] = None]
    /\ UNCHANGED <<cart, draft, uuid, online, late, server, history>>

\* Mutated form: a 409 is an error like any other.
ServePayStrict(n) ==
    /\ AtTask(n, "net", "sent")
    /\ LET u == tasks[n].sale
       IN  IF bills[u] = Bill(tasks[n].amount, FALSE)
           THEN /\ bills' = [bills EXCEPT ![u].paid = TRUE]
                /\ tasks' = [tasks EXCEPT ![n].at = "done"]
           ELSE /\ tasks' = [tasks EXCEPT ![n].at = "refused"]
                /\ UNCHANGED bills
    /\ UNCHANGED <<page, online, late, outbox, faults, history>>

\* addPayments: 400 unless COMPLETED, 409 when paid, 400 unless the sum is the
\* total.  The POS takes 409 for a success.
ServePay(n) ==
    /\ AtTask(n, "net", "sent")
    /\ LET u == tasks[n].sale
       IN  IF /\ bills[u].status = "COMPLETED"
              /\ bills[u].paid \/ tasks[n].amount = bills[u].amount
           THEN /\ bills' = [bills EXCEPT ![u].paid = TRUE]
                /\ tasks' = [tasks EXCEPT ![n].at = "done"]
           ELSE /\ tasks' = [tasks EXCEPT ![n].at = "refused"]
                /\ UNCHANGED bills
    /\ UNCHANGED <<page, online, late, outbox, faults, history>>

\* Success, whether or not the dialog that asked is still on the screen.
Succeed(n) ==
    /\ n \in InProgress /\ tasks[n].at = "done"
    /\ Settle(tasks[n].sale, tasks[n].amount, tasks[n].cart, tasks[n].via)
    /\ tasks' = [m \in Tasks |-> IF m = n THEN None ELSE Unshown(tasks[m])]
    /\ UNCHANGED server

Refused(n) ==
    /\ AtTask(n, "net", "refused")
    /\ ShowError(n)
    /\ tasks' = [tasks EXCEPT ![n] = None]
    /\ UNCHANGED <<cart, draft, uuid, online, late, server, faults, history>>

PayFails(n) ==
    /\ n \in InProgress /\ tasks[n].via = "net"
    /\ IF online THEN Fault ELSE UNCHANGED faults
    /\ ShowError(n)
    /\ late' = IF tasks[n].at # "sent" THEN late ELSE late \cup
          {[op |-> "pay", sale |-> tasks[n].sale, amount |-> 0]}
    /\ tasks' = [tasks EXCEPT ![n] = None]
    /\ UNCHANGED <<cart, draft, uuid, online, server, history>>

\* The VietQR poll finds paidAt set.
Poll ==
    /\ dialog.step = "choose" /\ ~dialog.offline /\ online
    /\ bills[uuid].paid
    /\ Settle(uuid, dialog.amount, cart, "net")
    /\ tasks' = [n \in Tasks |-> Unshown(tasks[n])]
    /\ UNCHANGED server

-----------------------------------------------------------------------------
(***************************************************************************)
(* The server, and what reaches it from elsewhere.                         *)
(***************************************************************************)

\* A request nobody waits for is served, or never arrives.
ServeLate(r) ==
    /\ r \in late
    /\ late' = late \ {r}
    /\ \/ UNCHANGED bills
       \/ /\ r.op = "create" /\ bills[r.sale] = None
          /\ bills' = [bills EXCEPT ![r.sale] = Bill(r.amount, FALSE)]
       \/ /\ r.op = "pay" /\ bills[r.sale].status = "COMPLETED"
          /\ bills' = [bills EXCEPT ![r.sale].paid = TRUE]
    /\ UNCHANGED <<page, tasks, online, outbox, faults, history>>

\* Mutated form: the payments of a synced bill are not recorded.
SyncUnpaid(u) ==
    /\ online /\ outbox[u] # None /\ ~outbox[u].synced
    /\ outbox' = [outbox EXCEPT ![u].synced = TRUE]
    /\ bills' = IF bills[u] # None THEN bills
                ELSE [bills EXCEPT ![u] = Bill(outbox[u].amount, FALSE)]
    /\ UNCHANGED <<page, tasks, online, late, faults, history>>

\* processBill: the bill the clientUuid already has is the answer, payments
\* included or not; else the bill is created with its payments.
Sync(u) ==
    /\ online /\ outbox[u] # None /\ ~outbox[u].synced
    /\ outbox' = [outbox EXCEPT ![u].synced = TRUE]
    /\ bills' = IF bills[u] # None THEN bills
                ELSE [bills EXCEPT ![u] = Bill(outbox[u].amount, TRUE)]
    /\ UNCHANGED <<page, tasks, online, late, faults, history>>

Billed == {u \in Sales : bills[u] # None}

\* The shift's list of bills, here or in the office: cancelBill.
CancelBill(u) ==
    /\ u \in Billed /\ bills[u].status = "COMPLETED"
    /\ Fault
    /\ bills' = [bills EXCEPT ![u].status = "CANCELLED"]
    /\ UNCHANGED <<page, tasks, online, late, outbox, history>>

\* A bank transfer confirms the bill.
TransferPays(u) ==
    /\ u \in Billed /\ bills[u].status = "COMPLETED" /\ ~bills[u].paid
    /\ Fault
    /\ bills' = [bills EXCEPT ![u].paid = TRUE]
    /\ UNCHANGED <<page, tasks, online, late, outbox, history>>

-----------------------------------------------------------------------------
Open == OpenOnline \/ OpenOffline

Answer(n) ==
    \/ Store(n) \/ StoreFails(n)
    \/ ServePay(n) \/ Succeed(n) \/ Refused(n) \/ PayFails(n)

Next ==
    \/ AddToCart \/ SaveDraft \/ Close \/ Reload \/ GoOnline \/ GoOffline
    \/ Open \/ ServeCreate \/ CreateAnswered \/ CreateFails \/ Poll
    \/ \E n \in Tasks : Confirm(n) \/ Answer(n)
    \/ \E r \in late : ServeLate(r)
    \/ \E u \in Sales : Sync(u) \/ CancelBill(u) \/ TransferPays(u)

Spec == Init /\ [][Next]_vars

\* The browser runs its continuations, a fetch ends one way or the other and the
\* network comes back; and a cashier keeps trying to settle what is in the cart.
Fairness ==
    /\ WF_vars(SaveDraft) /\ WF_vars(GoOnline)
    /\ WF_vars(ServeCreate \/ CreateAnswered \/ CreateFails)
    /\ WF_vars(Open) /\ WF_vars(dialog.step = "error" /\ Close)
    /\ \A n \in Tasks : WF_vars(Confirm(n)) /\ WF_vars(Answer(n))

FairSpec == Spec /\ Fairness

-----------------------------------------------------------------------------
BillRows == [amount : Carts, status : {"COMPLETED", "CANCELLED"}, paid : BOOLEAN]
RowsOfBox == [amount : Carts, synced : BOOLEAN]
TaskRows ==
    [sale : Sales, amount : Carts, cart : Carts, via : {"net", "box"},
     at : {"sent", "done", "refused"}, shown : BOOLEAN]

\* A row or a task that is not there is none, and no amount is awaited.
ASSUME NoneIsNoRow == None \notin Nat \cup BillRows \cup RowsOfBox \cup TaskRows

TypeOK ==
    /\ cart \in 0 .. MaxItems /\ draft \in 0 .. MaxItems
    /\ uuid \in 1 .. MaxSales + 1
    /\ dialog \in [step : {"closed", "creating", "choose", "paying", "error"},
                   amount : 0 .. MaxItems, offline : BOOLEAN, reply : Carts \cup {None}]
    /\ tasks \in [Tasks -> TaskRows \cup {None}]
    /\ online \in BOOLEAN
    /\ late \subseteq [op : {"create", "pay"}, sale : Sales, amount : 0 .. MaxItems]
    /\ bills \in [Sales -> BillRows \cup {None}]
    /\ outbox \in [Sales -> RowsOfBox \cup {None}]
    /\ faults \in 0 .. MaxFaults

\* What the terminal reports as settled is backed: by a paid bill on the server,
\* or by a row of the outbox (pay-dialog.tsx: a 409 and a ConstraintError both
\* mean that an earlier try settled it).
SettledIsBacked ==
    \A r \in settled :
        IF r.via = "net" THEN bills[r.sale] # None /\ bills[r.sale].paid
                         ELSE outbox[r.sale] # None

\* The guest pays for what is in the cart and the books say the same, unless the
\* cart changed after it was sent or queued: then the clientUuid brings back the
\* bill of the old cart.
BooksMatchTheCart ==
    \A r \in settled : r.sale \notin edited =>
        /\ r.amount = r.cart
        /\ bills[r.sale] # None => bills[r.sale].amount = r.cart
        /\ outbox[r.sale] # None => outbox[r.sale].amount = r.cart

\* Edited or not, an amount taken online is the total of the server's bill (the
\* dialog shows the server's total, never its own).
AmountIsTheBill ==
    \A r \in settled : r.via = "net" => bills[r.sale].amount = r.amount

\* An offline sale is paid on the server once it is synced (sync.service.ts: "the
\* sale was settled at creation"), unless its create had been sent online before.
SyncedSaleIsPaid ==
    \A r \in settled : r.via = "box" /\ outbox[r.sale].synced =>
        bills[r.sale].paid \/ r.sale \in sent

\* A sale the terminal reports as settled is in the books, paid, for what it took.
SettledIsInTheBooks ==
    SettledIsBacked /\ BooksMatchTheCart /\ AmountIsTheBill /\ SyncedSaleIsPaid

\* A bill nobody paid is the one of the sale on the screen: the terminal leaves a
\* sale only when it is settled.  Two things leave one behind: a sale that was
\* sent online and then settled offline, and the success of an older sale that
\* arrives while this one is on the screen.
UnpaidIsOnScreen ==
    \A u \in Billed :
        bills[u].status = "COMPLETED" /\ ~bills[u].paid =>
            \/ u = uuid
            \/ u \in sent /\ outbox[u] # None
            \/ u \in overtaken

\* A cashier who keeps trying settles the sale, whatever was lost before: the
\* create is idempotent, an offline sale needs no server and a 409 means that an
\* earlier try was paid.  A bill cancelled meanwhile stops it for good, for its
\* clientUuid brings it back and is only dropped by a success; a reload may lose
\* a cart that was not saved yet.
EverySaleSettles ==
    \A u \in Sales :
        uuid = u /\ cart > 0 ~>
            \/ uuid # u \/ cart = 0
            \/ bills[u] # None /\ bills[u].status = "CANCELLED"
=============================================================================
