-------------------------- MODULE Checkout_proofs --------------------------
(***************************************************************************)
(* Machine-checked proofs about Checkout, for every number of sales,       *)
(* items, confirmations in progress and faults.                            *)
(***************************************************************************)
EXTENDS Checkout, Integers, TLAPS

\* The pay dialog is about the cart on the screen; once the create was answered
\* it shows the amount of the bill, offline that of the cart.
ScreenKnown ==
    /\ dialog.step = "closed" => dialog = Closed
    /\ dialog # Closed => uuid \in Sales /\ cart \in Carts
    /\ dialog.step \notin {"choose", "paying"} => ~dialog.offline
    /\ dialog.step = "creating" => uuid \in sent
    /\ dialog.step = "creating" /\ dialog.reply # None =>
          bills[uuid] # None /\ bills[uuid].amount = dialog.reply
    /\ dialog.step = "choose" => dialog.amount \in Carts
    /\ dialog.step \in {"choose", "paying"} =>
          IF dialog.offline THEN dialog.amount = cart
          ELSE uuid \in sent /\ bills[uuid] # None /\ bills[uuid].amount = dialog.amount

\* A confirmation in progress is about a sale that is or was on the screen.
TasksKnown ==
    /\ \A n \in InProgress :
          /\ tasks[n].sale <= uuid
          /\ tasks[n].shown => dialog.step = "paying"
          /\ tasks[n].via = "net" =>
                /\ tasks[n].sale \in sent /\ bills[tasks[n].sale] # None
                /\ bills[tasks[n].sale].amount = tasks[n].amount
                /\ tasks[n].at = "done" => bills[tasks[n].sale].paid
          /\ tasks[n].via = "box" =>
                /\ tasks[n].amount = tasks[n].cart /\ tasks[n].at # "refused"
                /\ tasks[n].at = "done" => outbox[tasks[n].sale] # None
    /\ \A n, m \in InProgress : tasks[n].shown /\ tasks[m].shown => n = m

\* A request nobody waits for was sent from the screen.
LateKnown ==
    \A r \in late :
        /\ r.op = "create" => r.sale \in sent /\ r.amount \in Carts
        /\ r.op = "pay" => bills[r.sale] # None

\* Sales come to the server from a create that was sent, or from the outbox, and
\* there with their payment; none is ahead of the screen.
BooksKnown ==
    /\ sent \subseteq Sales
    /\ \A u \in Sales :
          /\ u \in sent \/ outbox[u] # None => u <= uuid
          /\ bills[u] # None =>
                \/ u \in sent
                \/ bills[u].paid /\ outbox[u] # None /\ outbox[u].synced
          /\ outbox[u] # None /\ outbox[u].synced =>
                bills[u] # None /\ (bills[u].paid \/ u \in sent)
          /\ u < uuid =>
                \/ u \in overtaken
                \/ outbox[u] # None
                \/ bills[u] # None /\ bills[u].paid

\* What was reported as settled.
SettledKnown ==
    \A r \in settled :
        /\ r.sale \in Sales /\ r.sale <= uuid /\ r.cart \in Carts /\ r.via \in {"net", "box"}
        /\ r.via = "net" =>
              /\ r.sale \in sent /\ bills[r.sale] # None
              /\ bills[r.sale].paid /\ bills[r.sale].amount = r.amount
        /\ r.via = "box" => r.amount = r.cart /\ outbox[r.sale] # None

\* Whatever was written about sale u bears amount a.
Bears(u, a) ==
    \/ bills[u] # None /\ bills[u].amount = a
    \/ outbox[u] # None /\ outbox[u].amount = a
    \/ \E n \in InProgress : tasks[n].sale = u /\ tasks[n].cart = a
    \/ \E r \in late : r.op = "create" /\ r.sale = u /\ r.amount = a
    \/ \E r \in settled : r.sale = u /\ r.cart = a

\* What was written about a sale that was not edited bears one amount, that of
\* the cart while the sale is on the screen.
OneCart ==
    \A u \in Sales \ edited : \A a, b \in Carts : Bears(u, a) /\ Bears(u, b) =>
        a = b /\ (u = uuid => a = cart)

Known == ScreenKnown /\ TasksKnown /\ LateKnown /\ BooksKnown /\ SettledKnown

-----------------------------------------------------------------------------
(***************************************************************************)
(* What the steps do to a bill, to a confirmation and to the requests      *)
(* nobody waits for.                                                       *)
(***************************************************************************)
\* No bill and no row is ever taken back, none changes its amount, and none that
\* is paid or synced becomes unpaid or unsynced.
BooksGrow ==
    /\ \A u \in Sales : bills[u] # None =>
          /\ bills'[u] # None /\ bills'[u].amount = bills[u].amount
          /\ bills[u].paid => bills'[u].paid
    /\ \A u \in Sales : outbox[u] # None =>
          /\ outbox'[u] # None /\ outbox'[u].amount = outbox[u].amount
          /\ outbox[u].synced => outbox'[u].synced

\* A bill is paid: it is the same bill, and the others are left alone.
LEMMA PaidIs ==
  ASSUME TypeOK, NEW u \in Sales, bills[u] # None,
         bills' = [bills EXCEPT ![u].paid = TRUE]
  PROVE  /\ bills' \in [Sales -> BillRows \cup {None}]
         /\ bills'[u] # None /\ bills'[u].amount = bills[u].amount /\ bills'[u].paid
         /\ \A v \in Sales : v # u => bills'[v] = bills[v]
  <1>1. PICK row \in BillRows : row = bills[u]
    BY DEF TypeOK
  <1>2. [row EXCEPT !.paid = TRUE] \in BillRows
    BY DEF BillRows
  <1>3. bills'[u] = [row EXCEPT !.paid = TRUE]
    BY <1>1 DEF TypeOK
  <1> QED BY <1>1, <1>2, <1>3, NoneIsNoRow DEF TypeOK, BillRows

\* A bill is cancelled: it keeps its amount and its payment.
LEMMA CancelledIs ==
  ASSUME TypeOK, NEW u \in Sales, bills[u] # None,
         bills' = [bills EXCEPT ![u].status = "CANCELLED"]
  PROVE  /\ bills' \in [Sales -> BillRows \cup {None}]
         /\ bills'[u] # None /\ bills'[u].amount = bills[u].amount
         /\ bills'[u].paid = bills[u].paid
         /\ \A v \in Sales : v # u => bills'[v] = bills[v]
  <1>1. PICK row \in BillRows : row = bills[u]
    BY DEF TypeOK
  <1>2. [row EXCEPT !.status = "CANCELLED"] \in BillRows
    BY DEF BillRows
  <1>3. bills'[u] = [row EXCEPT !.status = "CANCELLED"]
    BY <1>1 DEF TypeOK
  <1> QED BY <1>1, <1>2, <1>3, NoneIsNoRow DEF TypeOK, BillRows

\* A bill is made where there was none.
LEMMA BilledIs ==
  ASSUME TypeOK, NEW u \in Sales, NEW a \in Carts, NEW p \in BOOLEAN,
         bills[u] = None, bills' = [bills EXCEPT ![u] = Bill(a, p)]
  PROVE  /\ bills' \in [Sales -> BillRows \cup {None}]
         /\ bills'[u] # None /\ bills'[u].amount = a /\ bills'[u].paid = p
         /\ \A v \in Sales : v # u => bills'[v] = bills[v]
  <1>1. Bill(a, p) \in BillRows
    BY DEF Bill, BillRows
  <1> QED BY <1>1, NoneIsNoRow DEF TypeOK, Bill

\* A row of the outbox is synced: it is the same row, and the others are left alone.
LEMMA SyncedIs ==
  ASSUME TypeOK, NEW u \in Sales, outbox[u] # None,
         outbox' = [outbox EXCEPT ![u].synced = TRUE]
  PROVE  /\ outbox' \in [Sales -> RowsOfBox \cup {None}]
         /\ outbox'[u] # None /\ outbox'[u].amount = outbox[u].amount /\ outbox'[u].synced
         /\ \A v \in Sales : v # u => outbox'[v] = outbox[v]
  <1>1. PICK row \in RowsOfBox : row = outbox[u]
    BY DEF TypeOK
  <1>2. [row EXCEPT !.synced = TRUE] \in RowsOfBox
    BY DEF RowsOfBox
  <1>3. outbox'[u] = [row EXCEPT !.synced = TRUE]
    BY <1>1 DEF TypeOK
  <1> QED BY <1>1, <1>2, <1>3, NoneIsNoRow DEF TypeOK, RowsOfBox

\* A confirmation comes to `at`: it is the same confirmation, and the others are
\* left alone.
LEMMA GoesOnIs ==
  ASSUME TypeOK, NEW n \in InProgress, NEW at \in {"done", "refused"},
         tasks' = [tasks EXCEPT ![n].at = at]
  PROVE  /\ tasks' \in [Tasks -> TaskRows \cup {None}]
         /\ InProgress' = InProgress
         /\ tasks'[n].sale = tasks[n].sale /\ tasks'[n].amount = tasks[n].amount
         /\ tasks'[n].cart = tasks[n].cart /\ tasks'[n].via = tasks[n].via
         /\ tasks'[n].shown = tasks[n].shown /\ tasks'[n].at = at
         /\ \A m \in Tasks : m # n => tasks'[m] = tasks[m]
  <1>1. PICK row \in TaskRows : row = tasks[n] /\ n \in Tasks
    BY DEF TypeOK, InProgress
  <1>2. [row EXCEPT !.at = at] \in TaskRows
    BY DEF TaskRows
  <1>3. tasks'[n] = [row EXCEPT !.at = at]
    BY <1>1 DEF TypeOK
  <1>4. tasks' \in [Tasks -> TaskRows \cup {None}] /\ tasks'[n] # None
    BY <1>1, <1>2, <1>3, NoneIsNoRow DEF TypeOK
  <1>5. InProgress' = InProgress
    BY <1>1, <1>4 DEF InProgress, TypeOK
  <1> QED BY <1>1, <1>3, <1>4, <1>5 DEF TypeOK, TaskRows

\* A confirmation whose dialog left the screen is the same, no longer shown.
LEMMA UnshownIs ==
  ASSUME TypeOK, NEW n \in Tasks
  PROVE  /\ Unshown(tasks[n]) \in TaskRows \cup {None}
         /\ (Unshown(tasks[n]) = None) <=> (tasks[n] = None)
         /\ tasks[n] # None =>
               /\ Unshown(tasks[n]).sale = tasks[n].sale
               /\ Unshown(tasks[n]).amount = tasks[n].amount
               /\ Unshown(tasks[n]).cart = tasks[n].cart
               /\ Unshown(tasks[n]).via = tasks[n].via
               /\ Unshown(tasks[n]).at = tasks[n].at
               /\ ~Unshown(tasks[n]).shown
  <1>1. CASE tasks[n] = None
    BY <1>1 DEF Unshown
  <1>2. CASE tasks[n] # None
    <2>1. PICK row \in TaskRows : row = tasks[n]
      BY <1>2 DEF TypeOK
    <2>2. Unshown(tasks[n]) = [row EXCEPT !.shown = FALSE]
      BY <1>2, <2>1 DEF Unshown
    <2>3. [row EXCEPT !.shown = FALSE] \in TaskRows
      BY DEF TaskRows
    <2> QED BY <1>2, <2>1, <2>2, <2>3, NoneIsNoRow DEF TaskRows
  <1> QED BY <1>1, <1>2

\* A create nobody waits for any more was sent for the sale and the cart on the
\* screen.
LEMMA ForgetIs ==
  ASSUME TypeOK, ScreenKnown, NEW r \in Forget
  PROVE  /\ r \in [op : {"create", "pay"}, sale : Sales, amount : 0 .. MaxItems]
         /\ r.op = "create" /\ r.sale = uuid /\ r.amount = cart
         /\ uuid \in Sales /\ uuid \in sent /\ cart \in Carts
  BY DEF TypeOK, ScreenKnown, Forget, Closed, Carts, Sales

-----------------------------------------------------------------------------
(***************************************************************************)
(* Every step keeps the types.                                             *)
(***************************************************************************)
DialogRows ==
    [step : {"closed", "creating", "choose", "paying", "error"},
     amount : 0 .. MaxItems, offline : BOOLEAN, reply : Carts \cup {None}]

LateRows == [op : {"create", "pay"}, sale : Sales, amount : 0 .. MaxItems]

\* What a closed or a failed dialog shows is a dialog.
LEMMA DialogIs ==
  /\ Closed \in DialogRows
    BY BoundsType DEF Closed, Show, DialogRows

\* A step of the page keeps the types.
LEMMA TypedPage ==
  TypeOK /\ Known /\ (AddToCart \/ SaveDraft \/ Close \/ Reload \/ GoOnline \/ GoOffline)
    => TypeOK'
  <1> USE BoundsType DEF TypeOK, DialogRows, page, server, history
  <1>1. ASSUME TypeOK, AddToCart PROVE TypeOK'
    BY <1>1 DEF AddToCart
  <1>2. ASSUME TypeOK, SaveDraft PROVE TypeOK'
    BY <1>2 DEF SaveDraft
  <1>3. ASSUME TypeOK, Known, Close PROVE TypeOK'
    <2>1. tasks' \in [Tasks -> TaskRows \cup {None}]
      BY <1>3, UnshownIs DEF Close
    <2>2. late' \subseteq LateRows
      BY <1>3, ForgetIs DEF Close, Known, LateRows
    <2>3. faults' \in 0 .. MaxFaults
      BY <1>3 DEF Close, Fault, MayFault
    <2> QED BY <1>3, <2>1, <2>2, <2>3, DialogIs DEF Close, LateRows
  <1>4. ASSUME TypeOK, Known, Reload PROVE TypeOK'
    <2>1. Unanswered \subseteq LateRows
      BY <1>4 DEF Unanswered, InProgress, TaskRows, LateRows
    <2>2. late' \subseteq LateRows
      BY <1>4, <2>1, ForgetIs DEF Reload, Known, LateRows
    <2>3. faults' \in 0 .. MaxFaults
      BY <1>4 DEF Reload, Fault, MayFault
    <2> QED BY <1>4, <2>2, <2>3, DialogIs DEF Reload, LateRows
  <1>5. ASSUME TypeOK, GoOnline PROVE TypeOK'
    BY <1>5 DEF GoOnline
  <1>6. ASSUME TypeOK, GoOffline PROVE TypeOK'
    <2>1. faults' \in 0 .. MaxFaults
      BY <1>6 DEF GoOffline, Fault, MayFault
    <2> QED BY <1>6, <2>1 DEF GoOffline
  <1> QED BY <1>1, <1>2, <1>3, <1>4, <1>5, <1>6

\* A step of the dialog, up to the choice of a method, keeps the types.
LEMMA TypedDialog ==
  TypeOK /\ Known /\ (Open \/ ServeCreate \/ CreateAnswered \/ CreateFails) => TypeOK'
  <1> USE BoundsType DEF TypeOK, DialogRows, page, server, history
  <1>1. ASSUME TypeOK, OpenOnline PROVE TypeOK'
    BY <1>1 DEF OpenOnline, Show
  <1>2. ASSUME TypeOK, OpenOffline PROVE TypeOK'
    <2>1. /\ Show("choose", cart, TRUE, None) \in DialogRows
          /\ Show("error", 0, FALSE, None) \in DialogRows
      BY <1>2 DEF Show
    <2>2. dialog' \in DialogRows
      BY <1>2, <2>1 DEF OpenOffline
    <2> QED BY <1>2, <2>2 DEF OpenOffline
  <1>3. ASSUME TypeOK, Known, ServeCreate PROVE TypeOK'
    <2>1. uuid \in Sales /\ cart \in Carts
      BY <1>3 DEF ServeCreate, Known, ScreenKnown, Closed
    <2>2. bills' \in [Sales -> BillRows \cup {None}] /\ bills'[uuid] # None
      BY <1>3, <2>1, BilledIs DEF ServeCreate
    <2>3. bills'[uuid].amount \in Carts
      BY <2>1, <2>2 DEF BillRows
    <2>4. dialog' \in DialogRows
      BY <1>3, <2>3 DEF ServeCreate
    <2> QED BY <1>3, <2>2, <2>4 DEF ServeCreate
  <1>4. ASSUME TypeOK, CreateAnswered PROVE TypeOK'
    <2>1. dialog.reply \in 0 .. MaxItems
      BY <1>4 DEF CreateAnswered, Carts
    <2> QED BY <1>4, <2>1 DEF CreateAnswered, Show
  <1>5. ASSUME TypeOK, Known, CreateFails PROVE TypeOK'
    <2>1. late' \subseteq LateRows
      BY <1>5, ForgetIs DEF CreateFails, Known, LateRows
    <2>2. faults' \in 0 .. MaxFaults
      BY <1>5 DEF CreateFails, Fault, MayFault
    <2>3. dialog' \in DialogRows
      BY <1>5 DEF CreateFails, Show
    <2> QED BY <1>5, <2>1, <2>2, <2>3 DEF CreateFails, LateRows
  <1> QED BY <1>1, <1>2, <1>3, <1>4, <1>5 DEF Open

\* The dialog that shows an error is a dialog.
LEMMA ErrorIs ==
  ASSUME TypeOK, NEW n \in Tasks, ShowError(n)
  PROVE  dialog' \in DialogRows
  BY BoundsType DEF ShowError, Show, TypeOK, DialogRows

\* A step of a confirmation, but for its success, keeps the types.
LEMMA TypedConfirmation ==
  ASSUME TypeOK, Known, NEW n \in Tasks,
         \/ Confirm(n) \/ Store(n) \/ StoreFails(n)
         \/ ServePay(n) \/ Refused(n) \/ PayFails(n)
  PROVE  TypeOK'
  <1> USE BoundsType DEF DialogRows, page, server, history
  <1>1. ASSUME Confirm(n) PROVE TypeOK'
    <2>1. uuid \in Sales /\ cart \in Carts /\ dialog.amount \in Carts
      BY <1>1 DEF Confirm, Known, ScreenKnown, Closed
    <2>2. tasks' \in [Tasks -> TaskRows \cup {None}]
      BY <1>1, <2>1 DEF Confirm, TypeOK, TaskRows
    <2>3. dialog' \in DialogRows
      BY <1>1 DEF Confirm, TypeOK
    <2> QED BY <1>1, <2>2, <2>3 DEF Confirm, TypeOK
  <1>2. ASSUME Store(n) PROVE TypeOK'
    <2>1. tasks' \in [Tasks -> TaskRows \cup {None}]
      BY <1>2, GoesOnIs DEF Store, AtTask
    <2>2. tasks[n].sale \in Sales /\ tasks[n].cart \in Carts
      BY <1>2 DEF Store, AtTask, InProgress, TypeOK, TaskRows
    <2>3. outbox' \in [Sales -> RowsOfBox \cup {None}]
      BY <1>2, <2>2 DEF Store, TypeOK, RowsOfBox
    <2> QED BY <1>2, <2>1, <2>3 DEF Store, TypeOK
  <1>3. ASSUME StoreFails(n) PROVE TypeOK'
    <2>1. faults' \in 0 .. MaxFaults
      BY <1>3 DEF StoreFails, Fault, MayFault, TypeOK
    <2>2. tasks' \in [Tasks -> TaskRows \cup {None}]
      BY <1>3 DEF StoreFails, TypeOK
    <2> QED BY <1>3, <2>1, <2>2, ErrorIs DEF StoreFails, TypeOK
  <1>4. ASSUME ServePay(n) PROVE TypeOK'
    <2>1. tasks' \in [Tasks -> TaskRows \cup {None}]
      BY <1>4, GoesOnIs DEF ServePay, AtTask
    <2>2. tasks[n].sale \in Sales /\ bills[tasks[n].sale] # None
      BY <1>4 DEF ServePay, AtTask, InProgress, TypeOK, TaskRows, Known, TasksKnown
    <2>3. bills' \in [Sales -> BillRows \cup {None}]
      BY <1>4, <2>2, PaidIs DEF ServePay, TypeOK
    <2> QED BY <1>4, <2>1, <2>3 DEF ServePay, TypeOK
  <1>5. ASSUME Refused(n) PROVE TypeOK'
    <2>1. tasks' \in [Tasks -> TaskRows \cup {None}]
      BY <1>5 DEF Refused, TypeOK
    <2> QED BY <1>5, <2>1, ErrorIs DEF Refused, TypeOK
  <1>6. ASSUME PayFails(n) PROVE TypeOK'
    <2>1. faults' \in 0 .. MaxFaults
      BY <1>6 DEF PayFails, Fault, MayFault, TypeOK
    <2>2. tasks' \in [Tasks -> TaskRows \cup {None}]
      BY <1>6 DEF PayFails, TypeOK
    <2>3. tasks[n].sale \in Sales
      BY <1>6 DEF PayFails, InProgress, TypeOK, TaskRows
    <2>4. late' \subseteq LateRows
      BY <1>6, <2>3 DEF PayFails, TypeOK, LateRows
    <2> QED BY <1>6, <2>1, <2>2, <2>4, ErrorIs DEF PayFails, TypeOK, LateRows
  <1> QED BY <1>1, <1>2, <1>3, <1>4, <1>5, <1>6

\* So does a success.
LEMMA TypedSuccess ==
  TypeOK /\ Known /\ (Poll \/ \E n \in Tasks : Succeed(n)) => TypeOK'
  <1> SUFFICES ASSUME TypeOK, Known, Poll \/ \E n \in Tasks : Succeed(n)
               PROVE  TypeOK'
    OBVIOUS
  <1>1. tasks' \in [Tasks -> TaskRows \cup {None}]
    BY UnshownIs DEF Poll, Succeed
  <1>2. /\ late' = late \cup Forget /\ cart' = 0 /\ dialog' = Closed
        /\ uuid' = IF uuid \in Sales THEN uuid + 1 ELSE uuid
        /\ UNCHANGED <<draft, online, faults, bills, outbox>>
    BY DEF Poll, Succeed, Settle, server
  <1>3. late' \subseteq LateRows
    BY <1>2, ForgetIs DEF Known, LateRows, TypeOK
  <1>4. uuid' \in 1 .. MaxSales + 1
    BY <1>2, BoundsType DEF Sales, TypeOK
  <1>5. cart' \in 0 .. MaxItems /\ dialog' \in DialogRows
    BY <1>2, BoundsType, DialogIs
  <1> QED BY <1>1, <1>2, <1>3, <1>4, <1>5 DEF TypeOK, LateRows, DialogRows

\* A step of the server keeps the types.
LEMMA TypedServer ==
  /\ \A u \in Sales : TypeOK /\ (Sync(u) \/ CancelBill(u) \/ TransferPays(u)) => TypeOK'
  /\ \A r \in late : TypeOK /\ Known /\ ServeLate(r) => TypeOK'
  <1> USE DEF page, server, history
  <1>1. ASSUME TypeOK, NEW u \in Sales, Sync(u) PROVE TypeOK'
    <2>1. outbox' \in [Sales -> RowsOfBox \cup {None}]
      BY <1>1, SyncedIs DEF Sync
    <2>2. outbox[u].amount \in Carts
      BY <1>1 DEF Sync, TypeOK, RowsOfBox
    <2>3. bills' \in [Sales -> BillRows \cup {None}]
      BY <1>1, <2>2, BilledIs DEF Sync, TypeOK
    <2> QED BY <1>1, <2>1, <2>3 DEF Sync, TypeOK
  <1>2. ASSUME TypeOK, NEW u \in Sales, CancelBill(u) \/ TransferPays(u) PROVE TypeOK'
    <2>1. bills' \in [Sales -> BillRows \cup {None}]
      BY <1>2, CancelledIs, PaidIs DEF CancelBill, TransferPays, Billed
    <2>2. faults' \in 0 .. MaxFaults
      BY <1>2, BoundsType DEF CancelBill, TransferPays, Fault, MayFault, TypeOK
    <2> QED BY <1>2, <2>1, <2>2 DEF CancelBill, TransferPays, TypeOK
  <1>3. ASSUME TypeOK, Known, NEW r \in late, ServeLate(r) PROVE TypeOK'
    <2>1. r.sale \in Sales /\ (r.op = "create" => r.amount \in Carts)
          /\ (r.op = "pay" => bills[r.sale] # None)
      BY <1>3 DEF TypeOK, Known, LateKnown
    <2>2. bills' \in [Sales -> BillRows \cup {None}]
      BY <1>3, <2>1, PaidIs, BilledIs DEF ServeLate, TypeOK
    <2> QED BY <1>3, <2>2 DEF ServeLate, TypeOK
  <1> QED BY <1>1, <1>2, <1>3

-----------------------------------------------------------------------------
(***************************************************************************)
(* What is known stays true while the books grow.                          *)
(***************************************************************************)
\* The screen is left alone.
LEMMA ScreenFollows ==
  ASSUME TypeOK, ScreenKnown, BooksGrow, sent \subseteq sent', UNCHANGED <<cart, uuid, dialog>>
  PROVE  ScreenKnown'
  BY DEF ScreenKnown, BooksGrow, Closed

\* The screen is closed, or says what went wrong.
LEMMA ScreenCloses ==
  ASSUME dialog' = Closed
  PROVE  ScreenKnown'
  BY DEF ScreenKnown, Closed

\* Confirmations end, or go on as they were; one that is shown is shown by a dialog
\* that pays.
LEMMA TasksFollow ==
  ASSUME TypeOK, TypeOK', TasksKnown, BooksGrow, sent \subseteq sent', uuid <= uuid',
         \A n \in Tasks : tasks'[n] # None =>
            /\ tasks[n] # None
            /\ tasks'[n].sale = tasks[n].sale /\ tasks'[n].amount = tasks[n].amount
            /\ tasks'[n].cart = tasks[n].cart /\ tasks'[n].via = tasks[n].via
            /\ tasks'[n].at = tasks[n].at
            /\ tasks'[n].shown => tasks[n].shown /\ dialog'.step = "paying"
  PROVE  TasksKnown'
  <1>1. \A n \in InProgress : tasks[n].sale \in Sales
    BY DEF TypeOK, InProgress, TaskRows
  <1>2. InProgress' \subseteq InProgress
    BY DEF InProgress
  <1>3. ASSUME NEW n \in InProgress'
        PROVE  /\ tasks'[n].sale <= uuid'
               /\ tasks'[n].shown => dialog'.step = "paying"
    BY <1>1, <1>2, <1>3 DEF TasksKnown, InProgress, TypeOK, Sales
  <1>4. ASSUME NEW n \in InProgress', tasks'[n].via = "net"
        PROVE  /\ tasks'[n].sale \in sent' /\ bills'[tasks'[n].sale] # None
               /\ bills'[tasks'[n].sale].amount = tasks'[n].amount
               /\ tasks'[n].at = "done" => bills'[tasks'[n].sale].paid
    BY <1>1, <1>2, <1>4 DEF TasksKnown, InProgress, BooksGrow
  <1>5. ASSUME NEW n \in InProgress', tasks'[n].via = "box"
        PROVE  /\ tasks'[n].amount = tasks'[n].cart /\ tasks'[n].at # "refused"
               /\ tasks'[n].at = "done" => outbox'[tasks'[n].sale] # None
    BY <1>1, <1>2, <1>5 DEF TasksKnown, InProgress, BooksGrow
  <1>6. ASSUME NEW n \in InProgress', NEW m \in InProgress', tasks'[n].shown, tasks'[m].shown
        PROVE  n = m
    BY <1>2, <1>6 DEF TasksKnown, InProgress
  <1> QED BY <1>3, <1>4, <1>5, <1>6 DEF TasksKnown

\* Requests nobody waits for are added that were sent, or are served.
LEMMA LateFollows ==
  ASSUME TypeOK, LateKnown, BooksGrow, sent \subseteq sent',
         \A r \in late' :
            \/ r \in late
            \/ r.op = "create" /\ r.sale \in sent' /\ r.amount \in Carts
            \/ r.op = "pay" /\ bills'[r.sale] # None
  PROVE  LateKnown'
  BY DEF LateKnown, BooksGrow, TypeOK

\* Nothing is settled.
LEMMA SettledFollows ==
  ASSUME TypeOK, TypeOK', SettledKnown, BooksGrow, sent \subseteq sent', uuid <= uuid',
         UNCHANGED settled
  PROVE  SettledKnown'
<1> SUFFICES ASSUME NEW r \in settled
             PROVE  /\ r.sale \in Sales /\ r.sale <= uuid' /\ r.cart \in Carts
                    /\ r.via \in {"net", "box"}
                    /\ r.via = "net" =>
                          /\ r.sale \in sent' /\ bills'[r.sale] # None
                          /\ bills'[r.sale].paid /\ bills'[r.sale].amount = r.amount
                    /\ r.via = "box" => r.amount = r.cart /\ outbox'[r.sale] # None
  BY DEF SettledKnown
<1>1. /\ r.sale \in Sales /\ r.sale <= uuid /\ r.cart \in Carts /\ r.via \in {"net", "box"}
      /\ r.via = "net" =>
            /\ r.sale \in sent /\ bills[r.sale] # None
            /\ bills[r.sale].paid /\ bills[r.sale].amount = r.amount
      /\ r.via = "box" => r.amount = r.cart /\ outbox[r.sale] # None
  BY DEF SettledKnown
<1>2. r.sale <= uuid'
  <2>1. r.sale \in Int /\ uuid \in Int /\ uuid' \in Int
    BY <1>1 DEF TypeOK, Sales
  <2> QED BY <1>1, <2>1
<1>3. r.via = "net" => /\ r.sale \in sent' /\ bills'[r.sale] # None
                       /\ bills'[r.sale].paid /\ bills'[r.sale].amount = r.amount
  BY <1>1 DEF BooksGrow
<1>4. r.via = "box" => r.amount = r.cart /\ outbox'[r.sale] # None
  BY <1>1 DEF BooksGrow
<1> QED BY <1>1, <1>2, <1>3, <1>4

\* The books are left alone.
LEMMA BooksStand ==
  ASSUME UNCHANGED <<bills, outbox>>
  PROVE  BooksGrow
  BY DEF BooksGrow

\* A step of the page keeps what is known.
LEMMA KnownPage ==
  /\ TypeOK /\ TypeOK' /\ Known
  /\ AddToCart \/ SaveDraft \/ Close \/ Reload \/ GoOnline \/ GoOffline
  => Known'
  <1> SUFFICES ASSUME TypeOK, TypeOK', Known,
                      AddToCart \/ SaveDraft \/ Close \/ Reload \/ GoOnline \/ GoOffline
               PROVE  Known'
    OBVIOUS
  <1>1. UNCHANGED <<uuid, bills, outbox, settled, sent, overtaken>>
    BY DEF AddToCart, SaveDraft, Close, Reload, GoOnline, GoOffline, page, server, history
  <1>2. BooksGrow
    BY <1>1, BooksStand
  <1>3. ScreenKnown'
    <2>1. CASE dialog' = Closed
      BY <2>1, ScreenCloses
    <2>2. CASE dialog' # Closed
      BY <1>1, <1>2, <2>2, ScreenFollows
      DEF AddToCart, SaveDraft, Close, Reload, GoOnline, GoOffline, page, Known
    <2> QED BY <2>1, <2>2
  <1>4. TasksKnown'
    <2>1. CASE UNCHANGED <<dialog, tasks>>
      BY <1>1, <2>1 DEF TasksKnown, Known, InProgress
    <2>2. CASE Close \/ Reload
      BY <1>1, <1>2, <2>2, TasksFollow, UnshownIs DEF Close, Reload, Known, TypeOK
    <2> QED BY <2>1, <2>2 DEF AddToCart, SaveDraft, GoOnline, GoOffline, page
  <1>5. LateKnown'
    <2>1. CASE UNCHANGED late
      BY <1>1, <2>1 DEF LateKnown, Known
    <2>2. CASE Close \/ Reload
      <3>1. \A r \in Unanswered : r.op = "pay" /\ bills[r.sale] # None
        BY DEF Unanswered, Known, TasksKnown
      <3> QED BY <1>1, <1>2, <2>2, <3>1, LateFollows, ForgetIs DEF Close, Reload, Known
    <2> QED BY <2>1, <2>2 DEF AddToCart, SaveDraft, GoOnline, GoOffline
  <1>6. BooksKnown'
    BY <1>1 DEF BooksKnown, Known
  <1>7. SettledKnown'
    BY <1>1 DEF SettledKnown, Known
  <1> QED BY <1>3, <1>4, <1>5, <1>6, <1>7 DEF Known

\* Up to the choice of a method a step of the dialog keeps what is known.
LEMMA KnownDialog ==
  /\ TypeOK /\ TypeOK' /\ Known
  /\ Open \/ ServeCreate \/ CreateAnswered \/ CreateFails
  => Known'
  <1> SUFFICES ASSUME TypeOK, TypeOK', Known,
                      Open \/ ServeCreate \/ CreateAnswered \/ CreateFails
               PROVE  Known'
    OBVIOUS
  <1>1. /\ UNCHANGED <<cart, uuid, tasks, outbox, settled, overtaken>>
        /\ sent \subseteq sent'
        /\ dialog.step # "paying"
    <2>1. CASE OpenOnline
      BY <2>1 DEF OpenOnline, CanOpen, server, Closed
    <2>2. CASE OpenOffline
      BY <2>2 DEF OpenOffline, CanOpen, server, history, Closed
    <2>3. CASE ServeCreate \/ CreateAnswered \/ CreateFails
      BY <2>3 DEF ServeCreate, CreateAnswered, CreateFails, server, history
    <2> QED BY <2>1, <2>2, <2>3 DEF Open
  <1>2. BooksGrow
    <2>1. CASE ServeCreate
      <3>1. uuid \in Sales /\ cart \in Carts
        BY <2>1 DEF ServeCreate, Known, ScreenKnown, Closed
      <3> QED BY <1>1, <2>1, <3>1, BilledIs DEF ServeCreate, BooksGrow
    <2>2. CASE ~ServeCreate
      BY <2>2, BooksStand
      DEF Open, OpenOnline, OpenOffline, CreateAnswered, CreateFails, server
    <2> QED BY <2>1, <2>2
  <1>3. ScreenKnown'
    <2>1. CASE Open
      BY <2>1 DEF Open, OpenOnline, OpenOffline, CanOpen, Show, ScreenKnown, Known, Carts,
                  Sales, TypeOK, Closed
    <2>2. CASE ServeCreate
      <3>1. uuid \in Sales /\ cart \in Carts /\ uuid \in sent
        BY <2>2 DEF ServeCreate, Known, ScreenKnown, Closed
      <3>2. bills'[uuid] # None
        BY <2>2, <3>1, BilledIs DEF ServeCreate
      <3>3. /\ dialog'.step = "creating" /\ dialog'.reply = bills'[uuid].amount
            /\ ~dialog'.offline
        BY <2>2 DEF ServeCreate, TypeOK, Known, ScreenKnown
      <3> QED BY <1>1, <3>1, <3>2, <3>3 DEF ScreenKnown
    <2>3. CASE CreateAnswered
      BY <1>1, <2>3, NoneIsNoRow
      DEF CreateAnswered, Show, ScreenKnown, Known, TypeOK, Closed, server
    <2>4. CASE CreateFails
      BY <1>1, <2>4 DEF CreateFails, Show, ScreenKnown, Known, Closed
    <2> QED BY <2>1, <2>2, <2>3, <2>4
  <1>4. TasksKnown'
    BY <1>1, <1>2, TasksFollow DEF Known, TasksKnown, InProgress, TypeOK, Sales
  <1>5. LateKnown'
    BY <1>1, <1>2, LateFollows, ForgetIs
    DEF Open, OpenOnline, OpenOffline, ServeCreate, CreateAnswered, CreateFails, Known
  <1>6. BooksKnown'
    <2>1. CASE OpenOnline
      BY <2>1 DEF OpenOnline, CanOpen, server, BooksKnown, Known, TypeOK, Sales
    <2>2. CASE ServeCreate
      <3>1. uuid \in Sales /\ cart \in Carts /\ uuid \in sent
        BY <2>2 DEF ServeCreate, Known, ScreenKnown, Closed
      <3>2. \A v \in Sales : v # uuid => bills'[v] = bills[v]
        BY <2>2, <3>1, BilledIs DEF ServeCreate
      <3>3. bills'[uuid] # None /\ UNCHANGED sent
        BY <2>2, <3>1, BilledIs DEF ServeCreate, history
      <3>4. bills[uuid] # None => bills'[uuid] = bills[uuid]
        BY <2>2 DEF ServeCreate
      <3> QED BY <1>1, <3>1, <3>2, <3>3, <3>4 DEF BooksKnown, Known, TypeOK, Sales
    <2>3. CASE UNCHANGED <<bills, sent>>
      BY <1>1, <2>3 DEF BooksKnown, Known
    <2> QED BY <2>1, <2>2, <2>3 DEF Open, OpenOffline, CreateAnswered, CreateFails, server, history
  <1>7. SettledKnown'
    BY <1>1, <1>2, SettledFollows DEF Known, TypeOK, Sales
  <1> QED BY <1>3, <1>4, <1>5, <1>6, <1>7 DEF Known

\* So does the start of a confirmation.
LEMMA KnownConfirm ==
  ASSUME TypeOK, TypeOK', Known, NEW n \in Tasks, Confirm(n)
  PROVE  Known'
  <1>1. /\ UNCHANGED <<cart, uuid, bills, outbox, late, settled, sent, overtaken>>
        /\ uuid \in Sales /\ cart \in Carts /\ \A m \in InProgress : ~tasks[m].shown
    BY DEF Confirm, server, history, Known, ScreenKnown, TasksKnown, Closed
  <1>2. /\ dialog'.step = "paying" /\ dialog'.offline = dialog.offline
        /\ dialog'.amount = dialog.amount /\ dialog' # Closed
    BY DEF Confirm, TypeOK, Closed
  <1>3. ScreenKnown'
    BY <1>1, <1>2 DEF ScreenKnown, Known, Confirm
  <1>4. /\ tasks'[n] # None /\ tasks'[n].sale = uuid /\ tasks'[n].amount = dialog.amount
        /\ tasks'[n].cart = cart /\ tasks'[n].at = "sent"
        /\ tasks'[n].via = IF dialog.offline THEN "box" ELSE "net"
    <2> DEFINE row == [sale |-> uuid, amount |-> dialog.amount, cart |-> cart, at |-> "sent",
                       via |-> IF dialog.offline THEN "box" ELSE "net", shown |-> TRUE]
    <2>1. dialog.amount \in Carts
      BY DEF Confirm, Known, ScreenKnown
    <2>2. row \in TaskRows
      BY <1>1, <2>1 DEF TaskRows
    <2>3. tasks'[n] = row
      BY DEF Confirm, TypeOK
    <2>4. tasks'[n] # None
      BY <2>2, <2>3, NoneIsNoRow
    <2> QED BY <2>3, <2>4
  <1>5. \A m \in Tasks : m # n => tasks'[m] = tasks[m]
    BY DEF Confirm, TypeOK
  <1>6. TasksKnown'
    <2>1. \A m \in InProgress' : m # n => m \in InProgress /\ tasks'[m] = tasks[m]
      BY <1>5 DEF InProgress
    <2>2. \A m \in InProgress' : m # n => ~tasks'[m].shown
      BY <1>1, <2>1
    <2>3. \A m \in InProgress' : tasks'[m].sale <= uuid'
      BY <1>1, <1>4, <2>1 DEF Known, TasksKnown, TypeOK, Sales
    <2>4. ASSUME NEW m \in InProgress', tasks'[m].via = "net"
          PROVE  /\ tasks'[m].sale \in sent' /\ bills'[tasks'[m].sale] # None
                 /\ bills'[tasks'[m].sale].amount = tasks'[m].amount
                 /\ tasks'[m].at = "done" => bills'[tasks'[m].sale].paid
      BY <1>1, <1>4, <2>1, <2>4 DEF Known, TasksKnown, ScreenKnown, Confirm
    <2>5. ASSUME NEW m \in InProgress', tasks'[m].via = "box"
          PROVE  /\ tasks'[m].amount = tasks'[m].cart /\ tasks'[m].at # "refused"
                 /\ tasks'[m].at = "done" => outbox'[tasks'[m].sale] # None
      BY <1>1, <1>4, <2>1, <2>5 DEF Known, TasksKnown, ScreenKnown, Confirm
    <2> QED BY <1>2, <2>2, <2>3, <2>4, <2>5 DEF TasksKnown
  <1>7. LateKnown' /\ BooksKnown' /\ SettledKnown'
    BY <1>1 DEF LateKnown, BooksKnown, SettledKnown, Known
  <1> QED BY <1>3, <1>6, <1>7 DEF Known

\* A confirmation that comes to its end well or ill keeps what is known.
LEMMA KnownGoesOn ==
  ASSUME TypeOK, TypeOK', Known, NEW n \in Tasks, Store(n) \/ ServePay(n)
  PROVE  Known'
  <1>1. /\ UNCHANGED <<cart, uuid, dialog, late, settled, sent, overtaken>>
        /\ n \in InProgress /\ tasks[n] # None
    BY DEF Store, ServePay, AtTask, InProgress, page, history
  <1> DEFINE sale == tasks[n].sale
  <1>2. sale \in Sales /\ tasks[n].cart \in Carts
    BY <1>1 DEF TypeOK, TaskRows
  <1>3. PICK at \in {"done", "refused"} : tasks' = [tasks EXCEPT ![n].at = at]
    BY DEF Store, ServePay
  <1>4. /\ BooksGrow
        /\ tasks[n].via = "net" /\ at = "done" => bills'[sale].paid
        /\ tasks[n].via = "box" => at = "done" /\ outbox'[sale] # None
    <2>1. CASE Store(n)
      <3>1. tasks[n].via = "box" /\ bills' = bills /\ at = "done"
        BY <1>1, <1>3, <2>1, GoesOnIs DEF Store, AtTask
      <3>2. outbox'[sale] # None
        <4>1. [amount |-> tasks[n].cart, synced |-> FALSE] \in RowsOfBox
          BY <1>2 DEF RowsOfBox
        <4> QED BY <1>2, <2>1, <4>1, NoneIsNoRow DEF Store, TypeOK
      <3>3. \A v \in Sales : outbox[v] # None => outbox'[v] = outbox[v]
        BY <2>1 DEF Store, TypeOK
      <3> QED BY <3>1, <3>2, <3>3 DEF BooksGrow
    <2>2. CASE ServePay(n)
      <3>1. tasks[n].via = "net" /\ outbox' = outbox /\ bills[sale] # None
        BY <1>1, <2>2 DEF ServePay, AtTask, Known, TasksKnown
      <3>2. CASE bills' = [bills EXCEPT ![sale].paid = TRUE]
        BY <1>2, <3>1, <3>2, PaidIs DEF BooksGrow
      <3>3. CASE bills' = bills /\ tasks' = [tasks EXCEPT ![n].at = "refused"]
        <4>1. at = "refused"
          BY <1>1, <1>3, <3>3, GoesOnIs
        <4> QED BY <3>1, <3>3, <4>1 DEF BooksGrow
      <3> QED BY <2>2, <3>2, <3>3 DEF ServePay
    <2> QED BY <2>1, <2>2
  <1>5. ScreenKnown' /\ LateKnown' /\ SettledKnown'
    BY <1>1, <1>4, ScreenFollows, LateFollows, SettledFollows DEF Known, TypeOK, Sales
  <1>6. TasksKnown'
    <2>1. InProgress' = InProgress
      BY <1>1, <1>3, GoesOnIs
    <2>2. /\ tasks'[n].sale = sale /\ tasks'[n].amount = tasks[n].amount
          /\ tasks'[n].cart = tasks[n].cart /\ tasks'[n].via = tasks[n].via
          /\ tasks'[n].shown = tasks[n].shown /\ tasks'[n].at = at
      BY <1>1, <1>3, GoesOnIs
    <2>3. \A m \in InProgress : m # n => tasks'[m] = tasks[m]
      BY <1>1, <1>3, GoesOnIs DEF InProgress
    <2>4. \A m \in InProgress : tasks[m].sale \in Sales
      BY DEF InProgress, TypeOK, TaskRows
    <2>5. ASSUME NEW m \in InProgress
          PROVE  /\ tasks'[m].sale <= uuid'
                 /\ tasks'[m].shown => dialog'.step = "paying"
      BY <1>1, <2>2, <2>3, <2>5 DEF Known, TasksKnown
    <2>6. ASSUME NEW m \in InProgress, tasks'[m].via = "net"
          PROVE  /\ tasks'[m].sale \in sent' /\ bills'[tasks'[m].sale] # None
                 /\ bills'[tasks'[m].sale].amount = tasks'[m].amount
                 /\ tasks'[m].at = "done" => bills'[tasks'[m].sale].paid
      BY <1>1, <1>4, <2>2, <2>3, <2>4, <2>6 DEF Known, TasksKnown, BooksGrow
    <2>7. ASSUME NEW m \in InProgress, tasks'[m].via = "box"
          PROVE  /\ tasks'[m].amount = tasks'[m].cart /\ tasks'[m].at # "refused"
                 /\ tasks'[m].at = "done" => outbox'[tasks'[m].sale] # None
      BY <1>1, <1>4, <2>2, <2>3, <2>4, <2>7 DEF Known, TasksKnown, BooksGrow
    <2>8. ASSUME NEW k \in InProgress, NEW m \in InProgress, tasks'[k].shown, tasks'[m].shown
          PROVE  k = m
      BY <1>1, <2>2, <2>3, <2>8 DEF Known, TasksKnown
    <2> QED BY <2>1, <2>5, <2>6, <2>7, <2>8 DEF TasksKnown
  <1>7. BooksKnown'
    <2>1. CASE Store(n)
      <3>1. \A v \in Sales : v # sale => outbox'[v] = outbox[v]
        BY <1>2, <2>1 DEF Store, TypeOK
      <3>2. outbox'[sale].synced => outbox[sale] # None /\ outbox[sale].synced
        BY <1>2, <2>1, NoneIsNoRow DEF Store, TypeOK, RowsOfBox
      <3>3. sale <= uuid
        BY <1>1 DEF Known, TasksKnown
      <3>4. UNCHANGED bills
        BY <2>1 DEF Store
      <3> QED BY <1>1, <1>4, <3>1, <3>2, <3>3, <3>4 DEF BooksKnown, Known, BooksGrow
    <2>2. CASE ServePay(n)
      <3>1. sale \in sent /\ UNCHANGED outbox
        BY <1>1, <2>2 DEF ServePay, AtTask, Known, TasksKnown
      <3>2. \A v \in Sales : v # sale => bills'[v] = bills[v]
        BY <1>2, <2>2 DEF ServePay, TypeOK
      <3> QED BY <1>1, <1>4, <3>1, <3>2 DEF BooksKnown, Known, BooksGrow
    <2> QED BY <2>1, <2>2
  <1> QED BY <1>5, <1>6, <1>7 DEF Known

\* So does one that fails.
LEMMA KnownFails ==
  ASSUME TypeOK, TypeOK', Known, NEW n \in Tasks, StoreFails(n) \/ Refused(n) \/ PayFails(n)
  PROVE  Known'
  <1>1. /\ UNCHANGED <<cart, uuid, bills, outbox, settled, sent, overtaken>>
        /\ n \in InProgress /\ tasks' = [tasks EXCEPT ![n] = None]
        /\ ShowError(n)
    BY DEF StoreFails, Refused, PayFails, AtTask, server, history
  <1>2. BooksGrow
    BY <1>1, BooksStand
  <1>3. ScreenKnown'
    <2>1. CASE dialog' = dialog
      BY <1>1, <1>2, <2>1, ScreenFollows DEF Known
    <2>2. CASE tasks[n].shown /\ dialog' = Show("error", 0, FALSE, None)
      <3>1. dialog # Closed
        BY <1>1, <2>2 DEF Known, TasksKnown, Closed
      <3> QED BY <1>1, <2>2, <3>1 DEF ScreenKnown, Known, Show
    <2> QED BY <1>1, <2>1, <2>2 DEF ShowError
  <1>4. TasksKnown'
    <2>1. \A m \in Tasks : tasks'[m] # None =>
             m # n /\ m \in InProgress /\ tasks'[m] = tasks[m]
      BY <1>1 DEF TypeOK, InProgress
    <2>2. \A m \in InProgress : m # n /\ tasks[m].shown => dialog'.step = "paying"
      BY <1>1 DEF Known, TasksKnown, ShowError
    <2> QED BY <1>1, <1>2, <2>1, <2>2, TasksFollow DEF Known, InProgress, TypeOK, Sales
  <1>5. LateKnown'
    <2>1. \A r \in late' \ late : r.op = "pay" /\ bills[r.sale] # None
      BY <1>1 DEF StoreFails, Refused, PayFails, Known, TasksKnown
    <2> QED BY <1>1, <1>2, <2>1, LateFollows DEF Known
  <1>6. BooksKnown' /\ SettledKnown'
    BY <1>1 DEF BooksKnown, SettledKnown, Known
  <1> QED BY <1>3, <1>4, <1>5, <1>6 DEF Known

\* A success takes a sale that was on the screen, for what its bill or its row says.
LEMMA SuccessIs ==
  ASSUME TypeOK, Known, Poll \/ \E n \in Tasks : Succeed(n)
  PROVE  \E r \in [sale : Sales, amount : Carts, cart : Carts, via : {"net", "box"}] :
            /\ settled' = settled \cup {r}
            /\ overtaken' = IF r.sale # uuid THEN overtaken \cup {uuid} ELSE overtaken
            /\ \/ r.sale = uuid /\ r.cart = cart
               \/ \E n \in InProgress : tasks[n].sale = r.sale /\ tasks[n].cart = r.cart
            /\ r.sale <= uuid
            /\ r.via = "net" => /\ r.sale \in sent /\ bills[r.sale] # None
                                /\ bills[r.sale].paid /\ bills[r.sale].amount = r.amount
            /\ r.via = "box" => r.amount = r.cart /\ outbox[r.sale] # None
  <1>1. CASE Poll
    <2> DEFINE r == [sale |-> uuid, amount |-> dialog.amount, cart |-> cart, via |-> "net"]
    <2>1. /\ uuid \in Sales /\ cart \in Carts /\ dialog.amount \in Carts
          /\ uuid \in sent /\ bills[uuid] # None /\ bills[uuid].paid
          /\ bills[uuid].amount = dialog.amount
      BY <1>1 DEF Poll, Known, ScreenKnown, Closed
    <2>2. settled' = settled \cup {r} /\ overtaken' = overtaken
      BY <1>1 DEF Poll, Settle
    <2>3. uuid <= uuid
      BY DEF TypeOK
    <2>4. r \in [sale : Sales, amount : Carts, cart : Carts, via : {"net", "box"}]
      BY <2>1
    <2> QED BY <2>1, <2>2, <2>3, <2>4
  <1>2. ASSUME NEW n \in Tasks, Succeed(n)
        PROVE  \E r \in [sale : Sales, amount : Carts, cart : Carts, via : {"net", "box"}] :
            /\ settled' = settled \cup {r}
            /\ overtaken' = IF r.sale # uuid THEN overtaken \cup {uuid} ELSE overtaken
            /\ \/ r.sale = uuid /\ r.cart = cart
               \/ \E m \in InProgress : tasks[m].sale = r.sale /\ tasks[m].cart = r.cart
            /\ r.sale <= uuid
            /\ r.via = "net" => /\ r.sale \in sent /\ bills[r.sale] # None
                                /\ bills[r.sale].paid /\ bills[r.sale].amount = r.amount
            /\ r.via = "box" => r.amount = r.cart /\ outbox[r.sale] # None
    <2> DEFINE r == [sale |-> tasks[n].sale, amount |-> tasks[n].amount,
                     cart |-> tasks[n].cart, via |-> tasks[n].via]
    <2>1. n \in InProgress /\ tasks[n].at = "done" /\ tasks[n] \in TaskRows
      BY <1>2 DEF Succeed, InProgress, TypeOK
    <2>2. r \in [sale : Sales, amount : Carts, cart : Carts, via : {"net", "box"}]
      BY <2>1 DEF TaskRows
    <2>3. /\ settled' = settled \cup {r}
          /\ overtaken' = IF r.sale # uuid THEN overtaken \cup {uuid} ELSE overtaken
      BY <1>2 DEF Succeed, Settle
    <2>4. /\ r.sale <= uuid
          /\ r.via = "net" => /\ r.sale \in sent /\ bills[r.sale] # None
                              /\ bills[r.sale].paid /\ bills[r.sale].amount = r.amount
          /\ r.via = "box" => r.amount = r.cart /\ outbox[r.sale] # None
      BY <2>1 DEF Known, TasksKnown
    <2> QED BY <2>1, <2>2, <2>3, <2>4
  <1> QED BY <1>1, <1>2

\* A success keeps what is known.
LEMMA KnownSuccess ==
  ASSUME TypeOK, TypeOK', Known, Poll \/ \E n \in Tasks : Succeed(n)
  PROVE  Known'
  <1>1. PICK r \in [sale : Sales, amount : Carts, cart : Carts, via : {"net", "box"}] :
            /\ settled' = settled \cup {r}
            /\ overtaken' = IF r.sale # uuid THEN overtaken \cup {uuid} ELSE overtaken
            /\ r.sale <= uuid
            /\ r.via = "net" => /\ r.sale \in sent /\ bills[r.sale] # None
                                /\ bills[r.sale].paid /\ bills[r.sale].amount = r.amount
            /\ r.via = "box" => r.amount = r.cart /\ outbox[r.sale] # None
    BY SuccessIs
  <1>2. /\ UNCHANGED <<bills, outbox, sent>>
        /\ late' = late \cup Forget /\ dialog' = Closed
        /\ uuid' = IF uuid \in Sales THEN uuid + 1 ELSE uuid
    BY DEF Poll, Succeed, Settle, server
  <1>3. uuid <= uuid' /\ uuid' <= uuid + 1
    BY <1>2 DEF TypeOK
  <1>4. BooksGrow
    BY <1>2, BooksStand
  <1>5. ScreenKnown'
    BY <1>2, ScreenCloses
  <1>6. TasksKnown'
    <2>1. ASSUME NEW n \in Tasks, tasks'[n] # None
          PROVE  tasks[n] # None /\ tasks'[n] = Unshown(tasks[n])
      BY <2>1, UnshownIs DEF Poll, Succeed
    <2> QED BY <1>2, <1>3, <1>4, <2>1, TasksFollow, UnshownIs DEF Known
  <1>7. LateKnown'
    BY <1>2, <1>4, LateFollows, ForgetIs DEF Known
  <1>8. BooksKnown'
    <2>1. \A u \in Sales : u \in sent \/ outbox[u] # None => u <= uuid'
      BY <1>2 DEF BooksKnown, Known, TypeOK, Sales
    <2>2. ASSUME NEW u \in Sales, u < uuid'
          PROVE  u \in overtaken' \/ outbox[u] # None \/ (bills[u] # None /\ bills[u].paid)
      <3>1. CASE u < uuid
        BY <1>1, <3>1 DEF BooksKnown, Known
      <3>2. CASE u = uuid
        BY <1>1, <3>2
      <3> QED BY <1>3, <2>2, <3>1, <3>2 DEF TypeOK, Sales
    <2> QED BY <1>2, <2>1, <2>2 DEF BooksKnown, Known
  <1>9. SettledKnown'
    <2>1. \A s \in settled : s.sale <= uuid'
      BY <1>2 DEF SettledKnown, Known, TypeOK, Sales
    <2>2. r.sale <= uuid'
      BY <1>1, <1>2 DEF TypeOK, Sales
    <2> QED BY <1>1, <1>2, <2>1, <2>2 DEF SettledKnown, Known
  <1> QED BY <1>5, <1>6, <1>7, <1>8, <1>9 DEF Known

\* A step of the server changes one bill, or one row of the outbox with its bill.
LEMMA KnownServer ==
  ASSUME TypeOK, TypeOK', Known,
         \/ \E u \in Sales : Sync(u) \/ CancelBill(u) \/ TransferPays(u)
         \/ \E r \in late : ServeLate(r)
  PROVE  Known'
  <1>1. UNCHANGED <<cart, uuid, dialog, tasks, settled, sent, overtaken>> /\ late' \subseteq late
    BY DEF Sync, CancelBill, TransferPays, ServeLate, page, history
  <1>2. BooksGrow /\ BooksKnown'
    <2>1. ASSUME NEW u \in Sales, Sync(u)
          PROVE  BooksGrow /\ BooksKnown'
      <3>1. /\ outbox'[u] # None /\ outbox'[u].amount = outbox[u].amount /\ outbox'[u].synced
            /\ \A v \in Sales : v # u => outbox'[v] = outbox[v]
        BY <2>1, SyncedIs DEF Sync
      <3>2. outbox[u] # None /\ outbox[u].amount \in Carts
        BY <2>1 DEF Sync, TypeOK, RowsOfBox
      <3>3. /\ \A v \in Sales : v # u => bills'[v] = bills[v]
            /\ bills[u] # None => bills'[u] = bills[u]
            /\ bills[u] = None => bills'[u] # None /\ bills'[u].paid
        BY <2>1, <3>2, BilledIs DEF Sync
      <3>4. BooksGrow
        BY <3>1, <3>2, <3>3 DEF BooksGrow
      <3>5. BooksKnown'
        BY <1>1, <3>1, <3>2, <3>3 DEF BooksKnown, Known
      <3> QED BY <3>4, <3>5
    <2>2. ASSUME NEW u \in Sales, CancelBill(u) \/ TransferPays(u)
          PROVE  BooksGrow /\ BooksKnown'
      <3>1. bills[u] # None /\ outbox' = outbox
        BY <2>2 DEF CancelBill, TransferPays, Billed
      <3>2. /\ bills'[u] # None /\ bills'[u].amount = bills[u].amount
            /\ bills[u].paid => bills'[u].paid
            /\ \A v \in Sales : v # u => bills'[v] = bills[v]
        BY <2>2, <3>1, CancelledIs, PaidIs DEF CancelBill, TransferPays
      <3>3. BooksGrow
        BY <3>1, <3>2 DEF BooksGrow
      <3>4. BooksKnown'
        BY <1>1, <3>1, <3>2 DEF BooksKnown, Known
      <3> QED BY <3>3, <3>4
    <2>3. ASSUME NEW r \in late, ServeLate(r)
          PROVE  BooksGrow /\ BooksKnown'
      <3>1. /\ r.sale \in Sales /\ outbox' = outbox
            /\ r.op = "create" => r.sale \in sent /\ r.amount \in Carts
            /\ r.op = "pay" => bills[r.sale] # None
        BY <2>3 DEF ServeLate, TypeOK, Known, LateKnown
      <3>2. /\ \A v \in Sales : v # r.sale => bills'[v] = bills[v]
            /\ bills[r.sale] # None =>
                  /\ bills'[r.sale] # None /\ bills'[r.sale].amount = bills[r.sale].amount
                  /\ bills[r.sale].paid => bills'[r.sale].paid
            /\ bills[r.sale] = None => bills'[r.sale] = None \/ r.sale \in sent
        BY <2>3, <3>1, BilledIs, PaidIs DEF ServeLate
      <3>3. BooksGrow
        BY <3>1, <3>2 DEF BooksGrow
      <3>4. BooksKnown'
        BY <1>1, <3>1, <3>2 DEF BooksKnown, Known
      <3> QED BY <3>3, <3>4
    <2> QED BY <2>1, <2>2, <2>3
  <1>3. ScreenKnown'
    BY <1>1, <1>2, ScreenFollows DEF Known
  <1>4. TasksKnown'
    BY <1>1, <1>2, TasksFollow DEF Known, TasksKnown, InProgress, TypeOK, Sales
  <1>5. LateKnown'
    BY <1>1, <1>2, LateFollows DEF Known
  <1>6. SettledKnown'
    BY <1>1, <1>2, SettledFollows DEF Known, TypeOK, Sales
  <1> QED BY <1>2, <1>3, <1>4, <1>5, <1>6 DEF Known

-----------------------------------------------------------------------------
(***************************************************************************)
(* One cart per sale.                                                      *)
(***************************************************************************)
\* Only a sale that was on the screen, and was sent or queued there, bears an amount.
LEMMA BearsIsCarried ==
  ASSUME TypeOK, Known, NEW u \in Sales, NEW a \in Carts, Bears(u, a)
  PROVE  Carried(u) /\ u <= uuid
  <1>1. Carried(u)
    BY DEF Bears, Carried, Known, BooksKnown, LateKnown, SettledKnown
  <1>2. u <= uuid
    BY <1>1 DEF Carried, Known, BooksKnown, TasksKnown
  <1> QED BY <1>1, <1>2

\* The screen is left alone and nothing is written but what was written already, or
\* the cart.
LEMMA OneCartStays ==
  ASSUME OneCart, UNCHANGED <<cart, uuid, edited>>,
         \A u \in Sales, a \in Carts : Bears(u, a)' => Bears(u, a) \/ (u = uuid /\ a = cart)
  PROVE  OneCart'
  <1> SUFFICES ASSUME NEW u \in Sales \ edited, NEW a \in Carts, NEW b \in Carts,
                      Bears(u, a)', Bears(u, b)'
               PROVE  a = b /\ (u = uuid => a = cart)
    BY DEF OneCart
  <1>1. CASE Bears(u, a) /\ Bears(u, b)
    BY <1>1 DEF OneCart
  <1>2. CASE Bears(u, a) /\ u = uuid /\ b = cart
    BY <1>2 DEF OneCart
  <1>3. CASE u = uuid /\ a = cart /\ Bears(u, b)
    BY <1>3 DEF OneCart
  <1>4. CASE u = uuid /\ a = cart /\ b = cart
    BY <1>4
  <1> QED BY <1>1, <1>2, <1>3, <1>4

\* The cart changes: the sale that carries it is edited from now on.
LEMMA OneCartEdited ==
  ASSUME TypeOK, Known, OneCart, UNCHANGED uuid, edited \subseteq edited',
         cart # cart' /\ cart # 0 /\ Carried(uuid) => uuid \in edited',
         \A u \in Sales, a \in Carts :
            Bears(u, a)' => Bears(u, a) \/ (u = uuid /\ a = cart /\ u \in sent)
  PROVE  OneCart'
  <1> SUFFICES ASSUME NEW u \in Sales \ edited', NEW a \in Carts, NEW b \in Carts,
                      Bears(u, a)', Bears(u, b)'
               PROVE  a = b /\ (u = uuid => a = cart')
    BY DEF OneCart
  <1>1. u \notin edited
    OBVIOUS
  <1>2. a = b /\ (u = uuid => a = cart)
    BY <1>1 DEF OneCart
  <1>3. u = uuid => Carried(uuid)
    BY BearsIsCarried DEF Carried
  <1>4. u = uuid => cart # 0
    BY <1>2 DEF Carts
  <1> QED BY <1>2, <1>3, <1>4

\* The next sale comes to the screen: nothing was written about it yet.
LEMMA OneCartSettled ==
  ASSUME TypeOK, Known, OneCart, UNCHANGED edited,
         uuid' = IF uuid \in Sales THEN uuid + 1 ELSE uuid,
         \A u \in Sales, a \in Carts : Bears(u, a)' => Bears(u, a) \/ (u = uuid /\ a = cart)
  PROVE  OneCart'
  <1> SUFFICES ASSUME NEW u \in Sales \ edited, NEW a \in Carts, NEW b \in Carts,
                      Bears(u, a)', Bears(u, b)'
               PROVE  a = b /\ (u = uuid' => a = cart')
    BY DEF OneCart
  <1>1. a = b
    BY DEF OneCart
  <1>2. u <= uuid
    BY BearsIsCarried DEF TypeOK
  <1>3. u # uuid'
    BY <1>2 DEF TypeOK, Sales
  <1> QED BY <1>1, <1>3

\* Every step keeps one cart per sale.
LEMMA OneCartNext ==
  ASSUME TypeOK, TypeOK', Known, OneCart, Next
  PROVE  OneCart'
  <1>1. CASE AddToCart
    <2>1. \A u \in Sales, a \in Carts : Bears(u, a)' => Bears(u, a)
      BY <1>1 DEF AddToCart, server, Bears, InProgress
    <2> QED BY <1>1, <2>1, OneCartEdited DEF AddToCart, TypeOK
  <1>2. CASE Reload
    <2>1. ASSUME NEW u \in Sales, NEW a \in Carts, Bears(u, a)'
          PROVE  Bears(u, a) \/ (u = uuid /\ a = cart /\ u \in sent)
      <3>1. InProgress' = {}
        BY <1>2 DEF Reload, InProgress
      <3>2. \A r \in Unanswered : r.op = "pay"
        BY DEF Unanswered
      <3> QED BY <1>2, <2>1, <3>1, <3>2, ForgetIs DEF Reload, server, Bears, Known
    <2> QED BY <1>2, <2>1, OneCartEdited DEF Reload
  <1>3. CASE SaveDraft \/ GoOnline \/ GoOffline \/ Open \/ CreateAnswered
    <2>1. UNCHANGED <<cart, uuid, edited, bills, outbox, tasks, late, settled>>
      BY <1>3 DEF SaveDraft, GoOnline, GoOffline, Open, OpenOnline, OpenOffline,
                  CreateAnswered, page, server, history
    <2>2. \A u \in Sales, a \in Carts : Bears(u, a)' => Bears(u, a)
      BY <2>1 DEF Bears, InProgress
    <2> QED BY <2>1, <2>2, OneCartStays
  <1>4. CASE Close \/ CreateFails
    <2>1. UNCHANGED <<cart, uuid, edited, bills, outbox, settled>> /\ late' = late \cup Forget
      BY <1>4 DEF Close, CreateFails, server, history
    <2>2. \A n \in Tasks : tasks'[n] = tasks[n] \/ tasks'[n] = Unshown(tasks[n])
      BY <1>4 DEF Close, CreateFails
    <2>3. \A n \in InProgress' : /\ n \in InProgress /\ tasks'[n].sale = tasks[n].sale
                                 /\ tasks'[n].cart = tasks[n].cart
      BY <2>2, UnshownIs DEF InProgress
    <2>4. \A u \in Sales, a \in Carts : Bears(u, a)' => Bears(u, a) \/ (u = uuid /\ a = cart)
      BY <2>1, <2>3, ForgetIs DEF Bears, Known
    <2> QED BY <2>1, <2>4, OneCartStays
  <1>5. CASE ServeCreate
    <2>1. uuid \in Sales /\ cart \in Carts
      BY <1>5 DEF ServeCreate, Known, ScreenKnown, Closed
    <2>2. UNCHANGED <<cart, uuid, edited, outbox, settled, late, tasks>>
      BY <1>5 DEF ServeCreate, history
    <2>3. \A u \in Sales : bills'[u] = bills[u] \/ (u = uuid /\ bills'[u].amount = cart)
      BY <1>5, <2>1, BilledIs DEF ServeCreate
    <2>4. \A u \in Sales, a \in Carts : Bears(u, a)' => Bears(u, a) \/ (u = uuid /\ a = cart)
      BY <2>2, <2>3 DEF Bears, InProgress
    <2> QED BY <2>2, <2>4, OneCartStays
  <1>6. ASSUME NEW n \in Tasks, Confirm(n)
        PROVE  OneCart'
    <2>1. UNCHANGED <<cart, uuid, edited, bills, outbox, settled, late>>
      BY <1>6 DEF Confirm, server, history
    <2>2. \A m \in InProgress' :
             (m \in InProgress /\ tasks'[m] = tasks[m])
             \/ (tasks'[m].sale = uuid /\ tasks'[m].cart = cart)
      BY <1>6 DEF Confirm, InProgress, TypeOK
    <2>3. \A u \in Sales, a \in Carts : Bears(u, a)' => Bears(u, a) \/ (u = uuid /\ a = cart)
      BY <2>1, <2>2 DEF Bears
    <2> QED BY <2>1, <2>3, OneCartStays
  <1>7. ASSUME NEW n \in Tasks, Store(n) \/ ServePay(n)
        PROVE  OneCart'
    <2>1. UNCHANGED <<cart, uuid, edited, settled, late>> /\ n \in InProgress
      BY <1>7 DEF Store, ServePay, AtTask, page, history
    <2>2. PICK at \in {"done", "refused"} : tasks' = [tasks EXCEPT ![n].at = at]
      BY <1>7 DEF Store, ServePay
    <2>3. /\ InProgress' = InProgress
          /\ \A m \in InProgress : /\ tasks'[m].sale = tasks[m].sale
                                   /\ tasks'[m].cart = tasks[m].cart
      BY <2>1, <2>2, GoesOnIs DEF InProgress
    <2>4. tasks[n].sale \in Sales
      BY <2>1 DEF InProgress, TypeOK, TaskRows
    <2>5. \A u \in Sales : outbox'[u] # None => outbox'[u] = outbox[u] \/
             (u = tasks[n].sale /\ outbox'[u].amount = tasks[n].cart)
      BY <1>7, <2>4 DEF Store, ServePay, TypeOK
    <2>6. \A u \in Sales : bills'[u] = bills[u] \/
             (bills[u] # None /\ bills'[u].amount = bills[u].amount)
      <3>1. CASE Store(n)
        BY <3>1 DEF Store
      <3>2. CASE ServePay(n)
        <4>1. bills[tasks[n].sale] # None
          BY <2>1, <3>2 DEF ServePay, AtTask, Known, TasksKnown
        <4> QED BY <2>4, <3>2, <4>1, PaidIs DEF ServePay
      <3> QED BY <1>7, <3>1, <3>2
    <2>7. \A u \in Sales, a \in Carts : Bears(u, a)' => Bears(u, a)
      BY <2>1, <2>3, <2>5, <2>6 DEF Bears
    <2> QED BY <2>1, <2>7, OneCartStays
  <1>8. ASSUME NEW n \in Tasks, StoreFails(n) \/ Refused(n) \/ PayFails(n)
        PROVE  OneCart'
    <2>1. UNCHANGED <<cart, uuid, edited, bills, outbox, settled>>
      BY <1>8 DEF StoreFails, Refused, PayFails, server, history
    <2>2. \A r \in late' : r \in late \/ r.op = "pay"
      BY <1>8 DEF StoreFails, Refused, PayFails
    <2>3. \A m \in InProgress' : m \in InProgress /\ tasks'[m] = tasks[m]
      BY <1>8 DEF StoreFails, Refused, PayFails, InProgress, TypeOK
    <2>4. \A u \in Sales, a \in Carts : Bears(u, a)' => Bears(u, a)
      BY <2>1, <2>2, <2>3 DEF Bears
    <2> QED BY <2>1, <2>4, OneCartStays
  <1>9. CASE Poll \/ \E n \in Tasks : Succeed(n)
    <2>1. PICK r \in [sale : Sales, amount : Carts, cart : Carts, via : {"net", "box"}] :
            /\ settled' = settled \cup {r}
            /\ \/ r.sale = uuid /\ r.cart = cart
               \/ \E n \in InProgress : tasks[n].sale = r.sale /\ tasks[n].cart = r.cart
      BY <1>9, SuccessIs
    <2>2. /\ UNCHANGED <<bills, outbox, edited>>
          /\ late' = late \cup Forget
          /\ uuid' = IF uuid \in Sales THEN uuid + 1 ELSE uuid
      BY <1>9 DEF Poll, Succeed, Settle, server
    <2>3. \A n \in InProgress' : n \in InProgress /\ tasks'[n] = Unshown(tasks[n])
      BY <1>9, UnshownIs DEF Poll, Succeed, InProgress
    <2>4. \A n \in InProgress' : /\ n \in InProgress /\ tasks'[n].sale = tasks[n].sale
                                 /\ tasks'[n].cart = tasks[n].cart
      BY <2>3, UnshownIs DEF InProgress
    <2>5. \A u \in Sales, a \in Carts : Bears(u, a)' => Bears(u, a) \/ (u = uuid /\ a = cart)
      BY <2>1, <2>2, <2>4, ForgetIs DEF Bears, Known
    <2> QED BY <2>2, <2>5, OneCartSettled
  <1>10. ASSUME NEW r \in late, ServeLate(r)
         PROVE  OneCart'
    <2>1. /\ UNCHANGED <<cart, uuid, edited, outbox, settled, tasks>> /\ late' \subseteq late
          /\ r.sale \in Sales
          /\ r.op = "create" => r.amount \in Carts
          /\ r.op = "pay" => bills[r.sale] # None
      BY <1>10 DEF ServeLate, page, history, TypeOK, Known, LateKnown
    <2>2. \A u \in Sales : \/ bills'[u] = bills[u]
                           \/ bills[u] # None /\ bills'[u].amount = bills[u].amount
                           \/ r.op = "create" /\ u = r.sale /\ bills'[u].amount = r.amount
      <3>1. CASE UNCHANGED bills
        BY <3>1
      <3>2. CASE /\ r.op = "create" /\ bills[r.sale] = None
                 /\ bills' = [bills EXCEPT ![r.sale] = Bill(r.amount, FALSE)]
        BY <2>1, <3>2, BilledIs
      <3>3. CASE r.op = "pay" /\ bills' = [bills EXCEPT ![r.sale].paid = TRUE]
        BY <2>1, <3>3, PaidIs
      <3> QED BY <1>10, <3>1, <3>2, <3>3 DEF ServeLate
    <2>3. \A u \in Sales, a \in Carts : Bears(u, a)' => Bears(u, a)
      BY <2>1, <2>2 DEF Bears, InProgress
    <2> QED BY <2>1, <2>3, OneCartStays
  <1>11. ASSUME NEW u \in Sales, Sync(u)
         PROVE  OneCart'
    <2>1. /\ UNCHANGED <<cart, uuid, edited, late, settled, tasks>>
          /\ outbox[u] # None /\ outbox[u].amount \in Carts
      BY <1>11 DEF Sync, page, history, TypeOK, RowsOfBox
    <2>2. \A v \in Sales : outbox'[v] = outbox[v] \/ (v = u /\ outbox'[v].amount = outbox[v].amount)
      BY <1>11, SyncedIs DEF Sync
    <2>3. \A v \in Sales : bills'[v] = bills[v] \/ (v = u /\ bills'[v].amount = outbox[v].amount)
      BY <1>11, <2>1, BilledIs DEF Sync
    <2>4. \A v \in Sales, a \in Carts : Bears(v, a)' => Bears(v, a)
      BY <2>1, <2>2, <2>3 DEF Bears, InProgress
    <2> QED BY <2>1, <2>4, OneCartStays
  <1>12. ASSUME NEW u \in Sales, CancelBill(u) \/ TransferPays(u)
         PROVE  OneCart'
    <2>1. /\ UNCHANGED <<cart, uuid, edited, late, settled, tasks, outbox>>
          /\ bills[u] # None
      BY <1>12 DEF CancelBill, TransferPays, Billed, page, history
    <2>2. \A v \in Sales : bills'[v] = bills[v] \/
             (bills[v] # None /\ bills'[v].amount = bills[v].amount)
      BY <1>12, <2>1, CancelledIs, PaidIs DEF CancelBill, TransferPays
    <2>3. \A v \in Sales, a \in Carts : Bears(v, a)' => Bears(v, a)
      BY <2>1, <2>2 DEF Bears, InProgress
    <2> QED BY <2>1, <2>3, OneCartStays
  <1> QED
    BY <1>1, <1>2, <1>3, <1>4, <1>5, <1>6, <1>7, <1>8, <1>9, <1>10, <1>11, <1>12
    DEF Next, Answer

-----------------------------------------------------------------------------
(***************************************************************************)
(* The theorems.                                                           *)
(***************************************************************************)
Sound == TypeOK /\ Known /\ OneCart

\* The first sale comes to an empty screen.
LEMMA SoundInit == Init => Sound
  <1> SUFFICES ASSUME Init PROVE Sound
    OBVIOUS
  <1> USE BoundsType DEF Init
  <1>1. TypeOK
    BY DialogIs DEF TypeOK, DialogRows, Sales
  <1>2. Known
    BY DEF Known, ScreenKnown, TasksKnown, LateKnown, BooksKnown, SettledKnown, InProgress,
           Closed, Sales
  <1>3. OneCart
    BY DEF OneCart, Bears, InProgress
  <1> QED BY <1>1, <1>2, <1>3 DEF Sound

\* A step that changes nothing the terminal or the server knows keeps everything.
LEMMA SoundStutters ==
  ASSUME Sound, UNCHANGED vars
  PROVE  Sound'
  <1>1. TypeOK'
    BY DEF vars, page, server, history, Sound, TypeOK
  <1>2. Known'
    BY DEF vars, page, server, history, Sound, Known, ScreenKnown, TasksKnown, LateKnown,
           BooksKnown, SettledKnown, InProgress
  <1>3. OneCart'
    BY DEF vars, page, server, history, Sound, OneCart, Bears, InProgress
  <1> QED BY <1>1, <1>2, <1>3 DEF Sound

\* Every step keeps the types, what is known and one cart per sale.
LEMMA SoundNext == Sound /\ [Next]_vars => Sound'
  <1> SUFFICES ASSUME Sound, [Next]_vars PROVE Sound'
    OBVIOUS
  <1>1. CASE UNCHANGED vars
    BY <1>1, SoundStutters
  <1>2. CASE Next
    <2>1. TypeOK /\ Known /\ OneCart
      BY DEF Sound
    <2>2. TypeOK' /\ Known'
      <3>1. CASE AddToCart \/ SaveDraft \/ Close \/ Reload \/ GoOnline \/ GoOffline
        BY <2>1, <3>1, TypedPage, KnownPage
      <3>2. CASE Open \/ ServeCreate \/ CreateAnswered \/ CreateFails
        BY <2>1, <3>2, TypedDialog, KnownDialog
      <3>3. ASSUME NEW n \in Tasks, Confirm(n)
            PROVE  TypeOK' /\ Known'
        <4>1. TypeOK'
          BY <2>1, <3>3, TypedConfirmation
        <4> QED BY <2>1, <3>3, <4>1, KnownConfirm
      <3>4. ASSUME NEW n \in Tasks, Store(n) \/ ServePay(n)
            PROVE  TypeOK' /\ Known'
        <4>1. TypeOK'
          BY <2>1, <3>4, TypedConfirmation
        <4> QED BY <2>1, <3>4, <4>1, KnownGoesOn
      <3>5. ASSUME NEW n \in Tasks, StoreFails(n) \/ Refused(n) \/ PayFails(n)
            PROVE  TypeOK' /\ Known'
        <4>1. TypeOK'
          BY <2>1, <3>5, TypedConfirmation
        <4> QED BY <2>1, <3>5, <4>1, KnownFails
      <3>6. CASE Poll \/ \E n \in Tasks : Succeed(n)
        <4>1. TypeOK'
          BY <2>1, <3>6, TypedSuccess
        <4> QED BY <2>1, <3>6, <4>1, KnownSuccess
      <3>7. CASE \/ \E u \in Sales : Sync(u) \/ CancelBill(u) \/ TransferPays(u)
                 \/ \E r \in late : ServeLate(r)
        <4>1. TypeOK'
          BY <2>1, <3>7, TypedServer
        <4> QED BY <2>1, <3>7, <4>1, KnownServer
      <3> QED
        BY <1>2, <3>1, <3>2, <3>3, <3>4, <3>5, <3>6, <3>7 DEF Next, Answer
    <2>3. OneCart'
      BY <1>2, <2>1, <2>2, OneCartNext
    <2> QED BY <2>2, <2>3 DEF Sound
  <1> QED BY <1>1, <1>2

\* It holds in every reachable state.
LEMMA SoundAlways == Spec => []Sound
  BY SoundInit, SoundNext, PTL DEF Spec

\* Cart, draft, dialog, confirmations, outbox and the server's bills keep their types
\* (sell-page.tsx, pay-dialog.tsx, draft-bill-store.ts).
THEOREM CheckoutTyped == Spec => []TypeOK
  <1>1. Sound => TypeOK
    BY DEF Sound
  <1> QED BY <1>1, SoundAlways, PTL

\* A sale the terminal reports as settled is in the books, paid, for what the guest
\* paid and, unless the cart changed under way, for what was in the cart (pay-dialog.tsx
\* and sell-page.tsx): whatever is lost, reloaded, confirmed twice or served late.
THEOREM SettledAreBooked == Spec => []SettledIsInTheBooks
  <1>1. ASSUME Sound
        PROVE  SettledIsInTheBooks
    <2>1. SettledIsBacked /\ AmountIsTheBill
      BY <1>1 DEF Sound, Known, SettledKnown, SettledIsBacked, AmountIsTheBill
    <2>2. BooksMatchTheCart
      <3> SUFFICES ASSUME NEW r \in settled, r.sale \notin edited
                   PROVE  /\ r.amount = r.cart
                          /\ bills[r.sale] # None => bills[r.sale].amount = r.cart
                          /\ outbox[r.sale] # None => outbox[r.sale].amount = r.cart
        BY DEF BooksMatchTheCart
      <3>1. r.sale \in Sales \ edited /\ r.cart \in Carts /\ Bears(r.sale, r.cart)
        BY <1>1 DEF Sound, Known, SettledKnown, Bears
      <3>2. \A a \in Carts : Bears(r.sale, a) => a = r.cart
        BY <1>1, <3>1 DEF Sound, OneCart
      <3>3. bills[r.sale] # None => bills[r.sale].amount \in Carts
        BY <1>1, <3>1 DEF Sound, TypeOK, BillRows
      <3>4. outbox[r.sale] # None => outbox[r.sale].amount \in Carts
        BY <1>1, <3>1 DEF Sound, TypeOK, RowsOfBox
      <3>5. bills[r.sale] # None => bills[r.sale].amount = r.cart
        BY <3>1, <3>2, <3>3 DEF Bears
      <3>6. outbox[r.sale] # None => outbox[r.sale].amount = r.cart
        BY <3>1, <3>2, <3>4 DEF Bears
      <3>7. r.amount = r.cart
        BY <1>1, <3>5 DEF Sound, Known, SettledKnown
      <3> QED BY <3>5, <3>6, <3>7
    <2>3. SyncedSaleIsPaid
      BY <1>1 DEF Sound, Known, SettledKnown, BooksKnown, SyncedSaleIsPaid
    <2> QED BY <2>1, <2>2, <2>3 DEF SettledIsInTheBooks
  <1> QED BY <1>1, SoundAlways, PTL

\* A bill nobody paid is the one on the screen, but for a sale that was sent and then
\* settled offline and one that an older sale's success took off the screen.
THEOREM UnpaidStaysOnScreen == Spec => []UnpaidIsOnScreen
  <1>1. ASSUME Sound
        PROVE  UnpaidIsOnScreen
    <2> SUFFICES ASSUME NEW u \in Billed, ~bills[u].paid, u # uuid, u \notin overtaken
                 PROVE  u \in sent /\ outbox[u] # None
      BY DEF UnpaidIsOnScreen
    <2>1. u \in Sales /\ bills[u] # None
      BY DEF Billed
    <2>2. u \in sent
      BY <1>1, <2>1 DEF Sound, Known, BooksKnown
    <2>3. u < uuid
      BY <1>1, <2>1, <2>2 DEF Sound, Known, BooksKnown, TypeOK, Sales
    <2>4. outbox[u] # None
      BY <1>1, <2>1, <2>3 DEF Sound, Known, BooksKnown
    <2> QED BY <2>2, <2>4
  <1> QED BY <1>1, SoundAlways, PTL
=============================================================================
