# A verification of iLikeBuffet

TLA+ models of the parts of iLikeBuffet in which calls, terminals and failures
meet: the bill ledger, the money of a bill, the checkout screen and the offline
outbox, prices and vouchers, the ingredient stock, purchasing and its payables,
and who may act. TLC checks them on small instances; TLAPS proves, for every
instance, each safety property that TLC checks. Liveness stays with TLC.
`PROJECT.json` maps each definition to the source lines it stands for.

Paths below are under `src/apps/api/src/` (server) and `src/apps/pos/src/`
(terminal) of the repository.

## 1. The system

A NestJS server over one PostgreSQL database and one Redis, POS terminals in the
browser (one open shift per device, an IndexedDB outbox for sales made offline),
an admin application, and a local print agent. All writes of the server that need
a transaction go through `PrismaService.withTx`, which passes no isolation level:
READ COMMITTED. Nothing but row locks and unique keys orders two calls, and many
handlers check before they open their transaction.

| Part | State | Operations | What makes it correct |
|---|---|---|---|
| Bill ledger (`sales/bills`) | `bill`, `bill_counter` | createBill, processBill (sync), allocate, cancelBill | numbers of a (branch, day) without gap or duplicate; a sale is one bill; a number once told is the bill's; a bill never disappears |
| Money of a bill (`sales/payments`, `bills`, `bank-reconcile`, `shifts`) | `payment`, `refund`, `bank_transaction`, `shift` | addPayments, refundBill, ingest, matchToBill, ignore, close, forceClose | paid once and only while COMPLETED; a transfer confirms one bill; refunds within the total; the close counts the cash |
| Checkout (`pages/sell-page`, `pages/pay-dialog`, `db/draft-bill-store`) | cart, draft, one clientUuid, the dialog | createBill, handleConfirmPayment, poll, close, reload | what is reported settled is in the books, for the cart's amount; no unpaid bill is left behind |
| Outbox (`offline/*`) | `offline_outbox`, one timer, one cycle | addToOutbox, runSync, markRetry, clearCommitted | no sale is lost or shown with a wrong number; every good sale is delivered |
| Prices and vouchers (`sales/pricing`, `sales/discounts`, `packages/shared` resolver) | `time_window`, `price_book_version`, `price_cell`, `holiday_entry`, `discount_program`, the till's catalog | edit windows, versions, cells, holidays; resolve; redeem, deactivate | one price per ticket and minute, the same on server and till; the past stands; the quota adds up |
| Stock (`inventory/*`) | `inventory_balance`, `stock_movement`, recipes | sale, cancel, issue, adjust, receive, transfer | balance = sum of movements; a cancel returns what the bill took; no deadlock among bills |
| Purchasing and finance (`inventory/purchase-orders`, `receipts`, `sales/finance`) | `purchase_order`, `supplier_payable`, `financial_transaction` | create, update, approve, reject, send, cancel, receive, paySupplier | sent only approved, received once, payments of a payable add up, codes gapless |
| Access (`auth`, `platform/rbac`, `platform/users`, approval PIN) | `app_user`, `role`, Redis, the capability cache | login, pinLogin, refresh, revoke, lock, reset, approve, setCapabilities, deleteRole | a lockout is not bypassed; a revoked token stops working; an administrator remains |
| Reports, audit, import, admin, print | - | read-only queries, INSERTs, parsing, I/O | - |

How they interact: a bill call reads the shift and the prices, takes the counter
lock, inserts the bill under its unique keys, then moves stock, all in one
transaction. The outbox turns offline sales into batches of processBill calls,
which the server runs concurrently (`Promise.all`), pricing each again. Payments,
refunds, cancels, bank transfers and the close of the shift then work on the same
bill and shift rows, in transactions of their own. Cancelling returns stock.
Approvals verify a PIN in the middle of those transactions. Receiving an order
moves stock and creates the payable.

What is hard: checks made before a transaction or on unlocked reads; lock orders
that differ between handlers; retries and duplicate deliveries; a reload, a lost
answer or a late request between any two steps on the terminal; caches refilled
with what was read before an edit; a connection held while another is awaited; a
day or shift that ends while calls are in flight. `PROJECT.json` lists the hazards
one by one ("hazards"), each at its line with the properties that watch it.

## 2. Modules

| Module | Models | State of the code | Steps |
|---|---|---|---|
| `BillLedger` | createBill, processBill, allocate, cancelBill | `counter`, `bills`, `moves` are the committed tables, `holder` and `rowLock` the row locks, `pc req seq reply` / `xpc target returning` the calls in flight | one per SQL statement another transaction can see |
| `ReceiptBook` | the abstract promise: one book per (branch, day), pages appended, stamped void, never torn out | `pages`, `voided` | Issue, Void |
| `Settlement` | addPayments, refundBill, cancelBill (money side), ingest, matchToBill, ignore, close, forceClose | `bill`, `payments`, `refunds`, `bank`, `shift`, row `lock`s | check, re-read, write, commit of each handler |
| `Checkout` | sell page, pay dialog, draft store; createBill, addPayments and processBill as one atomic step each | `cart dialog tasks` are in memory, `draft uuid outbox` survive a reload, `bills` is the server, `late` the requests nobody waits for | one per awaited step |
| `Outbox` | outbox-store, sync-engine, network status; the server as one atomic answer per bill | `box` is IndexedDB and survives; `timer cycle batch todo answers` are in memory and do not; `requests late` are on the wire | one per awaited step |
| `Pricing` | windows, versions, cells, holiday entries, the resolver, catalog cache, price of a sale, vouchers, the connection pool | `windows versions holidays voucher` are tables, `till` the terminal's cache and its sales, `at seen` the calls in flight | one per awaited query; the resolver is an operator |
| `StockLedger` | applyDelta, applyConsumption, setCounted and the handlers that call them | `balance`, `movements`, locks; `legs view written` of each open transaction | one per locked balance row |
| `Procurement` | every purchase-order handler, receive, finance create, paySupplier | `order payable entries` are tables, `at req seen attempt` the calls in flight | the read with its checks, each count, each write with its commit |
| `Access` | login, pinLogin, approval PIN, refresh, the guard with Redis, revoke, lock, reset; setCapabilities, deleteRole, the capability cache | `acct` is the user row, `live admins` the roles, `redis caps` the caches, `tokens` what was issued | one per awaited query or Redis command |
| `BillLedger_proofs`, `Settlement_proofs`, `Checkout_proofs`, `StockLedger_proofs`, `Procurement_proofs`, `Access_proofs` | theorems about the module each is named for (section 4) | | |
| `Till_proofs` | theorems about `Outbox` and `Pricing`, the two things a till depends on while it is offline; it extends both, so the specification of `Pricing` has names of its own (`PriceSpec`, `PriceTypeOK`, ...) | | |
| `Sums` | lemmas about adding up a field of a set of rows, used by the proofs about money and stock | | |

How they fit. `Settlement` starts where `BillLedger` ends (bills COMPLETED and
unpaid); `BillLedger.moves` is the coarse view (out once, back once) of what
`StockLedger` does ingredient by ingredient; `Outbox.Processed` is the coarse view
of the processBill that `BillLedger` splits. `Checkout` composes the terminal with
coarse views of all three: its `ServeCreate` is `BillLedger`'s createBill with its
dedup, its `ServePay` `Settlement`'s addPayments, its `Sync` one delivery of
`Outbox`. `Pricing` is what `BillLedger` leaves out of a bill call; `Procurement`
the two tables `StockLedger`'s receipt leaves out. The mapping of rows is direct: a
row is named by the call that inserted it, an UPDATE of a row is its lock followed
by a commit that publishes it, a failed statement or a crash is a rollback.

Overlap. Many guards of this code hold only as long as no other call on the row is
between its check and its write. `Settlement`, `Procurement`, `Access` and `Pricing`
keep a history variable `raced`: the rows or topics on which two calls that meet
were in flight together, at any time. A property that says "unless raced" is then
checked in the same run, with every interleaving on, for the rows that were not,
and the README names what the overlap breaks (section 5). The history is never
read by a guard.

Kept out on purpose: several lines per bill, audit rows (INSERTs in the caller's
transaction that lock nothing anybody waits for), formatting of numbers and codes,
and the opening float. In `Settlement` a client's request splits the total into a
cash part and a rest, because only the cash part matters to the close. In
`StockLedger` quantities are whole units, in `Checkout` an item costs one. In
`Procurement` an order's lines are the edit they come from and their value. In
`Pricing` there is one ticket type, which every tracked sale buys once; free
tickets (price 0 by type) and the first hour after midnight are left out
(`toVnMinuteOfDay` formats with `hour12: false`, which some ICU builds print as 24).

## 3. Runs

| Run | Bounds | Question |
|---|---|---|
| `BillLedger_numbers` | 3 bill calls, 1 branch, 1 shift, 2 days, 1 sale (or none), 2 contents | numbers, dedup and answers under any interleaving and failure |
| `BillLedger_cancels` | 2 bill calls, 2 cancels, 2 branches (one a mistake), fair | stock, append-only, refinement of `ReceiptBook`, every call ends |
| `Settlement_calls` | 3 calls, all at once, 2 bills, 2 transfers (one memo names both bills), 1 shift | what the locks and conditional updates guarantee always, and every guard without overlap |
| `Settlement_double_payment` | 2 calls, 1 bill | violation, see section 5 |
| `Checkout_sales` | 2 sales, 2 items, 2 confirmations at once, 2 faults of any kind, fair | what is settled is in the books, nothing is left unpaid, every sale settles |
| `Outbox_sync` | 2 sales (one the server may refuse), a cap of 2 attempts, 3 faults of any kind, shift may close, fair | no row lost, no wrong number, no double submission, delivery or the flag at the cap |
| `Outbox_stranded` | 1 sale, 1 fault, fair | violation, see section 5 |
| `Pricing_book` | ten desks of 2 to 4 calls, 2 days (the second a weekend), 2 minutes, prices 0 to 2, quota 1, 3 connections, fair | price of online, offline and synced sales; the past; quota; the pool |
| `StockLedger_moves` | 3 calls, 2 branches, 2 ingredients, lots at 7 and 2, recipe edited at any time | sums of movements, who may overdraw, what a cancel gives back, moving averages, which calls can deadlock |
| `StockLedger_ends` | 3 calls, 1 branch, 2 ingredients, fair | every transaction ends although receipts and sales can wait in a circle |
| `Procurement_races` | 4 calls, 1 order and 1 payable there at the start, values 1 and 3 around a limit of 2, 3 code attempts | the life of an order and of the debt it becomes |
| `Access_calls` | 3 calls, any of which may fail between two statements, 1 account, 2 roles, limits of 2 (sign-in, approval) and 3 (quick login) | locks, revocation, caches, last administrator |

Why the bounds are enough. Two calls are what any race here needs; a third is
there to arrive after one of them rolled back or committed, the case in which
gapless numbering, dedup and code retries are hard. Two days separate the server's
clock from the date a synced bill carries, and a version's first day from the day
before. One sale suffices for dedup since sales of different keys meet only at the
counter. Two ingredients are the shortest lock order that can be reversed, two
branches what a transfer needs. Three connections let two sales hold one each and
starve a third reader. The faults of `Outbox` and `Checkout` share one budget, so
that every pair of them occurs in any order. `Outbox` has more faults than attempts
(3 and 2), so that a good bill is answered "retry" up to the cap and past it;
attempts above the cap are all alike (the code counts on, and decides on "at
least 5" only). `Access` and `Pricing` bound the calls of a behaviour to one "desk"
of operations that touch the same rows, listed in the MC module: calls of two desks
share no row. Limits of failed tries are lowered to 2 and 3, the smallest that keep
"one before the limit" apart from the first try and the two PIN limits apart from
each other. `LastDay`, `MaxAttempts`, `MaxFaults`, `MaxSales`, `MaxItems`,
`MaxTasks`, `MaxCalls`, `Desks`, `MaxDay`, `MaxMinute` and the sets of calls are all
the bounds.

Deadlock is checked in `BillLedger`, `Settlement`, `StockLedger` and `Procurement`,
where the states in which all calls are answered are allowed to stutter
explicitly. `Outbox` and `Checkout` rest by design when nothing is pending;
behaviours of `Access` and `Pricing` end when their calls are used up (a call of
`Pricing` that waits for ever would violate `EveryCallEnds`; no step of `Access`
waits for another call). Symmetry is used on calls, sales and (in `StockLedger`)
branches where only safety is checked.

Several checked properties are conjunctions of named parts, each stated with its
comment in the module:

| Property | Parts |
|---|---|
| `BillLedger.AnswersAreTrue` | `AnswerIsTheBill`, `MismatchIsReal` |
| `Settlement.MoneyAddsUp` | `PaidMeansPaid`, `PaidOnceUnlessRaced`, `RefundsWithinTotal` |
| `Settlement.DecidedStaysDecided` | `TransferDecidedOnce`, `PaidWhileCompleted`, `ShiftEndsOnce` |
| `StockLedger.BalancesAddUp` | `BalanceIsSumOfMovements`, `AverageWithinPrices` |
| `Procurement.BooksAddUp` | `CodesGapless`, `PaidIsBooked`, `PaidWithinDebt`, `PaymentsAddUp` |
| `Procurement.OrderKept` | `LimitKept`, `OwedOnce`, `LinesOfOneEdit` |
| `Checkout.SettledIsInTheBooks` | `SettledIsBacked`, `BooksMatchTheCart`, `AmountIsTheBill`, `SyncedSaleIsPaid` |
| `Access.EditsTakeEffect` | `OldTokenRefused`, `EditsSeen` |
| `Access.RolesStand` | `AdminRemains`, `HeldRoleStays` |
| `Pricing.PricesAgree` | `WindowsDisjoint`, `BillBearsItsPrice`, `OfflineHasCause` |

Every property of a passing run has a mutant in `PROJECT.json`, and the conjunctions
have several: a plausible bug in one definition ("Mutated form" or "Mutant" in the
modules) under which the run fails.

### Fairness

* `BillLedger`, `StockLedger`: each call's next step, weakly. Node runs every
  continuation, PostgreSQL every statement whose lock is free, and detects
  deadlocks. No client has to call, no transaction has to fail.
* `Pricing`: some call steps, weakly; a step may be the timeout of Prisma's pool or
  of its transactions, which is on by default.
* `Outbox`: the engine's own steps, an answer or an error for a request, the
  server working through its requests, and the network returning. Nobody has to
  force-close a stuck bill: no screen of the terminal calls that endpoint.
* `Checkout`: the draft is saved, the network returns, a request is answered or
  fails, and a cashier who keeps trying: opens the dialog over a cart, confirms,
  closes an error. Nothing else of the cashier is assumed, and neither is a late
  request ever served.

## 4. Proofs

Each safety property of the passing runs, invariant or action property, is a
theorem of the specification the run checks. So is the refinement of
`ReceiptBook`.

| Module | Theorems (property) |
|---|---|
| `BillLedger_proofs` | `TypeCorrect` (TypeOK), `NumbersAreGapless` (Gapless), `LedgerGrows` (LedgerOnlyGrows), `SalesAreSingle` (OneBillPerSale), `AnswersHold` (AnswersAreTrue), `StockIsReturnedOnce` (StockFollowsBill), `LedgerIsReceiptBook` (ImplementsBook) |
| `Settlement_proofs` | `SettlementTyped` (TypeOK), `MoneyIsRight` (MoneyAddsUp), `TransfersConfirmOnce` (OneBillPerTransfer), `DecidedStays` (DecidedStaysDecided), `ClosesCount` (CloseCountsTheCash) |
| `Checkout_proofs` | `CheckoutTyped` (TypeOK), `SettledAreBooked` (SettledIsInTheBooks), `UnpaidStaysOnScreen` (UnpaidIsOnScreen) |
| `Till_proofs`, of `Outbox` | `OutboxTyped` (TypeOK), `ShownIsOfficial` (ShownNumberIsOfficial), `CycleOwns` (CycleOwnsItsBatch), `RowsKeptUntilNumbered` (KeptUntilNumbered) |
| `Till_proofs`, of `Pricing` | `PricesTyped` (PriceTypeOK), `PricesAlwaysAgree` (PricesAgree), `QuotaAlwaysAddsUp` (QuotaAddsUp), `PastAlwaysStands` (PastStands) |
| `StockLedger_proofs` | `StockTyped` (TypeOK), `BalancesAlwaysAddUp` (BalancesAddUp), `BillsGiveBack` (ReturnsWhatItTook), `BillsNeverDeadlock` (BillsNeverCircle) |
| `Procurement_proofs` | `ProcurementTyped` (TypeOK), `OrdersAreKept` (OrderKept), `BooksAlwaysAddUp` (BooksAddUp) |
| `Access_proofs` | `AccessTyped` (TypeOK), `CountsAlwaysLock` (CountsLock), `EditsAlwaysTakeEffect` (EditsTakeEffect), `HeldStays` (HeldStaysHeld), `RolesAlwaysStand` (RolesStand) |

They hold for all sets of calls, sales, bills, branches, roles and ingredients, all
amounts, and any number of days, minutes, connections, attempts and faults. The assumptions on the
constants stand in the modules, and TLC evaluates them on every run:

* a value that stands for "nothing" is none of the things it stands beside
  (`NoneDistinct`, `NoneIsNoRow`, `NoneIsNoCall`, `NoSaleDistinct`, `NamesDiffer`), as
  null is no row;
* amounts, limits and bounds are natural numbers, positive where the DTOs or the
  constants of the code say so (`AmountsType`, `TriesType`, `QuantitiesType`, ...);
* a terminal has finitely many sales (`SalesFinite`);
* the order in which ingredient ids sort is one sequence without repetition
  (`IdOrderType`);
* there is a role (`RolesExist`: the migration that creates the table fills it);
* the prices a cell may get are bounded, as 32-bit integers are, and a day has a
  minute (`PriceBounds`). A price may be 0, as `upsertPriceCell` allows; no price is another
  thing (`NoneIsNoRow`). The first version is made of the least and the greatest price.

### Arguments

None of the properties is inductive as it stands. Each proof module begins with
the invariant that is; TLC finds each true on the constants of the runs. A step of
one call is proved in two parts: a lemma per action for the call that steps, and one
lemma for all the others (`OthersStay` and its kind), which is where interference is
dealt with.

* **Ledger.** Nothing in `Gapless` says that the number a transaction carries is still
  the next one when it commits. `Numbered` adds that a call between its FOR UPDATE
  and its commit holds the counter lock and carries lastNo + 1 (`LockHeld`), and
  states per key that the filed numbers are complete and distinct (`Filed`). Every
  action then leaves the tables alone, files the bill of the one holder, or stamps a
  bill (`LedgerSteps`). `OneBillPerSale` rests on the unique key alone (`SaleReserved`);
  the dedup reads are not used, which shows that they are an optimisation and not the
  guard. `ImplementsBook` follows: a commit is an Issue because the number is the next
  page, the first cancel a Void, everything else leaves both mapped variables alone.
* **Money.** A call that read a bill relies on what it read until its write, unless
  another call on the bill was in flight: the invariant says so for each place in a
  call, and that two calls in flight on one bill are in `raced`. The row locks of the
  bank transfers (`RowHeld`) carry what no overlap can break.
* **Checkout.** The dialog is about the cart on the screen, a confirmation in progress
  about a sale that is or was on it, a late request about a sale that was sent
  (`ScreenKnown`, `TasksKnown`, `LateKnown`); from these each way a sale is reported as
  settled leads back to a paid bill or an outbox row.
* **Outbox.** What the cycle holds in memory fits the marks on the rows (`MarksFit`,
  `WireFits`), and every number in an answer is the server's (`AnswersOfficial`).
* **Stock.** A transaction's view has exactly the rows it locked, its legs stay in the
  order of the ids (`InOrder`), and what it wrote plus what was committed is what its
  view shows (`InBooks`). A circle of waiting calls would have a call that waits for
  the smallest row of all while it holds a larger one; that no legs allow. For
  `ReturnsWhatItTook`, a bill's row lock makes the second of two cancels read the
  first one's movements (`TakingBack`, `TakenBack`).
* **Purchasing.** As for money, per order and per payable; codes are gapless since
  an insert whose code is taken is retried, whatever it had counted.
* **Access.** A call that fails between two statements leaves what it has written (`CallFailsSound`).
  `Fits` says what a call has read at each place, `Fresh` that it still
  holds unless a call on the same topic was in flight (`Overlaps`), and `StaleEntry`
  that a Redis entry older than the row is about to be dropped, raced, or was left by
  a bump on record.

* **Prices.** What `raced` records when a call arrives gives `MetIsRaced`: two calls in
  flight that touch a topic are on record. So while a checked window waits to be
  written nobody else writes windows (`WindowsFit`), and while a sale reads the book
  nobody writes what it reads (`SalesFit`): the price at its commit is the price at
  its date. The till has no lock and no overlap to name; it has a stamp. Each stamp
  (of the cache, the query under way, the price shown, the sale, the upload) is at most
  the number of writes so far, and what bears the newest is the book (`Stamped`); a
  write makes all of them old at once (`TillAges`), which is "moved" at the upload. So
  a sale whose stamp is the newest was paid what the book has for it (`PaidIsBooks`):
  the server's price is the same, and a sale refused for its payment of 0 has no
  price there, or the price 0 (`CommitHasCause`, `RejectHasCause`).
* **The past.** A call that edits a cell edits a version that has not begun
  (`EditsFit`), so the versions begun on a past day are the ones they were
  (`PastStandsCell`). A new version is the newest of its scope or leaves the newest
  as it was (`NewestMore`): if it bears the cells in force, both resolve to the same
  cells (`PastStandsVersion`). `Newest` is a CHOOSE; that a newest version exists and is
  unique (`SomeBeatsAll`, `OneBeatsAll`) follows from bounded days and ids.
* **Vouchers.** Only the holder of the row is between its check and its decrement, and
  it saw a use left (`VoucherFits`).

Sums over a set of rows are folds, that is recursion over data; `Sums` proves what
they need (adding, removing and changing one row, splitting a set) by a minimal
counterexample in the well-founded order of the subsets, without an induction
theorem. The sorted list of ingredients and the newest version exist by the same
argument.

### What stays with TLC

The liveness properties (`EveryCallAnswered`, `EveryQueuedBillCommits`,
`EveryTransactionEnds`, `EverySaleSettles`, `EveryCallEnds`): fairness and ENABLED are
out of the prover's reach. And the two runs that end in a violation, which are
counterexamples.

## 5. What the runs found

Two runs end in a violation of something a comment or a header of the repository
states ("findings" in `PROJECT.json` quotes each):

* `Settlement_double_payment`: `addPayments` re-reads the bill without a lock; of two
  payments in flight both see it unpaid and both are recorded.
* `Outbox_stranded`: a reload in the middle of a sync cycle leaves a row in "syncing",
  which no later cycle reads.

### What overlap breaks

`Settlement_calls` shows that the first is a race and not a mistake of the
handler's own logic (`PaidOnceUnlessRaced`). Dropping "unless raced" from a
property gives a counterexample of two or three calls for each of:

* `PaidOnceUnlessRaced` again: `applyPayment` locks the bank transaction, not the bill;
  a transfer and a payment by hand both commit.
* `RefundsWithinTotal`: `refundBill` sums without a lock, so two refunds can exceed the
  total, against the comment at `bills.service.ts:410`.
* `PaidWhileCompleted`: the re-read of `addPayments` looks at paidAt only; a cancel
  that commits after the pre-check leaves a CANCELLED bill with payments.
* `CloseCountsTheCash`: `close` sums the cash and stores the sum in two statements; a
  payment that commits between them is in no count.
* `ShiftEndsOnce`: both closes check the status on a plain read and update by id.
* `LimitKept`, `OwedOnce`, `LinesOfOneEdit`: every purchase-order handler
  checks outside its transaction and writes by id. An order edited while it is
  sent leaves unapproved, two receipts of one order are two debts, a cancel and a
  receipt both win, two edits leave both their lines.
* `PaymentsAddUp`: `paySupplier` writes paidVnd from a read before its transaction, so
  of two payments both are booked and one counts. What survives any overlap:
  paidVnd is never above the debt nor above what was booked.
* `AdminRemains`, `HeldRoleStays`: two edits of roles each count on the other's role;
  a role given while `deleteRole` counts its users is deleted from under its holder.
* `HeldStaysHeld`: a login that read the row before an administrator locked it ends
  with lockedUntil = null (and a failing one with the timed lock in its place).
* `OldTokenRefused`, `EditsSeen`: a guard or a check in flight with the revocation or
  edit refills the cache with what it read before; both entries then live to
  their TTL.
* `WindowsDisjoint`, `PastStands`: overlap and "not yet in force" are checked on
  unlocked reads; two edits both pass, and an edit checked before midnight is
  written after it.

### Other differences met while modelling

* Outbox. A rejected bill is stored as "retry" and submitted by each later cycle,
  against the comment at `sync-engine.ts:122` ("don't retry indefinitely"). A
  request that fails while the browser is online schedules no further cycle
  (`sync-engine.ts:95-103`). Once the shift has closed, processBill throws, which
  sync and force-close both answer with "retry": a sale printed offline is then
  never accepted, although `sync.controller.ts:78-80` says that force-close accounts
  for it. At the cap on attempts a row is left as "retry" and no timer is set
  (`sync-engine.ts:128-131`): it stays until something else triggers a cycle, a sale or
  the network. `EveryQueuedBillCommits` names these exceptions, with the reload of
  `Outbox_stranded`: delivered, or flagged at the cap, or stopped by one of them.
* Checkout. Closing the dialog unmounts it (`{payOpen && <PayDialog>}`), so the
  header comment's "billId is kept in state" never applies, and the effect that
  would print after success finds its dialog gone. The success of a confirmation
  whose dialog was closed wipes whatever sale is on the screen by then
  (`UnpaidIsOnScreen` names it). A sale whose create reached the server but was
  settled offline is deduplicated at sync and stays unpaid on the server
  (`SyncedSaleIsPaid` names it). A bill cancelled from elsewhere blocks its
  clientUuid until a success drops it (`EverySaleSettles` names it).
* Pricing. A ticket without a price (no window, version or cell) is sold offline at 0
  and uploaded with a payment of 0 (`pay-dialog.tsx:261`), which `validateSyncPayments`
  refuses as corruption (`sync.service.ts:110-115`, `:359`) before any price is looked
  up: "rejected", at every later sync and at force-close, against the comment at
  `sync.service.ts:169-170`, "Offline sync never rejects a printed sale on a missing
  price (accepts at 0, flags for accounting)". A ticket whose cell has the price 0 ends
  the same way. `OfflineHasCause` names this refusal: with its last disjunct dropped,
  `Pricing_book` ends in this counterexample. `allowOwnPrice` is set by `setBranchPriceFlag` and read by nothing. A
  version may be created with a past date and reprices those days.
* Access. `users.service` bumps the token version on lock and reset without touching
  Redis: an old token passes until the entry expires (at most 20 s).
  A call that fails between the count of a wrong try and the lock it should set
  (`verifyApprovalPin` inserts an audit row there) leaves the count at its limit and
  no lock, until the next wrong try sets it: `CountsLock` names it. `deleteRole` awaits
  its audit row between the deletion and the drop of the cached capabilities; if that
  fails they are answered until their TTL (`EditsSeen` names it).
  `users.create/update` does not look the role up in the role table, against
  `schema.prisma:181-183`.
* Stock. `applyConsumption` takes the on-hand quantity below zero by design, against
  the header of `inventory-balance.service.ts` ("never allowed below zero"), after
  which `applyDelta` can refuse a delivery.

## 6. Not modelled, and the plan

Not modelled for good: the admin application, UI package, mockups, print agent,
Excel import, master data CRUD other than holidays, reports and audit export. They
hold most of the repository's lines (screens, seeds, parsing, read-only queries,
single-row writes), keep no state two actors meet on, and a model of them would
restate them; that is why the mapped share of all lines stays small although the
handlers that do meet are mapped nearly whole.

Left out of modelled parts: opening a shift, recordVoid, setRecipe's validation,
changePassword, createRole and updateRole, device binding, the category and report
endpoints of finance, creating and editing a discount program, several price
types per bill, gap detection and FIFO cost (pure functions of committed rows).

`Outbox` has one tab: a second tab, or an engine that survives its screen, would run a
cycle of its own over the same rows. No screen of the terminal locks or logs out
without a reload, so one tab has one engine. Two server processes would have two
capability caches and one Redis; `Access` has one process; nothing
in the repository starts a second.

Of what the runs check, no safety property is left to prove. A next step would be to
check and prove a property across two components that now share only an interface,
such as the stock of a bill across `BillLedger` and `StockLedger`.

## 7. Running it

    tlc -workers 4 -config Settlement_calls.cfg MCSettlement
    tlapm BillLedger_proofs.tla     # and the other *_proofs modules, and Sums

Each `.cfg` names its specification and properties; the module to give TLC is the
`MC` module of the same prefix.
