# nuqta-plus in TLA+

Models, model-checking runs and machine-checked proofs for nuqta-plus, a
point-of-sale and shop-management system: a Fastify/PostgreSQL server
(`src/backend`) and a Vue client inside an Electron shell (`src/frontend`) that
also installs, starts and updates the server.

The server is where the state and most of the concurrency are. Several tills on
a LAN, a job scheduler, courier webhooks and polling all write the same tables.
Most handlers have one shape: **read** a row through the connection pool and
validate that snapshot, then open one READ COMMITTED transaction and **write**,
partly with relative updates and partly with absolute values computed from the
snapshot. What is right or wrong about this code is decided between those two
phases, between two transactions of one handler, and between a transaction and
a call to the outside: a courier, a message provider, a client that retries. On
the desktop it is decided between two file operations of a process that may die.
The models are built around these gaps.

## 1. Inventory

| Part | State it keeps | Operations | What is hard about it | What makes it correct |
|---|---|---|---|---|
| Sales (`saleService`) | invoice row with items, payments, returns; number counter; customer's cached debt | create, addPayment, cancel, restoreSale, createReturn, createDraft, completeDraft, removeSale, deleteOldDrafts | snapshot read before the transaction; absolute writes; rounding to a bucket; long sequences of legal calls | no overselling, unique numbers, balanced rows, cash that exists, debt = receivables, returned ≤ sold |
| Installment invoices (`saleService`, `installmentActionService`) | installment rows, payments, log of collections | schedule, payment over several installments, cancel, restore, payment recorded by a collector | the invoice and its schedule are read in two queries and written back absolutely; the last share takes the rounding | the schedule asks for what is owed; reminders stop when nothing is |
| Idempotency (`utils/idempotency`) | stored answers by key | look up, run, store | three statements that nothing holds together | a key runs its handler once |
| Inventory (`inventoryService`) | `product_stock` rows, `stock_movements`, cost layers | postings of sale, restore, purchase, adjustment, transfer, purchase reversal and return | row locks taken in different orders; stock computed in JavaScript and written back | rows never diverge from the log; no undue negative stock; a layer drawn once; transactions end |
| Warehouse transfers (`warehouseTransferService`) | transfer request with its status | create, approve, reject | status read outside the write | nothing moves before approval, an approved one has moved |
| Purchases (`purchaseService`) | invoice, supplier's cached debt, returns, vouchers | create, opening invoice, addPayment, cancel, createReturn | same shape as Sales, while sales draw on the layers | paid = vouchers; returned ≤ bought; goods given back once |
| Online orders (`onlineOrderService`) | order row, status, linked sale | create, update, delete, updateStatus, convertToSale, returnOrder, syncStatusFromShipment | money operation and status flip are two transactions; retries; courier against clerk | one invoice per order; a committed order has one; it matches the order; legal status moves |
| Delivery (`deliveryService`, adapters, `deliverySyncJob`) | shipments, events, order status by callback | createShipment, cancel, resend, handleWebhook, syncStatus, the polling job | lost, late, repeated and reordered messages; timeouts; restarts | a finished parcel closes its shipment; a delivery reaches the order |
| Accounting periods | period row, frozen snapshot | open, close, automatic close, assertWritable | writers check before their transaction, close locks | a closed period stays closed and its report true; one open period per scope |
| General ledger | journal entries, posting failures | postDocument, repost, ignore, reverseEntry, manual entries | failure valve inside the document's transaction; double posting | an entry is mirrored once; drift from the documents is on record |
| Treasury, vouchers, expenses | documents with the vouchers minted for them | create, edit, cancel, delete | documents and vouchers changed by different handlers | the cash book mirrors the expenses |
| Recurring expenses (`recurringExpensesService`, job) | template with rule, last run and next due date | generateDue by the clock, at start and by hand; create, edit, pause, resume, delete | a run reads once and writes absolute dates at its end; calendars; stops half-way | no date skipped, none charged twice, catch-up |
| Notification queue | notification rows with leases | enqueue, claim, send, mark, retry | crash between send and mark; leases | sent once unless something explains the repeat; every message settles |
| Backend update (`backendUpdater`, `security`, `backendManager`) | the payload's directory entries, what was moved aside, the lock | lock, stop, move aside, copy, validate, discard or restore | the process may die between any two file operations; a service that does not stop | some whole version of every file survives; all or nothing |
| Application update (`updater/`) | state machine, install marker, maintenance flag | check, download, back up, install, verify after relaunch | a second click while the first one waits; a state machine that does not survive the relaunch | an install is prepared; flag and marker are explained |
| Job scheduler | timers | registration, runs | early return; overlap of runs | every job runs |
| Printing (Electron) | jobs, ready tokens | submit, ready, time out | signal races its timeout | a job's window is freed |
| Catalogue, users and permissions, currencies, reports, credit scoring, settings, HTTP layer, licensing, client | plain tables or none | row-by-row CRUD, checks, queries | little | validation |

How they interact: online orders call the sales engine in-process
(`createSale`, `cancel`, `createReturn`); sales, purchases and transfers call
the inventory postings inside their own transaction; delivery calls
`syncStatusFromShipment` after its own transaction has committed; every money
document asks the accounting period before its transaction and posts to the
ledger inside it when those features are on; recurring runs create expenses one
by one through `expensesService`; reminders of installments enqueue
notifications; the idempotency plug-in wraps the payment routes. The desktop
stops and starts the server's service around an update of its files, while the
application's own installer may replace those same files.

`PROJECT.json` lists every part with its status, and under `hazards` the places
where each of these difficulties bites, with the property that watches over it.

## 2. Modules

| Module | Models | Code it stands for |
|---|---|---|
| `Sales` | the nine state-changing handlers of `saleService`, one action per read phase and one per transaction | `saleService.js` |
| `StockLedger` | what the stock postings promise: rows and log change together, one posting at a time | abstract |
| `Inventory` | the postings and the transfer approval, statement by statement, with row locks, rollbacks and the deadlock detector | `inventoryService.js`, `warehouseTransferService.js` |
| `Purchases` | purchase invoices with their layers, vouchers and the supplier's debt, against sales that draw on the layers | `purchaseService.js`, `inventoryService.js`, `openingBalanceService.js` |
| `OrderWorkflow` | the status constants and the transition map | `constants/orders.js` |
| `OrderStatus` | what an order's status may do: a request plans a legal move and writes it later, or not at all | abstract |
| `OnlineOrders` | the order handlers with every step a separate transaction that may fail | `onlineOrderService.js` |
| `Fulfilment` | shipments, courier, webhooks, polls, restarts; composed with `OrderStatus` | `deliveryService.js`, adapters, `deliverySyncJob.js` |
| `Books` | periods, expenses, vouchers, transfers, ledger entries and posting failures under overlapping writers and closers | `accountingPeriodService.js`, `expensesService.js`, `voucherService.js`, `treasuryService.js`, `gl/` |
| `Idempotency` | look-up, handler, stored answer of a keyed request | `utils/idempotency.js` |
| `Collections` | an installment invoice paid, collected on, cancelled and restored, its clients' payments behind `Idempotency` | `saleService.js`, `installmentActionService.js` |
| `Recurring` | a template, its calendar, overlapping runs and edits | `recurringExpensesService.js`, its job |
| `Notifications` | the message queue with its workers, leases, fallbacks and retries | `services/notifications/` |
| `BackendUpdate` | the swap of the backend's files, one file operation per step | `backendUpdater.js`, `security.js`, `backendManager.js` |
| `AppUpdate` | the application's own update, its marker, flag and state machine | `updater/` |
| `Desktop` | both in one process that closes, dies and is relaunched | composition |
| `MC*` | instances for TLC | |
| `Sums`, `SumTheorems` | sums over a finite set of rows, and what is true of them | |
| `SalesProofs`, `InventoryProofs` | theorems about the modules they are named after | |
| `OrdersProofs` | theorems about `OnlineOrders` and `Fulfilment` | |
| `BooksProofs` | theorems about `Books` | |
| `DebtProofs` | theorems about `Idempotency`, `Collections` and `Purchases` | |
| `JobsProofs` | theorems about `Notifications` and `Recurring` | |
| `DesktopProofs` | theorems about `BackendUpdate`, `AppUpdate` and `Desktop` | |

Composition and refinement:

    Sales          one transaction = one step   (justified by Inventory)
    Inventory      implements  StockLedger      (proved: AtomicPostings)
    OnlineOrders   implements  OrderStatus      (proved: ImplementsOrderStatus)
    Fulfilment     composes    OrderStatus with the shipment handlers
    Collections    extends and implements Idempotency     (proved: PaymentsUseKeys)
    Desktop        composes    BackendUpdate with AppUpdate
                   and implements BackendUpdate           (proved: BackendUnharmed)

`Fulfilment` does not repeat invoices; it sees an order only as `OrderStatus`,
and the theorem `ImplementsOrderStatus` shows that this is all of an order's
status there is to see. `Desktop` lets the application's update act on the
backend's files only through `BackendUpdate`'s own actions, which is what makes
the theorems of `BackendUpdate` hold for the composition.

Ghost variables. Several promises of this code hold only while certain things
do not happen, and the models record that they happened instead of excluding
it: `calm` (Books, Collections, Recurring) and `orderly` (Purchases) turn false
when two requests overlap; `excused` (Idempotency) is the keys two attempts overlapped on
or whose answer was lost after the commit; `excuses` (Notifications) counts per
message the mishaps that may repeat it, and `spoilt` the keys whose dedupe read
may mislead; `spoilt`, `aged` and `doubt` (BackendUpdate) say that a swap was cut
short or overlapped, that a lock outlived its ten minutes, that an update cannot
be sure its swap was alone; `tangled` (AppUpdate) that two installs were in
flight; `kept` and `edited` (Recurring) that no run's progress was lost and that
somebody changed the rule. They influence no guard.

### Sales

`sale[s]` is the invoice row with what hangs off it: quantity, total, paid,
remaining, returned, the sum of its payment rows, its number and status.
`moved[s]` is the sum of its stock movements, `stock` the warehouse, `debt` the
customer's `total_debt`, `nextValue` the invoice counter. `req[r]` holds what a
request has read so far. Each `Begin...` action is a handler's read phase with
its early refusals, each `Commit...` its transaction; a refused request leaves no
trace and is not a step. `createReturn` reads twice (the invoice, then the prior
returns), so it has a `ReadReturns` between.

Decided and worth knowing:

- One product, one warehouse, one customer. Amounts are whole units of the
  currency's smallest bucket; `Tolerance` is 1 for the dinar's 250 bucket and 0
  for a cent.
- Cash and credit invoices; installments are in `Collections`, treasury, ledger
  and periods in `Books`. Multi-branch only adds refusals.
- `removePayment` compares the caller with `payments.userId`, a column the table
  lacks, and therefore always refuses; it is no action.
- `removeSale` and `completeDraft` delete rows, which a foreign key refuses once
  returns exist; payments and returns that find the row gone abort; cancel and
  restore of a removed row do not look and still move stock and debt.
- The unique-number trigger and several unique indexes that comments of the
  schema mention ("see migration ...") are in no migration of this commit. The
  models rely on none of them. For `order_number` and `shipment_number`, which
  the schema requires and comments say a sequence fills in, the models assume
  the default the comments describe.

### Inventory and purchases

In `Inventory` a transaction is a list of statements; each is a step that locks a
stock row, changes it, locks or writes cost layers. `seen` is what the
transaction has read or written so far, published at `Commit`. A waiting
statement is simply not enabled; when transactions wait in a circle
`BreakDeadlock` rolls one back. `Crash` ends a connection at any point. One
product; layers of a warehouse are added up; expiry is left out.

`Purchases` has the two postings that `Inventory` leaves out, the reversal of a
purchase and the return to a supplier, with layers kept apart: each invoice has
its own layer, `Loose` stands for those of everybody else. A return draws on its
own layer first and then on any others that make up the rest (`Draws`), a
cancellation must find its whole layer untouched (`TakeBack`). Payments,
cancellations and returns are a read step and a transaction each; `Sell` draws
on any layers at any time. Vouchers are the invoice's only record of payment.

### Online orders and fulfilment

`OnlineOrders` has one order, any number of invoices that could be linked to it,
and a `desk` per request that remembers what it read and what it will do next.
`updateStatus` is read, side effect (sell, cancel or return everything), flip,
each in a transaction of its own; `Fail` may strike before any of them, which
stands for an error, a refusal by the sales engine and a restart alike.

`Fulfilment` keeps `dispatch` (what a request to the carrier is waiting
for), `parcel` (the carrier's truth), `mail` (events the carrier has
sent: each may come at any later time, in any order, or never; one whose key is
recorded is ignored), `feed` (webhook and poll handlers in flight) and `errand` (staff's
cancellations and resends). Carrier statuses between pick-up and delivery are
merged into one. A repeated create request can make a second parcel if the
instance has one; the run does not. Courier
statuses the code maps to UNKNOWN change nothing and are left out.

### Books

`period[p]` is a row of accounting periods with the expense total of its frozen
report; `doc[d]` an expense, a manual voucher or a treasury transfer with the
voucher minted for it; `journal[e]` an entry, its amount and how often it was
mirrored; `failure[f]` a posting failure. A writer is two steps, the look-up of
the period (or the assertion that the document's period is writable) and the
transaction, which writes the document, its voucher, the reversal of the old
entry and the new one or a failure row. `PerformClose` is the only function that
closes: the manager, the sweep, the boot and any look-up that finds the open
period expired call it, and it reads the status again under a lock. An entry
is its amount: the balance of its lines is arithmetic inside one function.

### Installments and idempotency

`Idempotency` is one attempt after another at a key: `LookUp` finds nothing, the
handler commits or fails, `StoreAnswer` or the loss of the answer follows. The
handler is left open; `Collections` fills it in with `addPayment`, so that the
commit of a client's payment and `HandlerCommits` are one step. A collector's
payment (`recordAction`) carries no key; after its commit a second step reads the
invoice again and links its newest payment (`LinkAction`). A payment reads the
invoice and its installments in two steps (`ReadSale`, `ReadPlan`), because
`getById` does, and distributes the amount with a fold over the installments.
`Schedule` is the code's own rounding: equal shares rounded up, the last one
carrying the drift.

### Recurring expenses

`template` is the row, `live` the dates that have an expense row, `made` how often
one was created for a date. A run is its read (`BeginRun`), one booking per due
date (`Book`, or an existing row passed over), a stop at the first date that
cannot be booked (`Stop`), and the final write. `NextAfter` and `ComputeNextDue` are
the date functions over a calendar given as a parameter; `Occurs`, which the
properties use, is a second definition of the same dates that does not walk. An
edit is a read and a write. `accepting` is whether an expense can be booked, the
`Books` side of it seen from here.

### Notifications

A worker selects due rows, claims the batch with an UPDATE that looks at the
status again (`ClaimedOf`), and takes the batch row by row: provider call, log
row, mark, or fallback to the other channel. Each statement may fail, each answer
may be lost, the process may die; a lease expires at any moment. Settings are
read per row. `Deployments` pairs the number of workers with the bounds on
mishaps, so that one run covers one worker with two messages and two workers with
one.

### The desktop

`BackendUpdate` is a set of directory entries. `live` is what each holds, `aside`
what each update renamed away, `service` the image the running service loaded.
The synchronous sections hold the process's only thread: `thread` names the
update that is in one, and only `Die` may come between its file operations. A
copy may stop part-way and leave an entry `Torn`. Everything awaited (stop,
health check, start) lets other updates, clicks and timers in.

`AppUpdate` is the second updater: the table of transitions as the code has it
(`Transitions`; an illegal one throws, `Can` is false), electron-updater's answers
as actions, clicks on "install" that may be in flight together, marker and flag
as files. `Desktop` joins them: one process, one thread, closing and dying hit
both; the installer replaces the backend's files.

## 3. Runs

Eleven runs must pass; one shows a disagreement between the code and its own
words. An invariant that is a conjunction of named parts is listed with them:
each part has a definition and a comment of its own in the module.

| Run | Question | Bounds |
|---|---|---|
| `sales_concurrent` | Which promises survive two requests at once over every handler? Stock never negative, numbers unique, no invoice claims cash that is not there | 2 invoices, 2 requests, 5 accepted |
| `sales_serial` | One request at a time, with the dinar's rounding and callers without the override: do rows, cash and debt agree (`MoneyAgrees` = `RowBalanced`, `CashReconciles`, `DebtIsReceivable`), do stock, log and invoices (`GoodsAgree` = `StockMatchesLog`, `ReturnedWithinSold`, `StockReflectsSales`), does the hard ceiling hold? | 3 invoices, quantities 1 and 2, price 2, tolerance 1, limit 4, 5 requests |
| `inventory_locks` | Are statement-by-statement postings atomic to each other, do the locks keep layers from being drawn twice and opposite transfers from waiting in a circle (`LocksSuffice`), has every approved transfer moved, does every transaction end? | 2 warehouses with 1 unit each, 2 connections, 1 transfer, 3 requests |
| `purchases_shared` | Two overlapping requests and sales of the same goods: do layers, stock and invoices agree (`GoodsExplained`), is no payment claimed without a voucher; and, without overlap, do amounts and debt agree (`MoneyExplained`)? | 2 invoices, quantities 1 and 2, discounts 0 and 1, 1 unit in stock, 6 requests and sales |
| `orders_one_clerk` | With failures, retries and two couriers: is an order invoiced once and for what it says (`InvoicedAsOrdered`), has a committed order its invoice, does the status refine `OrderStatus`? | 2 invoices, quantities 1 and 2 |
| `fulfilment_polling` | Is nothing said delivered or returned that the carrier does not say (`ReportsAreTrue`), is a missed delivery caught in the end, and told to the order? | 1 clerk, dispatcher, shipment, parcel, webhook and poll; 1 restart; 2 attempts |
| `books_shared` | Writers, posters and closers overlap: does a closed period stay closed, do vouchers mirror expenses, is an entry reversed once; and, without overlap, is one period open with the closed ones' reports true (`PeriodsReliable`), is drift of the ledger on record? | 2 periods, 1 document, 3 entries, 2 failures, amounts 1 and 2, 2 requests, 5 accepted |
| `collections_retries` | Payments are retried, collected, overlap: does a key's handler run once, do schedule, payments, debt and collectors' log agree (`CollectionsAgree`), do reminders follow the debt? | 2 requests, 1 key, total 4 in up to 3 installments, amounts 1 and 2, tolerance 1, 3 requests |
| `recurring_catchup` | Two runs overlap with each other, edits, pauses, failures: is no date skipped, are the dates those of the rule (`DatesInOrder`), does a deleted expense stay deleted, does the job catch up? | 2 runs; weekly, monthly and yearly rules; months of 1, 1, 1, 2, 1, 1 days, years of 2 months, weeks of 2 days; days 0 to 2; 2 dates per run; 3 changes; 1 mishap |
| `notifications_workers` | Crashes, lost answers, a second worker, retries by staff: is a repeated message explained (`SendsExplained`), a key live once, does every message settle? | 1 key, 2 attempts, batch 1; one worker and two messages, or two workers and one; 1 mishap |
| `desktop_updates` | The process may die between any two file operations: is every file recoverable, an update all or nothing, are lock and flag true (`MarksAreTrue`), is an install prepared, did the new files run before the old ones go, does every swap end? | 2 updates, 2 bundles over 2 entries, 2 releases, 2 clicks, 1 check, 1 fault |
| `desktop_verification` | *violated*: after a relaunch with an install marker the verification never finishes | 1 click, 1 check, no faults |

Why these bounds are enough to be interesting. Every race in this code is
between two snapshots, so two requests suffice to lose an update; five requests
allow create, partial payment, return, cancel and restore of one invoice, with
two invoices sharing stock and debt; three invoices are needed for the ceiling
(one cancelled and restored beside two others). Two warehouses and two
connections give every two-party lock cycle. A second invoice id is what a
double sale needs. One restart is enough to lose each piece of in-flight work
once. In Purchases six requests let an invoice be received, paid, returned in
part and cancelled while another's layer is drawn on. In Books three entries are
an entry, the one after an edit and one posted again; two periods are one
closing and its successor. A total of 4 in three installments is the smallest
whose shares round up to something that the last one must give back; two
amounts pay less than, exactly and more than one share. Of the calendar one month
is longer than the others, so that the same rule falls on a clamped day and on
its own; two dates per run make a run stop before it is done. Two attempts are one retry; two updates are the
least with a previous one's leftovers or a second one beside it, and two entries
let a bundle replace some files and not others.

`MaxRequests`, `MaxTrades`, `MaxRestarts`, `Attempts`, `MaxChanges`, `MaxMishaps`, `Horizon`,
`MaxCount`, `Deployments`, `MaxUpdates`, `MaxFaults` and `MaxChecks` are bounds of
the models; the id sets bound the number of rows. `MaxCatchup`, `BatchSize`,
`MaxAttempts` are constants of the code (1000, 10 and 5 there). Deadlock checking is off
except for the desktop: elsewhere requests are bounded, and an order that is
finished asks for nothing more. Ids are symmetry sets where only safety is
checked.

What does *not* hold without a proviso: with two clerks `OneInvoice` and
`InvoiceMatchesOrder`; with two requests at once the sums of Sales, of Purchases,
of the schedule and of the ledger, because payments and returns write back
absolute amounts. `NoPhantomCash`, `NoPhantomPayment` and `NoPhantomInstallment`
say what remains true: a payment may be forgotten, but never invented.

Fairness.

- `Inventory`: strong fairness of each transaction's next statement (PostgreSQL
  queues lock waiters, and Node runs handlers to their end) and weak fairness of
  the deadlock detector (`deadlock_timeout`).
- `Fulfilment`: strong fairness of beginning a poll of each candidate (the
  scheduler's interval comes round again and again, each run takes every
  candidate; the batch limit of fifty is not modelled) and of a poll's next step
  (the carrier's API answers now and then), weak fairness of webhook handlers.
  Nothing is assumed of staff, of the carrier's parcels or of webhooks arriving.
- `Notifications`: weak fairness of each worker's next step (an interval timer and
  a handler that runs to its end; a crashed worker is started again) and of time:
  a delayed retry comes due, a lease expires. Nothing is assumed of providers.
- `Recurring`: weak fairness of some run beginning (the daily timer and the run
  at start) and of each run's steps. The days need not pass.
- `Desktop`: weak fairness of each update's steps while the application runs
  (every await in the swap is bounded by a timeout or a child process that
  exits), of the relaunch, and of the verification it starts. Nothing is assumed
  of clicks, checks, answers of electron-updater or the installer.

Finding, shown by `desktop_verification` and quoted in `PROJECT.json`: a
relaunched process builds its state machine in IDLE, from which the first
transition of the verification is illegal; marker and maintenance flag stay.

Every property of a passing run has a mutant (an operator marked `mutant`
beside the definition it would replace) under which TLC finds it violated.

## 4. Theorems

Proved with TLAPS for every value of the constants. Every safety property and
every action property that a passing run checks is a theorem below; liveness is
not (see the end of this section).

Sales, for any number of invoices. The last three suppose that requests come one
at a time (`OneRequest`, as in the run `sales_serial`), because two overlapping
ones do break them.

| Theorem | Statement | Argument |
|---|---|---|
| `SalesProofs!TypeCorrect` | `Spec => []TypeOK` | amounts are naturals because what is collected is capped by the total and what is subtracted by what is there; one lemma per row-building operator, one case per action |
| `SalesProofs!NoOverselling` | `Spec => []StockNeverNegative` | stock falls only through `TakeStock`, which tests under the row lock |
| `SalesProofs!LogExplainsStock` | `Spec => []StockMatchesLog`, a part of `GoodsAgree`, with requests overlapping | every handler moves stock and log of one invoice by the same amount; the rest is `SumChange` |
| `SalesProofs!NumbersNeverShared` | `Spec => []InvoiceNumbersUnique` | strengthened by `NumbersBelowNext`: every number in use is below the counter, which only grows, so a number given out is new |
| `SalesProofs!NoInventedCash` | `Spec => []NoPhantomCash` | strengthened by `SnapshotsCovered`: the amounts in the snapshots in flight are themselves covered by payment rows, which are only added to while the invoice lives |
| `SalesProofs!GoodsAgreeInTurn` | `OneRequest`, then `Spec => []GoodsAgree` | `Rows` (what each row says adds up, status by status, with the goods moved under it) and `Undisturbed` (what the request in flight has read is still so; only the nightly deletion of drafts may have come between, and only to a draft) |
| `SalesProofs!MoneyAgreesInTurn` | `OneRequest`, then `Spec => []MoneyAgrees` | the same, and each handler changes the customer's debt by as much as it changes what its invoice owes (`Follows`) |
| `SalesProofs!CeilingRespectedInTurn` | `OneRequest`, then `Spec => CeilingRespected` | `UnderCeiling`: a sale about to be inserted still fits under the ceiling it was read against, because nothing that raises the debt comes between |

Stock postings and transfers, for any warehouses and connections.

| Theorem | Statement | Argument |
|---|---|---|
| `InventoryProofs!AtomicPostings` | `Spec => PostsAtomically`, that is `Inventory` implements `StockLedger` | inductive invariant `LocksHold`: while a transaction holds a row, what it has seen is the committed stock plus its own change, and the sum it will publish equals what it will log. Without it `Commit` could publish a stale quantity |
| `InventoryProofs!ApprovalMoves` | `Spec => []ApprovedHasMoved` | inductive as it stands once `LocksHold` is known: only `Commit` writes a decision, and the one that writes "approved" publishes the moved rows in the same step |
| `InventoryProofs!LayersLast` | `Spec => []LayersStillThere` | `LayersCover`: what a transaction has drawn from a warehouse, with the layers it holds locked there, covers what it has still to take, and its remaining statements seed the layers before they draw on them (`InOrder`). Without the order a draw could find layers nobody had locked |
| `InventoryProofs!LocksAreEnough` | `Spec => []LocksSuffice`: types, layers, and that transfers do not wait in a circle | `LockOrder`: the statements a transfer has left lock rows in ascending order, above all it holds, and touch layers only where it holds the row. In a circle the holder of the highest row that is waited for would itself wait for a higher one |

Orders and their shipments.

| Theorem | Statement | Argument |
|---|---|---|
| `OrdersProofs!TypeCorrect` | `Spec => []TypeOK`, with returned ≤ sold on each of an order's invoices | `Inv`, next row |
| `OrdersProofs!CommittedIsInvoiced` | `Spec => []CommittedHasInvoice` | `Inv` adds what requests in flight know: one about to write a committed status has seen or made the invoice, and a linked sale never becomes unlinked; one that undoes a sale is about to end the order. Nobody is at work before the order exists |
| `OrdersProofs!ImplementsOrderStatus` | `Spec => StatusMovesLegally`, that is `OnlineOrders` implements `OrderStatus` | each action is shown to keep `Inv` and to be a `Place`, `Remove`, `PlanMove`, `CourierReports`, `Write` or `GiveUp`, or to leave status and intentions alone |
| `OrdersProofs!InvoicedOnceAndInFull` | with at most one clerk, and any couriers, `Spec => []InvoicedAsOrdered` | `AsOrdered`: a request about to sell, edit or delete has found the order there, without an invoice, and with the quantity it has now; couriers only ever flip. A second clerk's request breaks each of these, and so the property |
| `OrdersProofs!NothingSaidThatIsNotSo` | `FulfilmentSpec => []ReportsAreTrue` | `FInv`: messages in the mail speak of parcels the carrier has, and truly of their ends (`MailFits`); a shipment the carrier is still being told of has no parcel, so its answer cannot replace one a report has found (`CallFits`); a report keeps the shipment it found (`Fits`). An end of a parcel is final (`Goes`), which is why lateness does no harm. For any number of shipments and parcels, where the run has one of each |

Books. The first three hold with requests overlapping; the last two are
properties of the calm, their statements say so.

| Theorem | Statement | Argument |
|---|---|---|
| `BooksProofs!VoucherIsTrue`, `ReversesOnce` | `Spec => []VoucherMirrorsExpense`, `Spec => []ReversedOnce` | `IInv`: the two with `Linked` (what a request has read of its document or entry and may still count on when it writes) and `OneByOne` (while `calm`, one request is at work). Without `Linked` a cancellation could reach an expense, whose voucher it would leave behind |
| `BooksProofs!ClosesForGood` | `Spec => ClosedForGood` | only `PerformClose` and the insertion of a period write periods, and the one demands an open row, the other an absent one |
| `BooksProofs!ReportsCanBeTrusted` | `Spec => []PeriodsReliable` | `CInv` over `IInv`: a request nobody overtook still finds its period open (`Ready`), so a report can change only with the period it was frozen from |
| `BooksProofs!LedgerFollowsDocuments` | `Spec => []DriftOnRecord` | `Tracked`: each document has exactly one posted entry, of its amount, or a failure that explains what it has; a failure still waiting has no entry beside it, which is what keeps a later posting from doubling it |

Purchases, installments and keys.

| Theorem | Statement | Argument |
|---|---|---|
| `DebtProofs!GoodsStayExplained` | `PurchaseSpec => []GoodsExplained` | `Explained`, `Snapped`: whatever came between, an invoice's quantity never changes and a cancelled one has no layer; draws and stock fall together, and `LayersWithinStock` follows from the sums of both |
| `DebtProofs!PaidHasVouchers` | `PurchaseSpec => []NoPhantomPayment` | `Snapped`: the amount a payment has read is covered by vouchers still there when it writes, as these only grow while the invoice stands |
| `DebtProofs!MoneyStaysExplained` | `PurchaseSpec => []MoneyExplained` | `CInv`: while `orderly`, what the request has read is the row it overwrites (`Fresh`), each row is `Settled`, and the supplier's debt is the sum of what the invoices owe less the openings |
| `DebtProofs!KeysRunOnce` | `KeysSpec => []RunsOnce` | `KeysInv`: the attempts on a key that nothing excuses come one at a time (`Alone`), none after its answer was stored (`AnsweredForGood`), and a commit is stored or about to be (`Accounted`) |
| `DebtProofs!PaymentsUseKeys`, `PaysOnce` | `Spec => KeysSpec`, `Spec => []RunsOnce` | every step of `Collections` is a step of `Idempotency` or leaves its variables alone |
| `DebtProofs!InstallmentsAgree` | `Spec => []CollectionsAgree` | the allocation of a payment is followed installment by installment through a table of what is left after each set of them (`Spreads`). For the calm, `InPeace`: what a request has read is what is there, and schedule, invoice and debt say the same. For overlaps, `HighWater`: there is one assignment of amounts to installments that is above the plan and above every plan some request has read, and within what was collected; a write raises it by its own payment at most |
| `DebtProofs!RemindersFollow` | `Spec => []RemindersFollowDebt` | from the same invariants |

Jobs.

| Theorem | Statement | Argument |
|---|---|---|
| `JobsProofs!SendsHold` | `Spec => []SendsExplained` | `Counted`: the accepted sends of a row, and the one each worker that holds it without an answer may still make (`Owing`), stay within the excuses and one; an unsent row nobody holds has its free send unused |
| `JobsProofs!KeysHold` | `Spec => []OneLivePerKey` | `Dedupes`: a key that no excuse has spoilt has at most one live row, or one enqueue in flight that has seen none, never both |
| `JobsProofs!NoDateSkipped` | `RecurringSpec => []NothingSkipped` | `Faithful`: as long as nobody edits, all runs walk the template's rule, and every date before a run's cursor, as before the template's next one, has had its expense. So a run's late write cannot skip one even where it moves the template back or forth |
| `JobsProofs!DatesFollowRule` | `RecurringSpec => []DatesInOrder` | the calendar first: its recursive numbering of the days exists and increases, every day has one month and one year, and `FirstDue` and `NextAfter` give the next date on which `Occurs` holds, with nothing in between, for each of the four frequencies. Then `InStep`: in the calm the template and the run have such dates |
| `JobsProofs!ChargedOnce` | `RecurringSpec => []DeletedStaysDeleted` | `NoDouble`: while no progress is lost, nothing after the last run's date was charged (`Reached`), and a run only books later dates |

The desktop.

| Theorem | Statement | Argument |
|---|---|---|
| `DesktopProofs!Recoverable` | `BackendSpec => []PayloadRecoverable` | what an update past its swap, or dead, has left aside is never touched again (`Kept`); one about to overwrite an entry holds it aside, or it is kept (`Guarded`); with a free thread a whole version is in place or kept (`Covered`) |
| `DesktopProofs!Atomic` | `BackendSpec => []AllOrNothing` | `Whole`: while nothing has spoilt it, one update at a time is at work and every entry is exactly where its stage puts it |
| `DesktopProofs!LockIsTrue` | `BackendSpec => []LockGuardsSwap` | the lock is part of the same inductive invariant |
| `DesktopProofs!RunsBeforeDiscard` | `BackendSpec => RanBeforeDiscard` | `Fresh`: while nothing casts doubt on an update it is the only one, the service is down until its files are in place, and what runs afterwards was loaded from them |
| `DesktopProofs!BackendUnharmed` | `Spec => BackendSpec`, that is `Desktop` implements `BackendUpdate` | step by step; the four theorems above hold for the desktop by it |
| `DesktopProofs!Prepared`, `FlagIsExplained` | `Spec => []InstallIsPrepared`, `Spec => []MaintenanceExplained` | `Calm` (with one click in flight the machine stands at the state that click has reached, so no other event lifts the flag or voids the backup), `Armed` (an armed timer finds the marker written), `Quiet` (a closed application has nothing in flight) |
| `DesktopProofs!TypeCorrect`, `MarksHold` | `Spec => []TypeOK`, `Spec => []MarksAreTrue` | from both invariants |

Sums. The models add up rows with a fold of the community modules over a finite
set, whose order nothing fixes. `SumTheorems` proves what the theorems need of
it: that a row may be taken out (`SumRemove`), that a step which changes one row
changes the sum by as much (`SumChange`), that sums are monotone, split, and
are natural if their rows are. An induction scheme cannot be instantiated in
this prover; the lemmas take a smallest counterexample instead, among the
subsets of the finite set (`Smallest`). The calendar's numbering of the days and
the allocation of a payment are treated in the same way.

A failed proof found one exception. Once rounding has made a share negative,
the schedule may show more than was collected: with `MaxCount = 5`,
`Totals = {3}` and `Amounts = {1}`, two overlapping payments show 3 where 2 came
in, which the bounds of the run do not reach. `NoPhantomInstallment` and
`HighWater` therefore speak of schedules without a negative share.

Assumptions: the named `ASSUME` of each module (`SalesAssumption`,
`InventoryAssumption`, `OnlineOrdersAssumption`, `FulfilmentAssumption`,
`BooksAssumption`, `PurchasesAssumption`, `KeysAssumption`,
`CollectionsAssumption`, `NotificationsAssumption`, `RecurringAssumption`,
`CalendarAssumption`, `BackendAssumption`, `AppAssumption`). They say that
counts are naturals; that prices, amounts and quantities are positive and
discounts not negative, which the handlers' validation demands; that ids and
special values are distinct; that rows which are added up, and workers, are
finitely many; that a rule has the ranges `#normalizeRule` gives it; and that
the modelled calendar has the days which runs and edits up to the horizon ask for
(the real one has no last day). TLC evaluates all of them on the runs' values.

Only model-checked is liveness, which is out of the prover's reach, as `ENABLED`
is: `EveryTransactionEnds`, `MissedDeliveriesCaught`, `DeliveryReachesOrder`,
`EverythingSettles`, `CatchesUp`, `EverySwapEnds`; and of course the violated
property of `desktop_verification`.

## 5. What the models say beyond the properties

Behaviour the models contain and no property forbids, either because nothing in
the repository promises otherwise or because a property states the proviso under
which the promise is kept.

Sales and stock. Two returns of one line at once return more than was sold. A
cancellation after a partial return puts the returned units back a second time.
A payment settles a draft and issues it without a number; cancelling a draft
restores stock it never took; two completions of one draft renumber it.
Completing a draft never asks the hard ceiling (`saleService.js:2779`), although
the comment at 231-234 speaks of every credit sale, and two sales of one customer
at once pass it together. An approval and a rejection at once both succeed: the
later write decides, the goods have moved.

Orders and delivery. Two confirmations at once both invoice the order; the
comment at `onlineOrderService.js:576-577` relies on a unique index that neither
`schema.js` nor a migration has. A planned move overwrites RETURNED or CANCELLED
written meanwhile, and a clerk's stale flip DELIVERED. An order cancelled from
PROCESSING keeps a sale that `convertToSale` made; a courier's DELIVERED may close
an order that was never invoiced; a courier's RETURNED restores no stock; a
restart between the shipment's transaction and the order's is never repaired. A
webhook delivered twice, or at once with itself, is applied twice: only a read
guards it. Two requests may dispatch one order, and a carrier that times out after
taking a parcel gets a second one; a shipment still PENDING after a restart stays
so until staff resend it.

Purchases. Of two payments at once one is forgotten. A payment that lands on an
invoice cancelled meanwhile is kept. A discounted invoice returned in full
refunds more than was paid. A return that lists a line twice is checked per
item, not in sum. Opening invoices are not in the supplier's cached debt, but
their payments and cancellations are.

Books. A writer that has passed its check commits into a period closed
meanwhile. A manual entry is reversed twice by two requests at once; a failure
posted again after its expense was edited posts it twice. An automatic close that
failed, followed by an opening, leaves two open periods. With the treasury off,
deleting an expense leaves no cancelled voucher because there is none.

Installments and keys. The last installment is what is left after the other
shares were rounded up, R − share·(count − 1): zero or negative for many small
amounts (1250 dinars in four: 500, 500, 500, −250). Such a row stays pending, and is reminded of,
on a settled invoice. Installments are read without ORDER BY. The step of
`createReturn` that reworks installments is never reached, because returns of such invoices are
refused earlier. A payment that races a cancellation revives the invoice. Of two
collectors both may link the newer payment. No screen sends the Idempotency-Key
header; only other clients of the API can.

Recurring expenses. A run that overlaps an edit of the rule writes the old rule's
next date back, and a weekly template then stays on the old weekday. A run whose final write
was lost, or two runs at once, create an expense again that a user had deleted.
A template paused during a run is charged by it; resuming charges every
date missed while paused. A new start date is ignored once the template has run.

Notifications. The claim's UPDATE looks at the status again but neither at
lease nor at due time: a row that one worker has claimed and another had selected
with an expired lease is claimed by both, and one that was put back for later is
claimed early; the comment at `notificationQueue.js:25-26` promises a worker that may be
started twice. The dedupe read returns one row, which may
be a failed one beside a live one. A log row that cannot be written after the
provider's yes makes the message go out again.

Desktop. `UPDATER_REQUIRE_BACKUP=1` refuses every install, because `main.js`
passes no producer of backup files. `StopBackend` never throws in service mode: a
service that does not stop may answer the health check of files it has not
loaded, and the old ones are then discarded. The state reported after a rollback
is "ready" whether or not the old backend answered. Nothing looks for leftovers
of an interrupted swap at start; they are recoverable by hand only. The lock's
release does not ask whose lock it is. A quit that fails leaves the marker. An
install that finishes after the machine has failed writes its marker and then
throws. The maintenance flag is read by no part of the server.

## 6. Not modelled, and what is left

Not modelled, and why: the application's legacy updater (`autoUpdater.js`; the
models follow `UPDATER_V2=1`), staging, hashes and the pointer file, which in
service mode only names versions, and the development-mode restart policy; printing
(one process, one promise per job; a ready signal after its timeout is kept
for ever, `printReadyStore.js:39`); document numbering (the statement is the same
as the invoice counter's); the scheduler's registration (a list of timers, with
an early return that skips them all when credit scoring is switched off);
catalogue, users, permissions and settings (row by row); reports, ageing and
alerts (they only read); credit scoring (statistics); backup and remote access
(external programs); licensing (signatures); the HTTP layer and the Vue client,
which decides nothing the server does not check again. The client and the
reports are most of the repository's lines, which is why the models stand for a
small share of them.

Left for later: two shipments per order in the run of `Fulfilment` (its theorem
has any number) and the job's batch limit; ledger entries of sales and purchases
in `Books`; several lines per purchase and several products per transaction.
