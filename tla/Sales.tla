------------------------------- MODULE Sales -------------------------------
(***************************************************************************)
(* The life of sale invoices in backend/src/services/saleService.js, with  *)
(* the warehouse stock they draw on (inventoryService.js) and the customer *)
(* debt they book.                                                         *)
(*                                                                         *)
(* Every handler has the same shape.  It first READS the invoice through   *)
(* the pool, outside any transaction, and validates that snapshot; then it *)
(* opens one READ COMMITTED transaction in which it WRITES, partly with    *)
(* relative updates (totalDebt + x, a locked stock row) and partly with    *)
(* absolute values computed from the snapshot.  The model keeps that       *)
(* shape: one action per read phase, one per transaction, and requests     *)
(* interleave between them.  A transaction is one step: all of its writes  *)
(* become visible at COMMIT, a throw rolls back every one of them (Abort). *)
(*                                                                         *)
(* One product in one warehouse, one customer.  The feature flags that add *)
(* further tables to the same handlers (installments, treasury, general    *)
(* ledger, accounting periods) are off here: their calls are no-ops then.  *)
(* Amounts are counted in the smallest denomination of the currency, in    *)
(* which roundByCurrency is the identity.                                  *)
(***************************************************************************)
EXTENDS Integers, Sums

CONSTANTS
    Sales,          \* ids the sales table can hand out
    NoSale,         \* "no row yet", the sale of a request that inserts one
    Requests,       \* HTTP requests that can be in flight at the same time
    Ops,            \* the handlers the clients of this instance call
    Quantities,     \* base-unit quantities a line can ask for
    Price,          \* net price of one base unit
    InitStock,      \* product_stock.quantity at the start
    Tolerance,      \* 1 for IQD (one 250 bucket), 0 for USD (a cent)
    CreditLimit,    \* customers.credit_limit
    MayOverride,    \* the callers hold sales.override_credit_limit
    MaxRequests     \* bound: requests accepted over a behaviour

ASSUME SalesAssumption ==
    /\ NoSale \notin Sales
    /\ IsFiniteSet(Sales)
    /\ Quantities \subseteq Nat \ {0}
    /\ Price \in Nat \ {0}
    /\ InitStock \in Nat
    /\ Tolerance \in Nat
    /\ CreditLimit \in Nat
    /\ MayOverride \in BOOLEAN
    /\ MaxRequests \in Nat

VARIABLES
    sale,           \* the sales row and what hangs off it (items, payments, returns)
    moved,          \* per sale, the sum of its stock_movements.quantity_change
    stock,          \* product_stock.quantity
    debt,           \* customers.total_debt
    nextValue,      \* invoice_sequences.next_value
    req,            \* what each request in flight has read so far
    handled         \* requests accepted so far, capped by MaxRequests

ledger == <<sale, moved, stock, debt, nextValue>>
vars == <<sale, moved, stock, debt, nextValue, req, handled>>

Issued == {"pending", "completed", "partially_returned", "returned"}
Statuses == Issued \union {"absent", "draft", "cancelled", "removed"}
OpNames == {"create", "addPayment", "cancel", "restore", "return",
            "createDraft", "completeDraft", "remove", "deleteDrafts"}

\* number 0 is the DRAFT- placeholder; wh says the row has a warehouse_id;
\* payRows, refunds, returned and retVal are sums over the payments,
\* sale_returns and sale_return_items rows that point at the sale.
SaleRow == [status : Statuses, number : Nat, wh : BOOLEAN, qty : Nat,
            total : Nat, paid : Nat, rem : Nat, payRows : Nat,
            refunds : Nat, returned : Nat, retVal : Nat]

NoRow == [status |-> "absent", number |-> 0, wh |-> FALSE, qty |-> 0,
          total |-> 0, paid |-> 0, rem |-> 0, payRows |-> 0,
          refunds |-> 0, returned |-> 0, retVal |-> 0]

Request == [op : OpNames \union {"idle"}, step : {"idle", "read", "write"},
            sale : Sales \union {NoSale}, snap : SaleRow,
            qty : Nat, amount : Nat, wh : BOOLEAN, prior : Nat, priorVal : Nat]

Idle == [op |-> "idle", step |-> "idle", sale |-> NoSale, snap |-> NoRow,
         qty |-> 0, amount |-> 0, wh |-> FALSE, prior |-> 0, priorVal |-> 0]

Lesser(a, b) == IF a <= b THEN a ELSE b
AtLeastZero(a) == IF a < 0 THEN 0 ELSE a

Exists(s) == sale[s].status \notin {"absent", "removed"}
HasReturns(s) == sale[s].returned > 0

\* Accounts receivable: the remaining amount of every row not cancelled.
Receivable ==
    SumOver([s \in Sales |-> sale[s].rem],
            {s \in Sales : Exists(s) /\ sale[s].status # "cancelled"})

CeilingPerSale(rem) == rem > 0 => MayOverride \/ rem <= CreditLimit  \* mutant

\* enforceCustomerCreditLimit: what is owed already plus what this sale adds.
WithinCreditLimit(rem) ==
    rem > 0 => MayOverride \/ Receivable + rem <= CreditLimit

PaidStatus(rem) == IF rem <= 0 THEN "completed" ELSE "pending"

-----------------------------------------------------------------------------
(* The helpers the handlers share *)

\* A request arrives, passes its read-phase checks and keeps what it read.
Accept(r, op, s, q, a, w) ==
    /\ op \in Ops
    /\ req[r] = Idle
    /\ handled < MaxRequests
    /\ handled' = handled + 1
    /\ req' = [req EXCEPT ![r] =
                [op |-> op, step |-> IF op = "return" THEN "read" ELSE "write",
                 sale |-> s, snap |-> IF s = NoSale THEN NoRow ELSE sale[s],
                 qty |-> q, amount |-> a, wh |-> w, prior |-> 0, priorVal |-> 0]]
    /\ UNCHANGED ledger

\* The request's transaction commits and its response is sent.
Finish(r, op) ==
    /\ req[r].op = op
    /\ req[r].step = "write"
    /\ req' = [req EXCEPT ![r] = Idle]
    /\ UNCHANGED handled

NumberPeeked == UNCHANGED nextValue  \* mutant

\* allocateInvoiceNumber: the upsert locks the counter row until COMMIT, so
\* no two transactions return the same value; it rolls back with the sale.
AllocateNumber == nextValue' = nextValue + 1

\* The part of customers.total_debt an invoice books is forgiven, not below 0.
DebtKept(amount) == debt  \* mutant
WriteOff(amount) == IF amount > 0 THEN AtLeastZero(debt - amount) ELSE debt

TakeUnchecked(s, q) ==  \* mutant
    /\ stock' = stock - q
    /\ moved' = [moved EXCEPT ![s] = @ - q]

\* applyStockChangeTx for a sale: the stock row is locked, re-read, and the
\* change is refused when it would leave a negative quantity.
TakeStock(s, q) ==
    /\ stock >= q
    /\ stock' = stock - q
    /\ moved' = [moved EXCEPT ![s] = @ - q]

\* restoreSaleStockMovement: never refused, skipped without a warehouse.
PutStock(s, w, q) ==
    LET back == IF w THEN q ELSE 0
    IN  /\ stock' = stock + back
        /\ moved' = [moved EXCEPT ![s] = @ + back]

-----------------------------------------------------------------------------
(* create *)

\* The amount collected is capped at the total, the rest is the balance.
BeginCreate(r) ==
    \E q \in Quantities : \E p \in 0..(Price * q) :
        /\ WithinCreditLimit(Price * q - p)
        /\ Accept(r, "create", NoSale, q, p, TRUE)

\* The row of an issued invoice for q units of which p is collected now; a
\* completed draft keeps the payments and returns that hang off it.
Issue(row, q, p) ==
    [row EXCEPT !.status = PaidStatus(Price * q - p), !.number = nextValue,
                !.wh = TRUE, !.qty = q, !.total = Price * q, !.paid = p,
                !.rem = Price * q - p, !.payRows = @ + p]

CommitCreate(r) ==
    \E s \in Sales :
        LET q == req[r].qty
            p == req[r].amount
        IN  /\ sale[s].status = "absent"
            /\ Finish(r, "create")
            /\ AllocateNumber
            /\ sale' = [sale EXCEPT ![s] = Issue(NoRow, q, p)]
            /\ TakeStock(s, q)
            /\ debt' = debt + (Price * q - p)

-----------------------------------------------------------------------------
(* addPayment *)

BeginAddPayment(r) ==
    \E s \in Sales : \E a \in 1..(sale[s].rem + Tolerance) :
        /\ Exists(s)
        /\ sale[s].status # "cancelled"
        /\ sale[s].rem > 0
        /\ Accept(r, "addPayment", s, 0, Lesser(a, sale[s].rem), FALSE)

PaidUnrecorded(row, snap, a) ==  \* mutant: no payments row is inserted
    [row EXCEPT !.paid = snap.paid + a, !.rem = AtLeastZero(snap.rem - a),
                !.status = PaidStatus(AtLeastZero(snap.rem - a))]

\* paid, remaining and status are absolute values from the snapshot; the
\* payments row (a foreign key to the sale) and the debt are not.
Paid(row, snap, a) ==
    [row EXCEPT !.paid = snap.paid + a, !.rem = AtLeastZero(snap.rem - a),
                !.status = PaidStatus(AtLeastZero(snap.rem - a)),
                !.payRows = @ + a]

CommitAddPayment(r) ==
    LET s == req[r].sale
        a == req[r].amount
    IN  /\ Finish(r, "addPayment")
        /\ Exists(s)
        /\ sale' = [sale EXCEPT ![s] = Paid(@, req[r].snap, a)]
        /\ debt' = debt - a
        /\ UNCHANGED <<moved, stock, nextValue>>

-----------------------------------------------------------------------------
(* cancel and restoreSale *)

BeginCancel(r) ==
    \E s \in Sales :
        /\ Exists(s)
        /\ sale[s].status # "cancelled"
        /\ Accept(r, "cancel", s, 0, 0, FALSE)

\* Restores every sold unit of the snapshot; the status update has no guard
\* and matches no row when the sale was deleted in the meantime.
CommitCancel(r) ==
    LET s == req[r].sale
        snap == req[r].snap
    IN  /\ Finish(r, "cancel")
        /\ PutStock(s, snap.wh, snap.qty)
        /\ debt' = WriteOff(snap.rem)
        /\ sale' = IF Exists(s)
                     THEN [sale EXCEPT ![s] = [@ EXCEPT !.status = "cancelled"]]
                     ELSE sale
        /\ UNCHANGED nextValue

BeginRestore(r) ==
    \E s \in Sales :
        /\ sale[s].status = "cancelled"
        /\ Accept(r, "restore", s, 0, 0, FALSE)

CommitRestore(r) ==
    LET s == req[r].sale
        snap == req[r].snap
    IN  /\ Finish(r, "restore")
        /\ TakeStock(s, IF snap.wh THEN snap.qty ELSE 0)
        /\ debt' = debt + snap.rem
        /\ sale' = IF Exists(s)
                     THEN [sale EXCEPT ![s] = [@ EXCEPT !.status = PaidStatus(snap.rem)]]
                     ELSE sale
        /\ UNCHANGED nextValue

-----------------------------------------------------------------------------
(* createReturn: two reads, the sale and later its prior returns *)

BeginReturn(r) ==
    \E s \in Sales : \E q \in Quantities : \E a \in 0..(Price * q + Tolerance) :
        /\ sale[s].status \in Issued
        /\ Accept(r, "return", s, q, a, FALSE)

\* What the code works out from the two reads, t being the request: the
\* value returned (capped at what the sale has left), the part of it that
\* cannot be refunded, the debt written off and the cash handed back.
ReturnedValue(t) == Lesser(Price * t.qty, AtLeastZero(t.snap.total - t.priorVal))
Unrefunded(t) ==
    ReturnedValue(t) - Lesser(t.amount, Lesser(ReturnedValue(t), t.snap.paid))
DebtReduction(t) == Lesser(Unrefunded(t), t.snap.rem)
RefundAmount(t) == ReturnedValue(t) - DebtReduction(t)

PriorIgnored(t) ==  \* mutant: earlier returns of the line are not counted
    /\ t.qty <= t.snap.qty
    /\ ReturnedValue(t) > 0
    /\ t.amount <= ReturnedValue(t) + Tolerance
    /\ t.amount <= t.snap.paid + Tolerance
    /\ Unrefunded(t) - t.snap.rem <= Tolerance

ReturnAccepted(t) ==
    /\ t.qty <= t.snap.qty - t.prior
    /\ ReturnedValue(t) > 0
    /\ t.amount <= ReturnedValue(t) + Tolerance
    /\ t.amount <= t.snap.paid + Tolerance
    /\ Unrefunded(t) - t.snap.rem <= Tolerance

ReadReturns(r) ==
    LET s == req[r].sale
        t == [req[r] EXCEPT !.step = "write", !.prior = sale[s].returned,
                            !.priorVal = sale[s].retVal]
    IN  /\ req[r].op = "return"
        /\ req[r].step = "read"
        /\ ReturnAccepted(t)
        /\ req' = [req EXCEPT ![r] = t]
        /\ UNCHANGED <<ledger, handled>>

\* Absolute amounts from the snapshot; the return rows add up in the table.
Returned(row, t) ==
    [row EXCEPT
        !.paid = AtLeastZero(t.snap.paid - RefundAmount(t)),
        !.rem = AtLeastZero(t.snap.rem - DebtReduction(t)),
        !.status = IF t.priorVal + ReturnedValue(t) >= t.snap.total - Tolerance
                     THEN "returned" ELSE "partially_returned",
        !.returned = @ + t.qty,
        !.retVal = @ + ReturnedValue(t),
        !.refunds = @ + RefundAmount(t)]

\* sale_return_items points at the lines that were read: a completion, which
\* replaces them together with the number, makes the insert fail.
CommitReturn(r) ==
    LET s == req[r].sale
        t == req[r]
    IN  /\ Finish(r, "return")
        /\ Exists(s)
        /\ sale[s].number = t.snap.number
        /\ PutStock(s, t.snap.wh, t.qty)
        /\ sale' = [sale EXCEPT ![s] = Returned(@, t)]
        /\ debt' = WriteOff(DebtReduction(t))
        /\ UNCHANGED nextValue

-----------------------------------------------------------------------------
(* createDraft (two inserts, no transaction), completeDraft *)

CreateDraft(r) ==
    \E s \in Sales : \E q \in Quantities : \E w \in BOOLEAN :
        LET row == [NoRow EXCEPT !.status = "draft", !.wh = w,
                                 !.total = Price * q, !.rem = Price * q]
        IN  /\ "createDraft" \in Ops
            /\ req[r] = Idle
            /\ handled < MaxRequests
            /\ sale[s].status = "absent"
            /\ sale' = [sale EXCEPT ![s] = row]
            /\ handled' = handled + 1
            /\ req' = [req EXCEPT ![r] = [Idle EXCEPT
                    !.op = "createDraft", !.step = "write", !.sale = s, !.qty = q]]
            /\ UNCHANGED <<moved, stock, debt, nextValue>>

InsertDraftItems(r) ==
    LET s == req[r].sale
    IN  /\ Finish(r, "createDraft")
        /\ Exists(s)
        /\ sale' = [sale EXCEPT ![s] =
                                [@ EXCEPT !.qty = sale[s].qty + req[r].qty]]
        /\ UNCHANGED <<moved, stock, debt, nextValue>>

BeginCompleteDraft(r) ==
    \E s \in Sales : \E q \in Quantities : \E p \in 0..(Price * q) :
        /\ sale[s].status = "draft"
        /\ Accept(r, "completeDraft", s, q, p, TRUE)

\* The old items are deleted (refused by sale_return_items when one of them
\* was returned), the row is overwritten whatever its status is by now.
CommitCompleteDraft(r) ==
    LET s == req[r].sale
        q == req[r].qty
        p == req[r].amount
    IN  /\ Finish(r, "completeDraft")
        /\ Exists(s)
        /\ ~HasReturns(s)
        /\ AllocateNumber
        /\ sale' = [sale EXCEPT ![s] = Issue(@, q, p)]
        /\ TakeStock(s, q)
        /\ debt' = debt + (Price * q - p)

-----------------------------------------------------------------------------
(* removeSale, deleteOldDrafts *)

BeginRemove(r) ==
    \E s \in Sales :
        /\ Exists(s)
        /\ Accept(r, "remove", s, 0, 0, FALSE)

Removed(s) == [NoRow EXCEPT !.status = "removed", !.number = sale[s].number]

\* Payments, items and the sale are deleted; stock and debt stay as they are.
CommitRemove(r) ==
    LET s == req[r].sale
    IN  /\ Finish(r, "remove")
        /\ ~HasReturns(s)
        /\ sale' = [sale EXCEPT ![s] = Removed(s)]
        /\ UNCHANGED <<moved, stock, debt, nextValue>>

\* One DELETE for every draft older than a day (any set of them here).
DeleteOldDrafts ==
    \E old \in SUBSET {s \in Sales : sale[s].status = "draft"} :
        /\ "deleteDrafts" \in Ops
        /\ old # {}
        /\ handled < MaxRequests
        /\ handled' = handled + 1
        /\ sale' = [s \in Sales |-> IF s \in old THEN Removed(s) ELSE sale[s]]
        /\ UNCHANGED <<moved, stock, debt, nextValue, req>>

-----------------------------------------------------------------------------

\* A check outside this module fails, a statement throws, or the process
\* dies before COMMIT: everything the transaction wrote is rolled back.
Abort(r) ==
    /\ req[r] # Idle
    /\ req' = [req EXCEPT ![r] = Idle]
    /\ UNCHANGED <<ledger, handled>>

Init ==
    /\ sale = [s \in Sales |-> NoRow]
    /\ moved = [s \in Sales |-> 0]
    /\ stock = InitStock
    /\ debt = 0
    /\ nextValue = 1
    /\ req = [r \in Requests |-> Idle]
    /\ handled = 0

Step(r) ==
    \/ BeginCreate(r)        \/ CommitCreate(r)
    \/ BeginAddPayment(r)    \/ CommitAddPayment(r)
    \/ BeginCancel(r)        \/ CommitCancel(r)
    \/ BeginRestore(r)       \/ CommitRestore(r)
    \/ BeginReturn(r)        \/ ReadReturns(r)       \/ CommitReturn(r)
    \/ CreateDraft(r)        \/ InsertDraftItems(r)
    \/ BeginCompleteDraft(r) \/ CommitCompleteDraft(r)
    \/ BeginRemove(r)        \/ CommitRemove(r)
    \/ Abort(r)

Next == DeleteOldDrafts \/ \E r \in Requests : Step(r)

Spec == Init /\ [][Next]_vars

-----------------------------------------------------------------------------
(* Properties of every interleaving *)

TypeOK ==
    /\ sale \in [Sales -> SaleRow]
    /\ moved \in [Sales -> Int]
    /\ stock \in Int
    /\ debt \in Int
    /\ nextValue \in Nat \ {0}
    /\ req \in [Requests -> Request]
    /\ handled \in 0..MaxRequests

\* The availability check of a sale reads stock without a lock and several
\* sales, drafts and restores race for the last units, yet the warehouse
\* never owes goods: the quantity is checked again under the row lock.
StockNeverNegative == stock >= 0

\* inventoryService's header: "stock rows never diverge from the movement
\* log".  Whatever is cancelled, restored, returned, deleted or rolled back,
\* in whatever order, the stock row is the opening quantity plus the log.
StockMatchesLog ==
    stock = InitStock + SumOver(moved, Sales)

\* Two invoices, deleted ones included, never carry the same number,
\* although creations and draft completions allocate concurrently and some
\* of them roll back.
InvoiceNumbersUnique ==
    \A s, t \in Sales :
        s # t /\ sale[s].number # 0 => sale[s].number # sale[t].number

\* However stale the snapshots that payments and returns write back, an
\* invoice never shows more money paid than its payments rows add up to: a
\* lost update can hide a payment, it cannot invent one.
NoPhantomCash ==
    \A s \in Sales : Exists(s) => sale[s].paid <= sale[s].payRows

-----------------------------------------------------------------------------
(* Properties of the ledger when requests do not overlap *)

\* What is paid and what remains add up to the total less what was returned.
RowBalanced ==
    \A s \in Sales : Exists(s) =>
        sale[s].paid + sale[s].rem = sale[s].total - sale[s].retVal

\* The invoice's paid amount is the payments taken less the cash refunded.
CashReconciles ==
    \A s \in Sales : Exists(s) =>
        sale[s].paid = sale[s].payRows - sale[s].refunds

\* createReturn: "(returnedBase + priorReturnsBase) <= soldBase".
ReturnedWithinSold ==
    \A s \in Sales : sale[s].returned <= sale[s].qty

IssuedDebt ==
    SumOver([s \in Sales |-> sale[s].rem], {s \in Sales : sale[s].status \in Issued})

\* No row was deleted, and none was paid, returned or cancelled as a draft.
OnlyInvoices ==
    \A s \in Sales :
        /\ sale[s].status # "removed"
        /\ sale[s].number = 0 => sale[s].status \in {"absent", "draft"}

\* The customer's cached debt is what the invoices in force still owe, over
\* any sequence of sales, completions, payments, cancellations, restores and
\* returns.  A deleted row, or a draft that was paid or cancelled as it is,
\* leaves a debt behind that no invoice explains.
DebtIsReceivable == OnlyInvoices => debt = IssuedDebt

\* One request at a time, the rows, the cash and the customer's debt tell the
\* same story, whatever sequence of handlers has written them.
MoneyAgrees == RowBalanced /\ CashReconciles /\ DebtIsReceivable

\* What a numbered invoice has taken from the warehouse is what it still
\* sells: all of it less the returns while it is in force, and nothing once
\* it is cancelled without a return, however often it is restored.
StockReflectsSales ==
    \A s \in Sales : sale[s].number # 0 =>
        /\ sale[s].status \in Issued => moved[s] = sale[s].returned - sale[s].qty
        /\ sale[s].status = "cancelled" /\ sale[s].returned = 0 => moved[s] = 0

\* One request at a time, warehouse, movement log and invoices agree on the
\* goods that are out of the shop.
GoodsAgree == StockMatchesLog /\ ReturnedWithinSold /\ StockReflectsSales

\* The hard credit ceiling: the sale that books a balance leaves what the
\* customer owes on issued invoices within the limit, although drafts are
\* completed without regard to it and cancelled invoices may come back in
\* between.
CeilingRespected ==
    [][\A s \in Sales :
        /\ sale[s].status = "absent"
        /\ sale'[s].status = "pending"
        /\ ~MayOverride
        => IssuedDebt' <= CreditLimit]_vars
=============================================================================
