----------------------------- MODULE Purchases -----------------------------
(***************************************************************************)
(* Purchase invoices in backend/src/services/purchaseService.js with the   *)
(* cost layers and stock they add (inventoryService.js), the vouchers that *)
(* are their only record of payment (treasury switched on), the supplier's *)
(* cached debt, and the opening invoices of openingBalanceService.js.      *)
(*                                                                         *)
(* Receiving goods reads nothing that it writes back.  Payments,           *)
(* cancellations and returns read the invoice through the pool and write   *)
(* later, in one transaction, payments with absolute amounts, the others   *)
(* with relative ones.  Meanwhile sales draw on the layers.                *)
(*                                                                         *)
(* One supplier, one product, one warehouse, one line per invoice at a     *)
(* unit cost of 1.  Amounts and quantities are in base units.              *)
(***************************************************************************)
EXTENDS Integers, Sums

CONSTANTS
    Invoices,       \* ids of purchase_invoices rows
    NoInvoice,      \* the invoice of an idle request
    Loose,          \* the cost layers no purchase invoice of these points at
    Requests,       \* HTTP requests in flight at the same time
    Quantities,     \* quantities a line or a return can ask for
    Discounts,      \* invoice discounts
    InitStock,      \* product_stock.quantity at the start, not in layers
    MaxTrades       \* bound: requests and sales over a behaviour

ASSUME PurchasesAssumption ==
    /\ IsFiniteSet(Invoices)
    /\ NoInvoice \notin Invoices
    /\ Loose \notin Invoices
    /\ Quantities \subseteq Nat \ {0}
    /\ Discounts \subseteq Nat
    /\ InitStock \in Nat
    /\ MaxTrades \in Nat

VARIABLES
    invoice,        \* the row and what hangs off it (vouchers, returns)
    moved,          \* per invoice, the sum of its stock movements
    layer,          \* remaining_quantity of each cost layer
    stock,          \* product_stock.quantity
    supplierDebt,   \* suppliers.total_debt
    errand,         \* what each request in flight has read
    trades,         \* requests and sales so far, capped by MaxTrades
    orderly         \* no two requests have overlapped

tables == <<invoice, moved, layer, stock, supplierDebt>>
purchaseVars ==
    <<invoice, moved, layer, stock, supplierDebt, errand, trades, orderly>>

Layers == Invoices \union {Loose}

\* vouchers and refunds: the active payment and refund vouchers; returned
\* and reduced: what its purchase_returns brought back and wrote off; opening: is_opening_balance.
Invoice == [status : {"absent", "received", "cancelled"}, opening : BOOLEAN,
            qty : Nat, total : Nat, paid : Nat, rem : Int, vouchers : Nat,
            refunds : Nat, returned : Nat, reduced : Nat]
PurchaseRequest == [op : {"idle", "pay", "cancel", "return"},
                    invoice : Invoices \union {NoInvoice}, snap : Invoice,
                    qty : Nat, credit : BOOLEAN]

NoRow == [status |-> "absent", opening |-> FALSE, qty |-> 0, total |-> 0,
          paid |-> 0, rem |-> 0, vouchers |-> 0, refunds |-> 0,
          returned |-> 0, reduced |-> 0]
AtRest == [op |-> "idle", invoice |-> NoInvoice, snap |-> NoRow,
           qty |-> 0, credit |-> FALSE]

Lesser(a, b) == IF a <= b THEN a ELSE b
AtLeastZero(a) == IF a < 0 THEN 0 ELSE a
Received(i) == invoice[i].status = "received"

-----------------------------------------------------------------------------
(* Requests *)

\* Overlapping with another request ends the good order.
Accept(r, op, i, q, credit) ==
    /\ errand[r] = AtRest
    /\ trades < MaxTrades
    /\ trades' = trades + 1
    /\ errand' = [errand EXCEPT ![r] =
                    [op |-> op, invoice |-> i, snap |-> invoice[i],
                     qty |-> q, credit |-> credit]]
    /\ orderly' = (orderly /\ \A other \in Requests \ {r} : errand[other] = AtRest)
    /\ UNCHANGED tables

Finish(r, op) ==
    /\ errand[r].op = op
    /\ errand' = [errand EXCEPT ![r] = AtRest]
    /\ UNCHANGED <<trades, orderly>>

\* A statement throws or the process ends: the transaction is rolled back.
AbortPurchase(r) ==
    /\ errand[r] # AtRest
    /\ errand' = [errand EXCEPT ![r] = AtRest]
    /\ UNCHANGED <<tables, trades, orderly>>

\* One transaction that no earlier read goes into.
AtOnce ==
    /\ trades < MaxTrades
    /\ trades' = trades + 1
    /\ UNCHANGED <<errand, orderly>>

-----------------------------------------------------------------------------
(* create, createSupplierOpening *)

\* applyPurchaseStockMovement: one layer for the line, then the stock row.
AddGoods(i, q) ==
    /\ layer' = [layer EXCEPT ![i] = q]
    /\ stock' = stock + q
    /\ moved' = [moved EXCEPT ![i] = @ + q]

\* The total is not below zero and what is paid now is capped by it.
CreatePurchase ==
    \E i \in Invoices, q \in Quantities, d \in Discounts :
      \E p \in 0..AtLeastZero(q - d) :
        LET total == AtLeastZero(q - d)
        IN  /\ AtOnce
            /\ invoice[i].status = "absent"
            /\ invoice' = [invoice EXCEPT ![i] =
                    [NoRow EXCEPT !.status = "received", !.qty = q, !.total = total,
                                  !.paid = p, !.rem = total - p, !.vouchers = p]]
            /\ AddGoods(i, q)
            /\ supplierDebt' = supplierDebt + (total - p)

\* An opening invoice has no lines and leaves the supplier's row alone.
CreateOpening ==
    \E i \in Invoices, a \in Quantities :
        /\ AtOnce
        /\ invoice[i].status = "absent"
        /\ invoice' = [invoice EXCEPT ![i] =
                [NoRow EXCEPT !.status = "received", !.opening = TRUE,
                              !.total = a, !.rem = a]]
        /\ UNCHANGED <<moved, layer, stock, supplierDebt>>

-----------------------------------------------------------------------------
(* addPayment *)

BeginPayment(r) ==
    \E i \in Invoices : \E a \in 1..invoice[i].rem :
        /\ Received(i)
        /\ Accept(r, "pay", i, a, FALSE)

PaidWithoutVoucher(row, snap, a) ==  \* mutant: the voucher is not minted
    [row EXCEPT !.paid = snap.paid + a, !.rem = AtLeastZero(snap.rem - a)]

\* Absolute amounts from the snapshot; the voucher is the payment's record.
WithPayment(row, snap, a) ==
    [row EXCEPT !.paid = snap.paid + a, !.rem = AtLeastZero(snap.rem - a),
                !.vouchers = @ + a]

PaySupplier(r) ==
    LET i == errand[r].invoice
        a == errand[r].qty
    IN  /\ Finish(r, "pay")
        /\ invoice' = [invoice EXCEPT ![i] = WithPayment(@, errand[r].snap, a)]
        /\ supplierDebt' = supplierDebt - a
        /\ UNCHANGED <<moved, layer, stock>>

-----------------------------------------------------------------------------
(* cancel *)

\* Refused once there are returns.
BeginCancel(r) ==
    \E i \in Invoices :
        /\ Received(i)
        /\ invoice[i].returned = 0
        /\ Accept(r, "cancel", i, 0, FALSE)

TakeBackUnchecked(i, q) ==  \* mutant: WHERE remaining_quantity >= qty is dropped
    /\ stock >= q
    /\ layer' = [layer EXCEPT ![i] = @ - q]
    /\ stock' = stock - q
    /\ moved' = [moved EXCEPT ![i] = @ - q]

\* reversePurchaseStockMovement: only while the line's own layer is whole.
TakeBack(i, q) ==
    /\ layer[i] >= q
    /\ stock >= q
    /\ layer' = [layer EXCEPT ![i] = @ - q]
    /\ stock' = stock - q
    /\ moved' = [moved EXCEPT ![i] = @ - q]

\* Every voucher of the invoice is cancelled; the amounts stay on the row.
Cancelled(row) ==
    [row EXCEPT !.status = "cancelled", !.vouchers = 0, !.refunds = 0]

CancelPurchase(r) ==
    LET i == errand[r].invoice
        snap == errand[r].snap
    IN  /\ Finish(r, "cancel")
        /\ TakeBack(i, snap.qty)
        /\ invoice' = [invoice EXCEPT ![i] = Cancelled(@)]
        /\ supplierDebt' = supplierDebt - snap.rem

-----------------------------------------------------------------------------
(* createReturn *)

ReturnUncounted(r) ==  \* mutant: earlier returns of the line are not counted
    \E i \in Invoices, q \in Quantities, credit \in BOOLEAN :
        /\ Received(i)
        /\ q <= invoice[i].qty
        /\ Accept(r, "return", i, q, credit)

\* Received invoices only, and no more than earlier returns have left.
BeginReturn(r) ==
    \E i \in Invoices, q \in Quantities, credit \in BOOLEAN :
        /\ Received(i)
        /\ q <= invoice[i].qty - invoice[i].returned
        /\ Accept(r, "return", i, q, credit)

\* The value at unit cost writes off debt first, if there is any; the rest
\* is refunded in cash unless credit was asked for.
DebtReduction(t) == Lesser(t.qty, t.snap.rem)
WrittenOff(t) == AtLeastZero(DebtReduction(t))
RefundAmount(t) == IF t.credit THEN 0 ELSE t.qty - DebtReduction(t)

\* applyPurchaseReturnStockMovement: the line's own layer first, the others
\* (in the order of their expiry, any here) for what it lacks.
Draws(i, q) ==
    {d \in [Layers -> 0..q] :
        /\ SumOver(d, Layers) = q
        /\ \A x \in Layers : d[x] <= layer[x]
        /\ d[i] = Lesser(q, layer[i])
        /\ \A x, y \in Layers \ {i} :
            0 < d[x] /\ d[x] < layer[x] /\ 0 < d[y] /\ d[y] < layer[y] => x = y}

Returned(row, t) ==
    [row EXCEPT !.rem = @ - WrittenOff(t), !.reduced = @ + WrittenOff(t),
                !.refunds = @ + RefundAmount(t), !.returned = @ + t.qty]

CommitReturn(r) ==
    LET i == errand[r].invoice
        t == errand[r]
    IN  /\ Finish(r, "return")
        /\ stock >= t.qty
        /\ \E d \in Draws(i, t.qty) :
            layer' = [x \in Layers |-> layer[x] - d[x]]
        /\ stock' = stock - t.qty
        /\ moved' = [moved EXCEPT ![i] = @ - t.qty]
        /\ invoice' = [invoice EXCEPT ![i] = Returned(@, t)]
        /\ supplierDebt' = supplierDebt - WrittenOff(t)

-----------------------------------------------------------------------------
(* Sales beside the purchases, a unit at a time *)

\* applySaleStockMovement: a unit of some layer; stock that has no layer is
\* turned into one first.
Sell ==
    /\ AtOnce
    /\ stock > 0
    /\ \/ \E x \in Layers : layer[x] > 0 /\ layer' = [layer EXCEPT ![x] = @ - 1]
       \/ /\ \A x \in Layers : layer[x] = 0
          /\ layer' = [layer EXCEPT ![Loose] = stock - 1]
    /\ stock' = stock - 1
    /\ UNCHANGED <<invoice, moved, supplierDebt>>

\* restoreSaleStockMovement: back to the stock row, not to a layer.
GiveBack ==
    /\ AtOnce
    /\ stock' = stock + 1
    /\ UNCHANGED <<invoice, moved, layer, supplierDebt>>

-----------------------------------------------------------------------------

PurchaseInit ==
    /\ invoice = [i \in Invoices |-> NoRow]
    /\ moved = [i \in Invoices |-> 0]
    /\ layer = [x \in Layers |-> 0]
    /\ stock = InitStock
    /\ supplierDebt = 0
    /\ errand = [r \in Requests |-> AtRest]
    /\ trades = 0
    /\ orderly = TRUE

PurchaseStep(r) ==
    \/ BeginPayment(r) \/ PaySupplier(r)
    \/ BeginCancel(r)  \/ CancelPurchase(r)
    \/ BeginReturn(r)  \/ CommitReturn(r)
    \/ AbortPurchase(r)

PurchaseNext ==
    \/ CreatePurchase \/ CreateOpening \/ Sell \/ GiveBack
    \/ \E r \in Requests : PurchaseStep(r)

PurchaseSpec == PurchaseInit /\ [][PurchaseNext]_purchaseVars

-----------------------------------------------------------------------------
(* Properties of every interleaving *)

PurchaseTypeOK ==
    /\ invoice \in [Invoices -> Invoice]
    /\ moved \in [Invoices -> Int]
    /\ layer \in [Layers -> Nat]
    /\ stock \in Nat
    /\ supplierDebt \in Int
    /\ errand \in [Requests -> PurchaseRequest]
    /\ trades \in 0..MaxTrades
    /\ orderly \in BOOLEAN

\* Two cancellations, a cancellation and a return, a sale of the same goods:
\* whoever comes late is refused by what is left of the layer, so the goods
\* of a standing invoice are what was bought less what was returned, and a
\* cancelled one brought none.
GoodsAccounted ==
    \A i \in Invoices :
        /\ Received(i) => moved[i] = invoice[i].qty - invoice[i].returned
        /\ invoice[i].status = "cancelled" => moved[i] = -invoice[i].returned

\* The layers, whose costs value the stock, never promise more units than
\* the warehouse holds, although sales, reversals and returns change the two
\* separately.
LayersWithinStock == SumOver(layer, Layers) <= stock

\* Invoices, layers and stock agree on the goods, whatever overlaps.
GoodsExplained == PurchaseTypeOK /\ GoodsAccounted /\ LayersWithinStock

\* A payment written over another one's amounts may be forgotten, but a
\* standing invoice never shows more paid than its vouchers paid out.
NoPhantomPayment ==
    \A i \in Invoices : Received(i) => invoice[i].paid <= invoice[i].vouchers

-----------------------------------------------------------------------------
(* Properties as long as no two requests have overlapped *)

\* Paid is what the vouchers paid out; paid and remaining make up the total
\* less what returns have written off; no more is returned than was bought.
AmountsAgree ==
    orderly => \A i \in Invoices : Received(i) =>
        /\ invoice[i].paid = invoice[i].vouchers
        /\ invoice[i].paid + invoice[i].rem = invoice[i].total - invoice[i].reduced
        /\ invoice[i].returned <= invoice[i].qty

\* A cancelled invoice leaves no money behind, paid or refunded: "so cashbox
\* balances get the money back".
CancelledIsPaidBack ==
    orderly => \A i \in Invoices : invoice[i].status = "cancelled" =>
        invoice[i].vouchers = 0 /\ invoice[i].refunds = 0

\* The supplier's cached debt is what the standing invoices owe, short of
\* the opening balances, which are paid and cancelled through the cache but
\* were never added to it.
DebtIsOwed ==
    orderly => supplierDebt =
        SumOver([i \in Invoices |-> invoice[i].rem], {i \in Invoices : Received(i)})
          - SumOver([i \in Invoices |-> invoice[i].total],
                    {i \in Invoices : invoice[i].opening})

\* Invoices, vouchers and the supplier's debt agree on the money.
MoneyExplained == AmountsAgree /\ CancelledIsPaidBack /\ DebtIsOwed
=============================================================================
