----------------------------- MODULE OnlineOrders -----------------------------
(***************************************************************************)
(* An online order and the sale invoices linked to it, as                  *)
(* backend/src/services/onlineOrderService.js moves them.                  *)
(*                                                                         *)
(* updateStatus reads the order, then runs the sales engine in a           *)
(* transaction of its own, then flips the status in another one: "we       *)
(* sequence them".  Each of these is a step here, other requests and the   *)
(* courier's updates come in between, and a request can fail at any step.  *)
(*                                                                         *)
(* One order, whose lines are one quantity; the sales engine (see Sales)   *)
(* sells, cancels and takes back in one step each.                         *)
(***************************************************************************)
EXTENDS Integers, OrderWorkflow

CONSTANTS
    Invoices,       \* ids the sales table can hand out
    NoInvoice,      \* "the join found no sale"
    Clerks,         \* staff requests that can be in flight at the same time
    Couriers,       \* reports of shipments that can be in flight
    Quantities      \* quantities an order or a return can ask for

ASSUME OnlineOrdersAssumption ==
    /\ NoInvoice \notin Invoices
    /\ Clerks \intersect Couriers = {}
    /\ Quantities \subseteq Nat \ {0}

VARIABLES
    order,          \* the online_orders row and its items
    invoice,        \* the sales rows whose online_order_id is the order
    desk            \* what each request has read and has still to do

vars == <<order, invoice, desk>>

Steps == {"idle", "edit", "delete", "sell", "sellOnly", "cancelSale",
          "returnAll", "flip", "returnSome", "settle"}

\* seen, link and qty are the snapshot getById returned; next is the status
\* or the quantity the request asks for.
Request == [step : Steps, next : OrderStatuses, seen : OrderStatuses,
            link : Invoices \union {NoInvoice}, qty : Nat]

Idle == [step |-> "idle", next |-> "NEW", seen |-> "NEW",
         link |-> NoInvoice, qty |-> 0]

Exists == order.status \in OrderStatuses
Linked == {i \in Invoices : invoice[i].status # "none"}

\* getById's LEFT JOIN .. LIMIT 1: one of the linked sales, if there is any.
LinkRead == IF Linked = {} THEN {NoInvoice} ELSE Linked

Accept(c, step, next, link, q) ==
    /\ desk[c] = Idle
    /\ Exists
    /\ desk' = [desk EXCEPT ![c] = [step |-> step, next |-> next,
                    seen |-> order.status, link |-> link, qty |-> q]]
    /\ UNCHANGED <<order, invoice>>

At(c, step) == desk[c].step = step
Proceed(c, step) == desk' = [desk EXCEPT ![c].step = step]
Done(c) == desk' = [desk EXCEPT ![c] = Idle]

Moved(status) ==
    order' = IF Exists THEN [order EXCEPT !.status = status] ELSE order

-----------------------------------------------------------------------------
(* create, update, delete *)

PlaceOrder ==
    \E q \in Quantities :
        /\ order.status = "none"
        /\ order' = [status |-> "NEW", qty |-> q]
        /\ UNCHANGED <<invoice, desk>>

BeginEdit(c) ==
    \E q \in Quantities :
        /\ Linked = {}
        /\ order.status \in Editable
        /\ Accept(c, "edit", order.status, NoInvoice, q)

\* The items are wiped and inserted again; the status is not written.
Edit(c) ==
    /\ At(c, "edit")
    /\ Exists
    /\ order' = [order EXCEPT !.qty = desk[c].qty]
    /\ Done(c)
    /\ UNCHANGED invoice

BeginDelete(c) ==
    /\ Linked = {}
    /\ Accept(c, "delete", order.status, NoInvoice, 0)

Delete(c) ==
    /\ At(c, "delete")
    /\ order' = [order EXCEPT !.status = "deleted"]
    /\ Done(c)
    /\ UNCHANGED invoice

-----------------------------------------------------------------------------
(* updateStatus and convertToSale *)

SellAgain(next, link) ==  \* mutant: the confirmation trusts the status alone
    IF next = "CONFIRMED" THEN "sell"
    ELSE IF next = "CANCELLED" /\ order.status \in SaleBacked /\ link # NoInvoice
      THEN "cancelSale"
    ELSE IF next = "RETURNED" /\ link # NoInvoice THEN "returnAll"
    ELSE "flip"

\* What moving an order to a status does in the sales engine first.
SideEffect(next, link) ==
    IF next = "CONFIRMED" /\ link = NoInvoice THEN "sell"
    ELSE IF next = "CANCELLED" /\ order.status \in SaleBacked /\ link # NoInvoice
      THEN "cancelSale"
    ELSE IF next = "RETURNED" /\ link # NoInvoice THEN "returnAll"
    ELSE "flip"

FlipFirst(c) ==  \* mutant: the status is flipped before the money is moved
    \E next \in OrderStatuses, link \in LinkRead :
        /\ desk[c] = Idle
        /\ Exists
        /\ next \in Transitions[order.status]
        /\ order' = [order EXCEPT !.status = next]
        /\ desk' = [desk EXCEPT ![c] =
                [step |-> SideEffect(next, link), next |-> next,
                 seen |-> order.status, link |-> link, qty |-> order.qty]]
        /\ UNCHANGED invoice

BeginMove(c) ==
    \E next \in OrderStatuses, link \in LinkRead :
        /\ Exists
        /\ next \in Transitions[order.status]
        /\ Accept(c, SideEffect(next, link), next, link, order.qty)

\* convertToSale takes an order in any status.
BeginConvert(c) ==
    /\ Linked = {}
    /\ Accept(c, "sellOnly", order.status, NoInvoice, order.qty)

\* _buildAndCreateSale: the lines of the snapshot.  The comment relies on a
\* UNIQUE index to refuse a second sale, which no migration creates.
Sell(c) ==
    \E i \in Invoices :
        /\ At(c, "sell") \/ At(c, "sellOnly")
        /\ invoice[i].status = "none"
        /\ invoice' = [invoice EXCEPT ![i] =
                [status |-> "issued", qty |-> desk[c].qty, returned |-> 0]]
        /\ IF At(c, "sell") THEN Proceed(c, "flip") ELSE Done(c)
        /\ UNCHANGED order

CancelSale(c) ==
    LET i == desk[c].link
    IN  /\ At(c, "cancelSale")
        /\ invoice[i].status = "issued"
        /\ invoice' = [invoice EXCEPT ![i].status = "cancelled"]
        /\ Proceed(c, "flip")
        /\ UNCHANGED order

\* _returnLinkedSaleFull asks for every line in full, which createReturn
\* refuses when some of it has come back before.
ReturnAll(c) ==
    LET i == desk[c].link
    IN  /\ At(c, "returnAll")
        /\ invoice[i].status = "issued"
        /\ invoice[i].returned = 0
        /\ invoice' = [invoice EXCEPT ![i].returned = invoice[i].qty]
        /\ Proceed(c, "flip")
        /\ UNCHANGED order

\* "Re-read inside the tx": only to skip a move that somebody else has made.
Flip(c) ==
    /\ At(c, "flip")
    /\ Moved(desk[c].next)
    /\ Done(c)
    /\ UNCHANGED invoice

-----------------------------------------------------------------------------
(* returnOrder *)

BeginReturn(c) ==
    \E link \in LinkRead, q \in Quantities :
        /\ link # NoInvoice
        /\ order.status \in SaleBacked
        /\ Accept(c, "returnSome", "RETURNED", link, q)

ReturnSome(c) ==
    LET i == desk[c].link
    IN  /\ At(c, "returnSome")
        /\ invoice[i].status = "issued"
        /\ invoice[i].returned + desk[c].qty <= invoice[i].qty
        /\ invoice' = [invoice EXCEPT ![i].returned = @ + desk[c].qty]
        /\ Proceed(c, "settle")
        /\ UNCHANGED order

\* When everything has come back the order is RETURNED, whatever it was.
Settle(c) ==
    LET i == desk[c].link
    IN  /\ At(c, "settle")
        /\ IF invoice[i].returned = invoice[i].qty /\ desk[c].seen # "RETURNED"
             THEN Moved("RETURNED") ELSE UNCHANGED order
        /\ Done(c)
        /\ UNCHANGED invoice

-----------------------------------------------------------------------------
(* syncStatusFromShipment *)

CourierForces(f, target) ==  \* mutant: terminal orders are overridden too
    /\ order.status # target
    /\ Accept(f, "flip", target, NoInvoice, order.qty)

\* Forces the order to what the courier reports from any status it read that
\* is not terminal.
CourierReports(f, target) ==
    /\ order.status \notin Terminal \union {target}
    /\ Accept(f, "flip", target, NoInvoice, order.qty)

-----------------------------------------------------------------------------

\* A step throws or the server restarts: what was committed stays.
Fail(c) ==
    /\ desk[c] # Idle
    /\ Done(c)
    /\ UNCHANGED <<order, invoice>>

-----------------------------------------------------------------------------

Init ==
    /\ order = [status |-> "none", qty |-> 0]
    /\ invoice = [i \in Invoices |-> [status |-> "none", qty |-> 0, returned |-> 0]]
    /\ desk = [c \in Clerks \union Couriers |-> Idle]

Staff(c) ==
    \/ BeginEdit(c)    \/ Edit(c)
    \/ BeginDelete(c)  \/ Delete(c)
    \/ BeginMove(c)    \/ BeginConvert(c)
    \/ Sell(c)         \/ CancelSale(c)    \/ ReturnAll(c)
    \/ BeginReturn(c)  \/ ReturnSome(c)    \/ Settle(c)

Next ==
    \/ PlaceOrder
    \/ \E c \in Clerks : Staff(c)
    \/ \E f \in Couriers, target \in {"DELIVERED", "RETURNED"} : CourierReports(f, target)
    \/ \E c \in Clerks \union Couriers : Flip(c) \/ Fail(c)

Spec == Init /\ [][Next]_vars

\* The status a request means to write, without the invoices.
Intended(d) ==
    IF d.step \in {"idle", "edit", "delete", "sellOnly"} THEN "none" ELSE d.next
Intents == [c \in Clerks \union Couriers |-> Intended(desk[c])]

Lifecycle == INSTANCE OrderStatus WITH status <- order.status, intent <- Intents

-----------------------------------------------------------------------------

TypeOK ==
    /\ order \in [status : OrderStatuses \union {"none", "deleted"}, qty : Nat]
    /\ invoice \in [Invoices -> [status : {"none", "issued", "cancelled"},
                                 qty : Nat, returned : Nat]]
    /\ desk \in [Clerks \union Couriers -> Request]
    /\ \A i \in Invoices : invoice[i].returned <= invoice[i].qty

\* An order is invoiced once: confirming, converting, and doing either again
\* after a step failed half-way, never sell its goods a second time.
OneInvoice == \A i, j \in Linked : i = j

\* The money and the stock move before the status does: an order that is
\* confirmed, being prepared or on its way has its invoice, whatever fails
\* between the two transactions and whatever the courier reports meanwhile.
CommittedHasInvoice ==
    order.status \in {"CONFIRMED", "READY_FOR_DELIVERY", "OUT_FOR_DELIVERY"}
        => Linked # {}

\* update: "A converted order is frozen - editing it would desync from the
\* invoice"; delete: "so the invoice never loses its origin".
InvoiceMatchesOrder ==
    \A i \in Linked : Exists /\ invoice[i].qty = order.qty

\* With one clerk, what was ordered is what was invoiced: once, and all of it.
InvoicedAsOrdered == OneInvoice /\ InvoiceMatchesOrder

\* However its invoices fare, an order's status moves as OrderStatus allows:
\* every status written was a legal next one when the request read the order.
StatusMovesLegally == Lifecycle!Spec
=============================================================================
