----------------------------- MODULE OrdersProofs -----------------------------
(***************************************************************************)
(* Proofs about OnlineOrders: its types, that a committed order has an     *)
(* invoice, that its status moves as OrderStatus allows and, when one      *)
(* clerk at a time handles it, that it is invoiced once and as ordered.    *)
(* And about Fulfilment: that nothing is said delivered or returned which  *)
(* the carrier's own record does not say.                                  *)
(***************************************************************************)
EXTENDS OnlineOrders, Fulfilment, TLAPS

People == Clerks \union Couriers

\* What the proofs use of the transition map.
LEMMA Workflow ==
    /\ OrderStatuses = {"NEW", "PROCESSING", "CONFIRMED", "READY_FOR_DELIVERY",
                        "OUT_FOR_DELIVERY", "DELIVERED", "RETURNED", "CANCELLED"}
    /\ \A s \in OrderStatuses : Transitions[s] \subseteq OrderStatuses
    /\ \A s \in OrderStatuses :
            "READY_FOR_DELIVERY" \in Transitions[s] => s = "CONFIRMED"
    /\ \A s \in OrderStatuses :
            "OUT_FOR_DELIVERY" \in Transitions[s] => s = "READY_FOR_DELIVERY"
  BY DEF OrderStatuses, Transitions

Committed == {"CONFIRMED", "READY_FOR_DELIVERY", "OUT_FOR_DELIVERY"}

\* A request that is going to flip an order to a committed status has seen or
\* made its invoice; one that undoes a sale is going to end the order.
Sound(d, linked) ==
    /\ d.step = "flip" /\ d.next \in Committed => linked # {}
    /\ d.step \in {"cancelSale", "returnAll", "returnSome", "settle"}
            => d.next \notin Committed
    /\ d.step \in {"returnSome", "settle"} => d.next = "RETURNED"

\* The inductive invariant.  Nobody is at work before the order exists.
Inv ==
    /\ TypeOK
    /\ CommittedHasInvoice
    /\ \A c \in People : Sound(desk[c], Linked)
    /\ order.status = "none" => \A c \in People : desk[c] = Idle

LEMMA IdleType == Idle \in Request
  BY Workflow DEF Idle, Request, Steps

OrderRow == [status : OrderStatuses \union {"none", "deleted"}, qty : Nat]
InvoiceRow == [status : {"none", "issued", "cancelled"}, qty : Nat, returned : Nat]

InvoicesOK ==
    /\ invoice \in [Invoices -> InvoiceRow]
    /\ \A i \in Invoices : invoice[i].returned <= invoice[i].qty

LEMMA TypeParts ==
    TypeOK <=> order \in OrderRow /\ InvoicesOK /\ desk \in [People -> Request]
  BY DEF TypeOK, OrderRow, InvoiceRow, InvoicesOK, People

-----------------------------------------------------------------------------
(* One step of one request *)

LEMMA DeskMoves ==
    ASSUME Inv, NEW c \in People, NEW d \in Request,
           desk' = [desk EXCEPT ![c] = d]
    PROVE  /\ desk' \in [People -> Request]
           /\ desk'[c] = d
           /\ \A p \in People : p # c => desk'[p] = desk[p]
           /\ Intents' = [Intents EXCEPT ![c] = Intended(d)]
  <1>1. desk \in [People -> Request]
    BY TypeParts DEF Inv
  <1>2. /\ desk' \in [People -> Request]
        /\ desk'[c] = d
        /\ \A p \in People : p # c => desk'[p] = desk[p]
    BY <1>1
  <1>3. Intents = [p \in People |-> Intended(desk[p])]
    BY DEF Intents, People
  <1>4. Intents' = [p \in People |-> Intended(desk'[p])]
    BY DEF Intents, People, Intended
  <1>5. Intents' = [Intents EXCEPT ![c] = Intended(d)]
    BY <1>2, <1>3, <1>4
  <1> QED
    BY <1>2, <1>5

\* An invoice row is written: it stays linked, or becomes linked.
LEMMA InvoiceWritten ==
    ASSUME Inv, NEW i, NEW row \in InvoiceRow,
           row.returned <= row.qty, row.status # "none",
           invoice' = [invoice EXCEPT ![i] = row]
    PROVE  /\ InvoicesOK'
           /\ Linked \subseteq Linked'
           /\ i \in Invoices => Linked' # {}
  <1>1. InvoicesOK
    BY TypeParts DEF Inv
  <1>2. /\ invoice' \in [Invoices -> InvoiceRow]
        /\ i \in Invoices => invoice'[i] = row
        /\ \A j \in Invoices : j # i => invoice'[j] = invoice[j]
    BY <1>1 DEF InvoicesOK
  <1>3. \A j \in Invoices : invoice'[j] = invoice[j] \/ invoice'[j] = row
    BY <1>2
  <1>4. \A j \in Invoices : invoice'[j].returned <= invoice'[j].qty
    BY <1>1, <1>3 DEF InvoicesOK
  <1>5. Linked \subseteq Linked'
    BY <1>3 DEF Linked
  <1>6. i \in Invoices => i \in Linked'
    BY <1>2 DEF Linked
  <1> QED
    BY <1>2, <1>4, <1>5, <1>6 DEF InvoicesOK

\* What a step of request c must show to keep the invariant.
LEMMA Keeps ==
    ASSUME Inv, NEW c \in People, NEW d \in Request,
           desk' = [desk EXCEPT ![c] = d],
           order' \in OrderRow, order'.status # "none",
           InvoicesOK', Linked \subseteq Linked', Sound(d, Linked'),
           order'.status \in Committed => Linked' # {}
    PROVE  Inv'
  <1>1. /\ desk' \in [People -> Request]
        /\ desk'[c] = d
        /\ \A p \in People : p # c => desk'[p] = desk[p]
    BY DeskMoves
  <1>2. TypeOK'
    BY <1>1, TypeParts DEF TypeOK, OrderRow, InvoiceRow, InvoicesOK, People
  <1>3. CommittedHasInvoice'
    BY DEF CommittedHasInvoice, Committed
  <1>4. ASSUME NEW p \in People PROVE Sound(desk'[p], Linked')
    <2>1. CASE p = c
      BY <2>1, <1>1 DEF Sound
    <2>2. CASE p # c
      <3>1. Sound(desk[p], Linked)
        BY DEF Inv
      <3> QED
        BY <2>2, <1>1, <3>1 DEF Sound
    <2> QED
      BY <2>1, <2>2
  <1> QED
    BY <1>2, <1>3, <1>4 DEF Inv

\* A request at work: its order has existed.
LEMMA AtWork ==
    ASSUME Inv, NEW c \in People, desk[c] # Idle
    PROVE  order.status # "none" /\ order.status \in OrderStatuses \union {"deleted"}
  BY TypeParts DEF Inv, OrderRow

\* A step of OrderStatus, or none.
Legal == Lifecycle!Next \/ UNCHANGED <<order.status, Intents>>

-----------------------------------------------------------------------------
(* The three ways a request changes its desk: it arrives, goes on, ends *)

LEMMA Accepted ==
    ASSUME Inv, NEW c \in People, NEW step \in Steps, NEW next \in OrderStatuses,
           NEW link \in Invoices \union {NoInvoice}, NEW q \in Nat,
           Accept(c, step, next, link, q),
           step = "flip" /\ next \in Committed => Linked # {},
           step \in {"cancelSale", "returnAll"} => next \notin Committed,
           step \in {"returnSome", "settle"} => next = "RETURNED"
    PROVE  /\ Inv'
           /\ Exists /\ order' = order
           /\ Intents[c] = "none"
           /\ Intents' = [Intents EXCEPT ![c] =
                  IF step \in {"idle", "edit", "delete", "sellOnly"} THEN "none" ELSE next]
  <1> DEFINE d == [step |-> step, next |-> next, seen |-> order.status,
                   link |-> link, qty |-> q]
  <1>1. /\ desk[c] = Idle
        /\ Exists
        /\ desk' = [desk EXCEPT ![c] = d]
        /\ order' = order /\ invoice' = invoice
    BY DEF Accept
  <1>2. d \in Request
    BY <1>1 DEF Request, Exists
  <1>3. /\ d.step = step /\ d.next = next
    OBVIOUS
  <1>4. Linked' = Linked
    BY <1>1 DEF Linked
  <1>5. Sound(d, Linked')
    BY <1>3, <1>4 DEF Sound, Committed
  <1>6. /\ order' \in OrderRow
        /\ order'.status # "none"
        /\ order'.status \in Committed => Linked' # {}
    BY <1>1, <1>4, Workflow, TypeParts DEF Inv, Exists, CommittedHasInvoice, Committed
  <1>7. InvoicesOK'
    BY <1>1, TypeParts DEF Inv, InvoicesOK
  <1>8. Intended(d) =
            IF step \in {"idle", "edit", "delete", "sellOnly"} THEN "none" ELSE next
    BY <1>3 DEF Intended
  <1> HIDE DEF d
  <1>9. Inv'
    BY <1>1, <1>2, <1>4, <1>5, <1>6, <1>7, Keeps
  <1>10. Intents' = [Intents EXCEPT ![c] = Intended(d)]
    BY <1>1, <1>2, DeskMoves
  <1>11. Intents[c] = "none"
    BY <1>1 DEF Intents, Intended, Idle, People
  <1> QED
    BY <1>1, <1>8, <1>9, <1>10, <1>11

\* A request goes on with the same target; its intention stays the same.
LEMMA Proceeded ==
    ASSUME Inv, NEW c \in People, NEW step \in Steps,
           desk[c].step \notin {"idle", "edit", "delete", "sellOnly"},
           step \in {"flip", "settle"}, Proceed(c, step),
           UNCHANGED order, InvoicesOK', Linked \subseteq Linked',
           step = "flip" /\ desk[c].next \in Committed => Linked' # {},
           step = "settle" => desk[c].next = "RETURNED"
    PROVE  Inv' /\ Legal
  <1> DEFINE d == [desk[c] EXCEPT !.step = step]
  <1>1. desk[c] \in Request
    BY TypeParts DEF Inv
  <1>2. d \in Request /\ d.step = step /\ d.next = desk[c].next
    BY <1>1 DEF Request
  <1>3. desk' = [desk EXCEPT ![c] = d]
    BY DEF Proceed
  <1>4. Sound(d, Linked')
    BY <1>2 DEF Sound, Committed
  <1>5. order.status # "none"
    BY DEF Inv, Idle
  <1>6. /\ order' \in OrderRow /\ order'.status # "none"
        /\ order'.status \in Committed => Linked' # {}
    BY <1>5, TypeParts DEF Inv, CommittedHasInvoice, Committed
  <1>7. Intended(d) = Intended(desk[c])
    BY <1>2 DEF Intended
  <1> HIDE DEF d
  <1>8. Inv'
    BY <1>2, <1>3, <1>4, <1>6, Keeps
  <1>9. Intents' = [Intents EXCEPT ![c] = Intended(desk[c])]
    BY <1>2, <1>3, <1>7, DeskMoves
  <1>10. Intents' = Intents
    BY <1>9 DEF Intents, People
  <1> QED
    BY <1>8, <1>10 DEF Legal

\* A request ends; what it writes to the order, if anything, is harmless.
LEMMA Ended ==
    ASSUME Inv, NEW c \in People, desk[c] # Idle, Done(c),
           order' \in OrderRow, order'.status # "none",
           InvoicesOK', Linked \subseteq Linked',
           order'.status \in Committed => Linked' # {}
    PROVE  /\ Inv'
           /\ Intents[c] = Intended(desk[c])
           /\ Intents' = [Intents EXCEPT ![c] = "none"]
           /\ Intents[c] = "none" => Intents' = Intents
  <1>1. desk' = [desk EXCEPT ![c] = Idle]
    BY DEF Done
  <1>2. Sound(Idle, Linked')
    BY DEF Sound, Idle
  <1>3. Inv'
    BY <1>1, <1>2, IdleType, Keeps
  <1>4. Intended(Idle) = "none"
    BY DEF Intended, Idle
  <1>5. Intents' = [Intents EXCEPT ![c] = "none"]
    BY <1>1, <1>4, IdleType, DeskMoves
  <1>6. Intents[c] = Intended(desk[c])
    BY DEF Intents, People
  <1>7. Intents[c] = "none" => Intents' = Intents
    BY <1>5 DEF Intents, People
  <1> QED
    BY <1>3, <1>5, <1>6, <1>7

-----------------------------------------------------------------------------
(* Every action keeps the invariant and is a step of OrderStatus *)

LEMMA Unlinked == NoInvoice \notin Invoices /\ Quantities \subseteq Nat
  BY OnlineOrdersAssumption

LEMMA Placed ==
    ASSUME Inv, PlaceOrder
    PROVE  Inv' /\ Legal
  <1>1. PICK q \in Quantities :
            /\ order.status = "none"
            /\ order' = [status |-> "NEW", qty |-> q]
            /\ invoice' = invoice /\ desk' = desk
    BY DEF PlaceOrder
  <1>2. TypeOK'
    <2>1. order' \in OrderRow
      BY <1>1, Workflow, Unlinked DEF OrderRow
    <2> QED
      BY <1>1, <2>1, TypeParts DEF Inv, TypeOK, OrderRow
  <1>3. CommittedHasInvoice'
    BY <1>1 DEF CommittedHasInvoice
  <1>4. /\ \A p \in People : Sound(desk'[p], Linked')
        /\ order'.status # "none"
    BY <1>1 DEF Inv, Linked
  <1>5. Lifecycle!Place
    BY <1>1 DEF Lifecycle!Place, Intents
  <1> QED
    BY <1>2, <1>3, <1>4, <1>5 DEF Inv, Legal, Lifecycle!Next

\* Requests that mean to write no status: edit, delete, convertToSale.
LEMMA QuietBegins ==
    ASSUME Inv, NEW c \in Clerks, BeginEdit(c) \/ BeginDelete(c) \/ BeginConvert(c)
    PROVE  Inv' /\ Legal
  <1>1. c \in People
    BY DEF People
  <1>2. PICK step \in {"edit", "delete", "sellOnly"}, q \in Nat :
            Accept(c, step, order.status, NoInvoice, q)
    <2>1. CASE BeginEdit(c)
      BY <2>1, Unlinked DEF BeginEdit
    <2>2. CASE BeginDelete(c)
      BY <2>2 DEF BeginDelete
    <2>3. CASE BeginConvert(c)
      BY <2>3, TypeParts DEF BeginConvert, Inv, OrderRow
    <2> QED
      BY <2>1, <2>2, <2>3
  <1>3. order.status \in OrderStatuses /\ step \in Steps
    BY <1>2 DEF Accept, Exists, Steps
  <1>4. /\ Inv'
        /\ order' = order
        /\ Intents[c] = "none"
        /\ Intents' = [Intents EXCEPT ![c] = "none"]
    BY <1>1, <1>2, <1>3, Accepted
  <1>5. Intents' = Intents
    BY <1>4 DEF Intents
  <1> QED
    BY <1>4, <1>5 DEF Legal

\* OrderStatus has the same workflow.
LEMMA SameWorkflow ==
    /\ Lifecycle!OrderStatuses = OrderStatuses
    /\ Lifecycle!Transitions = Transitions
    /\ Lifecycle!SaleBacked = SaleBacked
    /\ Lifecycle!Terminal = Terminal
  BY DEF Lifecycle!OrderStatuses, OrderStatuses, Lifecycle!Transitions, Transitions,
         Lifecycle!SaleBacked, SaleBacked, Lifecycle!Terminal, Terminal

\* A planned move: what the status was read as allows it.
LEMMA Planned ==
    ASSUME Inv, NEW c \in People, NEW next \in OrderStatuses,
           Exists, order' = order, Intents[c] = "none",
           Intents' = [Intents EXCEPT ![c] = next]
    PROVE  Lifecycle!Plan(c, next) /\ Lifecycle!Exists
  BY SameWorkflow DEF Lifecycle!Plan, Lifecycle!Exists, Exists

LEMMA MoveBegins ==
    ASSUME Inv, NEW c \in Clerks, BeginMove(c)
    PROVE  Inv' /\ Legal
  <1>1. c \in People
    BY DEF People
  <1>2. PICK next \in OrderStatuses, link \in LinkRead :
            /\ Exists
            /\ next \in Transitions[order.status]
            /\ Accept(c, SideEffect(next, link), next, link, order.qty)
    BY DEF BeginMove
  <1> DEFINE step == SideEffect(next, link)
  <1>3. /\ step \in {"sell", "cancelSale", "returnAll", "flip"}
        /\ step = "flip" /\ next = "CONFIRMED" => link # NoInvoice
        /\ step = "cancelSale" => next = "CANCELLED"
        /\ step = "returnAll" => next = "RETURNED"
    BY DEF SideEffect
  <1>4. /\ link \in Invoices \union {NoInvoice}
        /\ link # NoInvoice => Linked # {}
    BY <1>2 DEF LinkRead, Linked
  <1>5. order.qty \in Nat
    BY TypeParts DEF Inv, OrderRow
  <1>6. step = "flip" /\ next \in Committed => Linked # {}
    <2>1. ASSUME next \in {"READY_FOR_DELIVERY", "OUT_FOR_DELIVERY"}
          PROVE  order.status \in {"CONFIRMED", "READY_FOR_DELIVERY"}
      BY <1>2, <2>1, Workflow DEF Exists
    <2> QED
      BY <1>3, <1>4, <2>1 DEF Inv, CommittedHasInvoice, Committed
  <1>7. step \in {"cancelSale", "returnAll"} => next \notin Committed
    BY <1>3 DEF Committed
  <1>8. Accept(c, step, next, link, order.qty)
    BY <1>2
  <1>9. step \in Steps /\ step \notin {"idle", "edit", "delete", "sellOnly", "returnSome", "settle"}
    BY <1>3 DEF Steps
  <1> HIDE DEF step
  <1>10. /\ Inv'
         /\ order' = order
         /\ Intents[c] = "none"
         /\ Intents' = [Intents EXCEPT ![c] = next]
    BY <1>1, <1>4, <1>5, <1>6, <1>7, <1>8, <1>9, Accepted
  <1>11. Lifecycle!Plan(c, next) /\ Lifecycle!Exists
    BY <1>1, <1>2, <1>10, Planned
  <1>12. Lifecycle!PlanMove(c)
    BY <1>2, <1>11, SameWorkflow DEF Lifecycle!PlanMove
  <1> QED
    BY <1>10, <1>12 DEF Legal, Lifecycle!Next

LEMMA ReturnBegins ==
    ASSUME Inv, NEW c \in Clerks, BeginReturn(c)
    PROVE  Inv' /\ Legal
  <1>1. c \in People
    BY DEF People
  <1>2. PICK link \in LinkRead, q \in Quantities :
            /\ order.status \in SaleBacked
            /\ Accept(c, "returnSome", "RETURNED", link, q)
    BY DEF BeginReturn
  <1>3. /\ link \in Invoices \union {NoInvoice}
        /\ q \in Nat
        /\ "RETURNED" \in OrderStatuses
        /\ "returnSome" \in Steps
    BY <1>2, Workflow, Unlinked DEF LinkRead, Linked, Steps
  <1>4. /\ Inv'
        /\ Exists /\ order' = order
        /\ Intents[c] = "none"
        /\ Intents' = [Intents EXCEPT ![c] = "RETURNED"]
    BY <1>1, <1>2, <1>3, Accepted
  <1>5. Lifecycle!Plan(c, "RETURNED") /\ Lifecycle!Exists
    BY <1>1, <1>3, <1>4, Planned
  <1>6. Lifecycle!PlanMove(c)
    BY <1>2, <1>3, <1>5, SameWorkflow DEF Lifecycle!PlanMove
  <1> QED
    BY <1>4, <1>6 DEF Legal, Lifecycle!Next

LEMMA ReportBegins ==
    ASSUME Inv, NEW f \in Couriers, NEW target \in {"DELIVERED", "RETURNED"},
           CourierReports(f, target)
    PROVE  Inv' /\ Legal
  <1>1. f \in People
    BY DEF People
  <1>2. /\ order.status \notin Terminal \union {target}
        /\ Accept(f, "flip", target, NoInvoice, order.qty)
    BY DEF CourierReports
  <1>3. /\ order.qty \in Nat
        /\ target \in OrderStatuses /\ target \notin Committed
        /\ "flip" \in Steps
    BY TypeParts, Workflow DEF Inv, OrderRow, Committed, Steps
  <1>4. /\ Inv'
        /\ Exists /\ order' = order
        /\ Intents[f] = "none"
        /\ Intents' = [Intents EXCEPT ![f] = target]
    BY <1>1, <1>2, <1>3, Accepted
  <1>5. Lifecycle!Plan(f, target) /\ Lifecycle!Exists
    BY <1>1, <1>3, <1>4, Planned
  <1>6. Lifecycle!CourierReports(f, target)
    BY <1>2, <1>5, SameWorkflow DEF Lifecycle!CourierReports
  <1> QED
    BY <1>4, <1>6 DEF Legal, Lifecycle!Next

\* A request that writes its intention, or lets go of it, ends.
LEMMA Writes ==
    ASSUME NEW c \in People, Intents[c] # "none",
           order'.status = IF Exists THEN Intents[c] ELSE order.status,
           Intents' = [Intents EXCEPT ![c] = "none"]
    PROVE  Legal
  <1>1. Lifecycle!Write(c)
    BY SameWorkflow DEF Lifecycle!Write, Lifecycle!Settled, Lifecycle!Exists, Exists
  <1> QED
    BY <1>1 DEF Legal, Lifecycle!Next, People

LEMMA GivesUp ==
    ASSUME NEW c \in People, Intents[c] = "none" => Intents' = Intents,
           order'.status = order.status,
           Intents' = [Intents EXCEPT ![c] = "none"]
    PROVE  Legal
  <1>1. CASE Intents[c] = "none"
    BY <1>1 DEF Legal
  <1>2. CASE Intents[c] # "none"
    <2>1. Lifecycle!GiveUp(c)
      BY <1>2 DEF Lifecycle!GiveUp, Lifecycle!Settled
    <2> QED
      BY <2>1 DEF Legal, Lifecycle!Next, People
  <1> QED
    BY <1>1, <1>2

LEMMA SalesKept ==
    ASSUME Inv, invoice' = invoice
    PROVE  InvoicesOK' /\ Linked' = Linked
  BY TypeParts DEF Inv, InvoicesOK, Linked

LEMMA OrderWritten ==
    ASSUME Inv, NEW status \in OrderStatuses, Moved(status), order.status # "none"
    PROVE  /\ order' \in OrderRow /\ order'.status # "none"
           /\ order'.status = IF Exists THEN status ELSE order.status
  <1>1. order \in OrderRow
    BY TypeParts DEF Inv
  <1>2. status # "none"
    BY Workflow
  <1> QED
    BY <1>1, <1>2 DEF Moved, OrderRow

LEMMA EditEnds ==
    ASSUME Inv, NEW c \in Clerks, Edit(c)
    PROVE  Inv' /\ Legal
  <1>1. /\ c \in People
        /\ desk[c].step = "edit" /\ desk[c] # Idle
        /\ order' = [order EXCEPT !.qty = desk[c].qty]
        /\ invoice' = invoice
        /\ Done(c)
    BY DEF People, Edit, At, Idle
  <1>2. order \in OrderRow /\ desk[c].qty \in Nat
    BY <1>1, TypeParts DEF Inv, Request
  <1>3. order' \in OrderRow /\ order'.status = order.status
    BY <1>1, <1>2 DEF OrderRow
  <1>4. order.status # "none"
    BY <1>1, AtWork
  <1>5. order'.status \in Committed => Linked # {}
    BY <1>3 DEF Inv, CommittedHasInvoice, Committed
  <1>6. /\ Inv'
        /\ Intents' = [Intents EXCEPT ![c] = "none"]
        /\ Intents[c] = "none" => Intents' = Intents
    BY <1>1, <1>3, <1>4, <1>5, SalesKept, Ended
  <1> QED
    BY <1>1, <1>3, <1>6, GivesUp

LEMMA DeleteEnds ==
    ASSUME Inv, NEW c \in Clerks, Delete(c)
    PROVE  Inv' /\ Legal
  <1>1. /\ c \in People
        /\ desk[c].step = "delete" /\ desk[c] # Idle
        /\ order' = [order EXCEPT !.status = "deleted"]
        /\ invoice' = invoice
        /\ Done(c)
    BY DEF People, Delete, At, Idle
  <1>2. order \in OrderRow
    BY TypeParts DEF Inv
  <1>3. order' \in OrderRow /\ order'.status = "deleted"
    BY <1>1, <1>2 DEF OrderRow
  <1>4. order.status # "none" /\ order.status \in OrderStatuses \union {"deleted"}
    BY <1>1, AtWork
  <1>5. order'.status \notin Committed
    BY <1>3 DEF Committed
  <1>6. /\ Inv'
        /\ Intents[c] = Intended(desk[c])
        /\ Intents[c] = "none" => Intents' = Intents
    BY <1>1, <1>3, <1>5, SalesKept, Ended
  <1>7. Intents' = Intents
    BY <1>1, <1>6 DEF Intended
  <1>8. CASE Exists
    <2>1. Lifecycle!Remove
      BY <1>3, <1>7, <1>8, SameWorkflow DEF Lifecycle!Remove, Lifecycle!Exists, Exists
    <2> QED
      BY <1>6, <2>1 DEF Legal, Lifecycle!Next
  <1>9. CASE ~Exists
    BY <1>3, <1>4, <1>6, <1>7, <1>9 DEF Legal, Exists
  <1> QED
    BY <1>8, <1>9

LEMMA FlipEnds ==
    ASSUME Inv, NEW c \in People, Flip(c)
    PROVE  Inv' /\ Legal
  <1>1. /\ desk[c].step = "flip" /\ desk[c] # Idle
        /\ Moved(desk[c].next)
        /\ invoice' = invoice
        /\ Done(c)
    BY DEF Flip, At, Idle
  <1>2. desk[c].next \in OrderStatuses
    BY TypeParts DEF Inv, Request
  <1>3. order.status # "none"
    BY <1>1, AtWork
  <1>4. /\ order' \in OrderRow /\ order'.status # "none"
        /\ order'.status = IF Exists THEN desk[c].next ELSE order.status
    BY <1>1, <1>2, <1>3, OrderWritten
  <1>5. order'.status \in Committed => Linked # {}
    BY <1>1, <1>4 DEF Inv, Sound, CommittedHasInvoice, Committed
  <1>6. /\ Inv'
        /\ Intents[c] = Intended(desk[c])
        /\ Intents' = [Intents EXCEPT ![c] = "none"]
    BY <1>1, <1>4, <1>5, SalesKept, Ended
  <1>7. Intents[c] = desk[c].next /\ desk[c].next # "none"
    BY <1>1, <1>2, <1>6, Workflow DEF Intended
  <1>8. Legal
    BY <1>4, <1>6, <1>7, Writes
  <1> QED
    BY <1>6, <1>8

LEMMA SettleEnds ==
    ASSUME Inv, NEW c \in Clerks, Settle(c)
    PROVE  Inv' /\ Legal
  <1>1. /\ c \in People
        /\ desk[c].step = "settle" /\ desk[c] # Idle
        /\ Moved("RETURNED") \/ order' = order
        /\ invoice' = invoice
        /\ Done(c)
    BY DEF People, Settle, At, Idle
  <1>2. desk[c].next = "RETURNED" /\ "RETURNED" \in OrderStatuses
    BY <1>1, Workflow DEF Inv, Sound
  <1>3. order.status # "none"
    BY <1>1, AtWork
  <1>4. CASE Moved("RETURNED")
    <2>1. /\ order' \in OrderRow /\ order'.status # "none"
          /\ order'.status = IF Exists THEN "RETURNED" ELSE order.status
      BY <1>2, <1>3, <1>4, OrderWritten
    <2>2. order'.status \in Committed => Linked # {}
      BY <2>1 DEF Inv, CommittedHasInvoice, Committed
    <2>3. /\ Inv'
          /\ Intents[c] = Intended(desk[c])
          /\ Intents' = [Intents EXCEPT ![c] = "none"]
      BY <1>1, <2>1, <2>2, SalesKept, Ended
    <2>4. Intents[c] = "RETURNED"
      BY <1>1, <1>2, <2>3 DEF Intended
    <2> QED
      BY <1>1, <2>1, <2>3, <2>4, Writes
  <1>5. CASE order' = order
    <2>1. /\ order' \in OrderRow /\ order'.status # "none"
          /\ order'.status \in Committed => Linked # {}
      BY <1>3, <1>5, TypeParts DEF Inv, CommittedHasInvoice, Committed
    <2>2. /\ Inv'
          /\ Intents' = [Intents EXCEPT ![c] = "none"]
          /\ Intents[c] = "none" => Intents' = Intents
      BY <1>1, <2>1, SalesKept, Ended
    <2> QED
      BY <1>1, <1>5, <2>2, GivesUp
  <1> QED
    BY <1>1, <1>4, <1>5

LEMMA FailEnds ==
    ASSUME Inv, NEW c \in People, Fail(c)
    PROVE  Inv' /\ Legal
  <1>1. desk[c] # Idle /\ Done(c) /\ order' = order /\ invoice' = invoice
    BY DEF Fail
  <1>2. order.status # "none"
    BY <1>1, AtWork
  <1>3. /\ order' \in OrderRow /\ order'.status # "none"
        /\ order'.status \in Committed => Linked # {}
    BY <1>1, <1>2, TypeParts DEF Inv, CommittedHasInvoice, Committed
  <1>4. /\ Inv'
        /\ Intents' = [Intents EXCEPT ![c] = "none"]
        /\ Intents[c] = "none" => Intents' = Intents
    BY <1>1, <1>3, SalesKept, Ended
  <1> QED
    BY <1>1, <1>4, GivesUp

\* A sale that is linked already is written to.
LEMMA InvoiceUpdated ==
    ASSUME Inv, NEW i, NEW row,
           i \in Invoices => /\ row \in InvoiceRow
                            /\ row.returned <= row.qty
                            /\ row.status # "none",
           invoice' = [invoice EXCEPT ![i] = row]
    PROVE  InvoicesOK' /\ Linked \subseteq Linked'
  <1>1. CASE i \in Invoices
    BY <1>1, InvoiceWritten
  <1>2. CASE i \notin Invoices
    <2>1. invoice' = invoice
      BY <1>2, TypeParts DEF Inv, InvoicesOK
    <2> QED
      BY <2>1, SalesKept
  <1> QED
    BY <1>1, <1>2

LEMMA SaleMade ==
    ASSUME Inv, NEW c \in Clerks, Sell(c)
    PROVE  Inv' /\ Legal
  <1>1. PICK i \in Invoices :
            /\ desk[c].step = "sell" \/ desk[c].step = "sellOnly"
            /\ invoice' = [invoice EXCEPT ![i] =
                    [status |-> "issued", qty |-> desk[c].qty, returned |-> 0]]
            /\ IF desk[c].step = "sell" THEN Proceed(c, "flip") ELSE Done(c)
            /\ order' = order
    BY DEF Sell, At
  <1>2. c \in People /\ desk[c] # Idle
    BY <1>1 DEF People, Idle
  <1>3. desk[c].qty \in Nat
    BY <1>2, TypeParts DEF Inv, Request
  <1>4. InvoicesOK' /\ Linked \subseteq Linked' /\ Linked' # {}
    <2> DEFINE row == [status |-> "issued", qty |-> desk[c].qty, returned |-> 0]
    <2>1. /\ row \in InvoiceRow /\ row.returned <= row.qty /\ row.status # "none"
      BY <1>3 DEF InvoiceRow
    <2>2. invoice' = [invoice EXCEPT ![i] = row]
      BY <1>1
    <2> HIDE DEF row
    <2> QED
      BY <2>1, <2>2, InvoiceWritten
  <1>5. CASE desk[c].step = "sell"
    <2>1. Proceed(c, "flip") /\ "flip" \in Steps
      BY <1>1, <1>5 DEF Steps
    <2> QED
      BY <1>1, <1>2, <1>4, <1>5, <2>1, Proceeded
  <1>6. CASE desk[c].step = "sellOnly"
    <2>1. Done(c)
      BY <1>1, <1>6
    <2>2. order' \in OrderRow /\ order'.status # "none"
      BY <1>1, <1>2, AtWork, TypeParts DEF Inv
    <2>3. /\ Inv'
          /\ Intents' = [Intents EXCEPT ![c] = "none"]
          /\ Intents[c] = "none" => Intents' = Intents
      BY <1>2, <1>4, <2>1, <2>2, Ended
    <2> QED
      BY <1>1, <1>2, <2>3, GivesUp
  <1> QED
    BY <1>1, <1>5, <1>6

\* Cancelling or taking back an order's sale, before its status follows.
LEMMA SaleUndone ==
    ASSUME Inv, NEW c \in Clerks, CancelSale(c) \/ ReturnAll(c) \/ ReturnSome(c)
    PROVE  Inv' /\ Legal
  <1> DEFINE i == desk[c].link
             cancelled == [invoice[i] EXCEPT !.status = "cancelled"]
             returned == [invoice[i] EXCEPT !.returned = invoice[i].qty]
             less == [invoice[i] EXCEPT !.returned = invoice[i].returned + desk[c].qty]
  <1>1. c \in People
    BY DEF People
  <1>2. /\ desk[c] \in Request
        /\ Sound(desk[c], Linked)
    BY <1>1, TypeParts DEF Inv
  <1>3. i \in Invoices => /\ invoice[i] \in InvoiceRow
                          /\ invoice[i].returned <= invoice[i].qty
    BY TypeParts DEF Inv, InvoicesOK
  <1>4. CASE CancelSale(c)
    <2>1. /\ desk[c].step = "cancelSale" /\ invoice[i].status = "issued"
          /\ invoice' = [invoice EXCEPT ![i] = cancelled]
          /\ Proceed(c, "flip") /\ order' = order
      BY <1>4 DEF CancelSale, At
    <2>2. i \in Invoices => /\ cancelled \in InvoiceRow
                            /\ cancelled.returned <= cancelled.qty
                            /\ cancelled.status # "none"
      BY <1>3 DEF InvoiceRow
    <2> HIDE DEF cancelled
    <2>3. InvoicesOK' /\ Linked \subseteq Linked'
      BY <2>1, <2>2, InvoiceUpdated
    <2> QED
      BY <1>1, <1>2, <2>1, <2>3, Proceeded DEF Sound, Steps
  <1>5. CASE ReturnAll(c)
    <2>1. /\ desk[c].step = "returnAll" /\ invoice[i].status = "issued"
          /\ invoice' = [invoice EXCEPT ![i] = returned]
          /\ Proceed(c, "flip") /\ order' = order
      BY <1>5 DEF ReturnAll, At
    <2>2. i \in Invoices => /\ returned \in InvoiceRow
                            /\ returned.returned <= returned.qty
                            /\ returned.status # "none"
      BY <1>3, <2>1 DEF InvoiceRow
    <2> HIDE DEF returned
    <2>3. InvoicesOK' /\ Linked \subseteq Linked'
      BY <2>1, <2>2, InvoiceUpdated
    <2> QED
      BY <1>1, <1>2, <2>1, <2>3, Proceeded DEF Sound, Steps
  <1>6. CASE ReturnSome(c)
    <2>1. /\ desk[c].step = "returnSome" /\ invoice[i].status = "issued"
          /\ invoice[i].returned + desk[c].qty <= invoice[i].qty
          /\ invoice' = [invoice EXCEPT ![i] = less]
          /\ Proceed(c, "settle") /\ order' = order
      BY <1>6 DEF ReturnSome, At
    <2>2. i \in Invoices => /\ less \in InvoiceRow
                            /\ less.returned <= less.qty
                            /\ less.status # "none"
      BY <1>2, <1>3, <2>1 DEF InvoiceRow, Request
    <2> HIDE DEF less
    <2>3. InvoicesOK' /\ Linked \subseteq Linked'
      BY <2>1, <2>2, InvoiceUpdated
    <2> QED
      BY <1>1, <1>2, <2>1, <2>3, Proceeded DEF Sound, Steps
  <1> QED
    BY <1>4, <1>5, <1>6

-----------------------------------------------------------------------------

LEMMA StepKeeps ==
    ASSUME Inv, Next
    PROVE  Inv' /\ Legal
  <1>1. CASE PlaceOrder
    BY <1>1, Placed
  <1>2. ASSUME NEW c \in Clerks, Staff(c) PROVE Inv' /\ Legal
    BY <1>2, QuietBegins, MoveBegins, ReturnBegins, EditEnds, DeleteEnds,
       SettleEnds, SaleMade, SaleUndone DEF Staff
  <1>3. ASSUME NEW f \in Couriers, NEW target \in {"DELIVERED", "RETURNED"},
               CourierReports(f, target)
        PROVE  Inv' /\ Legal
    BY <1>3, ReportBegins
  <1>4. ASSUME NEW c \in Clerks \union Couriers, Flip(c) \/ Fail(c)
        PROVE  Inv' /\ Legal
    BY <1>4, FlipEnds, FailEnds DEF People
  <1> QED
    BY <1>1, <1>2, <1>3, <1>4 DEF Next

LEMMA StutterKeeps ==
    ASSUME Inv, UNCHANGED vars
    PROVE  Inv' /\ Legal
  <1>1. order' = order /\ invoice' = invoice /\ desk' = desk
    BY DEF vars
  <1>2. TypeOK' /\ CommittedHasInvoice' /\ Linked' = Linked
    BY <1>1 DEF Inv, TypeOK, CommittedHasInvoice, Linked
  <1>3. Intents' = Intents
    BY <1>1 DEF Intents
  <1> QED
    BY <1>1, <1>2, <1>3 DEF Inv, Legal

LEMMA InitHolds ==
    ASSUME Init
    PROVE  Inv /\ Lifecycle!Init
  <1>1. /\ order = [status |-> "none", qty |-> 0]
        /\ invoice = [i \in Invoices |-> [status |-> "none", qty |-> 0, returned |-> 0]]
        /\ desk = [c \in People |-> Idle]
    BY DEF Init, People
  <1>2. order \in OrderRow /\ order.status = "none"
    BY <1>1 DEF OrderRow
  <1>3. InvoicesOK
    BY <1>1 DEF InvoicesOK, InvoiceRow
  <1>4. desk \in [People -> Request]
    BY <1>1, IdleType
  <1>5. TypeOK
    BY <1>2, <1>3, <1>4, TypeParts
  <1>6. CommittedHasInvoice
    BY <1>2 DEF CommittedHasInvoice
  <1>7. \A c \in People : desk[c] = Idle /\ Sound(desk[c], Linked)
    BY <1>1 DEF Sound, Idle
  <1>8. Intents = [c \in Clerks \union Couriers |-> "none"]
    BY <1>7 DEF Intents, Intended, Idle, People
  <1> QED
    BY <1>2, <1>5, <1>6, <1>7, <1>8 DEF Inv, Lifecycle!Init

LEMMA Invariant == Spec => []Inv
  <1>1. Init => Inv
    BY InitHolds
  <1>2. Inv /\ [Next]_vars => Inv'
    BY StepKeeps, StutterKeeps
  <1> QED
    BY <1>1, <1>2, PTL DEF Spec

\* Every reachable state is well typed, whatever fails half-way; in
\* particular no invoice of an order takes back more than it sold.
THEOREM TypeCorrect == Spec => []TypeOK
  <1>1. Inv => TypeOK
    BY DEF Inv
  <1> QED
    BY <1>1, Invariant, PTL

\* Whichever clerks and couriers race, and wherever a request fails, an order
\* that is confirmed, being prepared or on its way has been invoiced.
THEOREM CommittedIsInvoiced == Spec => []CommittedHasInvoice
  <1>1. Inv => CommittedHasInvoice
    BY DEF Inv
  <1> QED
    BY <1>1, Invariant, PTL

\* onlineOrderService's sequence of transactions implements OrderStatus.
THEOREM ImplementsOrderStatus == Spec => StatusMovesLegally
  <1>1. Init => Lifecycle!Init
    BY InitHolds
  <1>2. Inv /\ [Next]_vars => [Lifecycle!Next]_(Lifecycle!statusVars)
    BY StepKeeps, StutterKeeps DEF Legal, Lifecycle!statusVars
  <1> QED
    BY <1>1, <1>2, Invariant, PTL DEF Spec, StatusMovesLegally, Lifecycle!Spec

-----------------------------------------------------------------------------
(* One clerk at a time                                                     *)

\* What a clerk's request still relies on when nobody else's comes between:
\* the order is there, nothing is invoiced, and the quantity it has read.
Unsold(d, row, linked) ==
    /\ d.step \in {"edit", "delete", "sell", "sellOnly"} =>
          row.status \in OrderStatuses /\ linked = {}
    /\ d.step \in {"sell", "sellOnly"} => d.qty = row.qty

AsOrdered ==
    /\ InvoicedAsOrdered
    /\ \A c \in Clerks : Unsold(desk[c], order, Linked)
    /\ \A f \in Couriers : desk[f].step \in {"idle", "flip"}

\* A step of a clerk leaves no other clerk to be disturbed, one of a courier
\* changes nothing that a clerk relies on.
LEMMA OneAtATime ==
    ASSUME Inv, AsOrdered, \A c, d \in Clerks : c = d,
           NEW c \in People, NEW d \in Request, desk' = [desk EXCEPT ![c] = d],
           InvoicedAsOrdered',
           c \in Clerks => Unsold(d, order', Linked'),
           c \in Couriers =>
               /\ d.step \in {"idle", "flip"} /\ Linked' = Linked
               /\ order'.qty = order.qty
               /\ Exists => order'.status \in OrderStatuses
    PROVE  AsOrdered'
  <1>1. /\ desk'[c] = d
        /\ \A p \in People : p # c => desk'[p] = desk[p]
    BY DeskMoves
  <1>2. ASSUME NEW b \in Clerks PROVE Unsold(desk'[b], order', Linked')
    <2>1. CASE b = c
      BY <1>1, <2>1
    <2>2. CASE b # c
      <3>1. c \in Couriers /\ desk'[b] = desk[b]
        BY <1>1, <2>2 DEF People
      <3> QED
        BY <3>1 DEF AsOrdered, Unsold, Exists
    <2> QED
      BY <2>1, <2>2
  <1>3. ASSUME NEW f \in Couriers PROVE desk'[f].step \in {"idle", "flip"}
    <2>1. CASE f = c
      BY <1>1, <2>1
    <2>2. CASE f # c
      <3>1. desk'[f] = desk[f]
        BY <1>1, <2>2 DEF People
      <3> QED
        BY <3>1 DEF AsOrdered
    <2> QED
      BY <2>1, <2>2
  <1> QED
    BY <1>2, <1>3 DEF AsOrdered

\* Neither the quantity of the order nor what is invoiced of it changes.
LEMMA SameGoods ==
    ASSUME InvoicedAsOrdered, order'.qty = order.qty,
           Exists => order'.status \in OrderStatuses,
           \A i \in Invoices : /\ invoice'[i].qty = invoice[i].qty
                               /\ invoice'[i].status = "none" <=> invoice[i].status = "none"
    PROVE  InvoicedAsOrdered' /\ Linked' = Linked
  <1>1. Linked' = Linked
    BY DEF Linked
  <1>2. OneInvoice'
    BY <1>1 DEF InvoicedAsOrdered, OneInvoice
  <1>3. InvoiceMatchesOrder'
    <2>1. \A i \in Linked : Exists /\ invoice[i].qty = order.qty /\ i \in Invoices
      BY DEF InvoicedAsOrdered, InvoiceMatchesOrder, Linked
    <2> QED
      BY <1>1, <2>1 DEF InvoiceMatchesOrder, Exists
  <1> QED
    BY <1>1, <1>2, <1>3 DEF InvoicedAsOrdered

LEMMA BeginsAsOrdered ==
    ASSUME Inv, AsOrdered, \A c, d \in Clerks : c = d, NEW c \in Clerks,
           BeginEdit(c) \/ BeginDelete(c) \/ BeginConvert(c) \/ BeginMove(c)
             \/ BeginReturn(c)
    PROVE  AsOrdered'
  <1>1. ASSUME NEW step \in Steps, NEW next \in OrderStatuses,
               NEW link \in Invoices \union {NoInvoice}, NEW q \in Nat,
               Accept(c, step, next, link, q),
               step \in {"edit", "delete", "sell", "sellOnly"} => Linked = {},
               step \in {"sell", "sellOnly"} => q = order.qty
        PROVE  AsOrdered'
    <2> DEFINE d == [step |-> step, next |-> next, seen |-> order.status,
                     link |-> link, qty |-> q]
    <2>1. /\ desk' = [desk EXCEPT ![c] = d] /\ Exists
          /\ order' = order /\ invoice' = invoice
      BY <1>1 DEF Accept
    <2>2. d \in Request /\ d.step = step /\ d.qty = q
      BY <2>1 DEF Request, Exists
    <2> HIDE DEF d
    <2>3. InvoicedAsOrdered' /\ Linked' = Linked
      BY <2>1, SameGoods DEF AsOrdered, Exists
    <2>4. Unsold(d, order', Linked')
      BY <1>1, <2>1, <2>2, <2>3 DEF Unsold, Exists
    <2>5. c \in People /\ c \notin Couriers
      BY OnlineOrdersAssumption DEF People
    <2> QED
      BY <2>1, <2>2, <2>3, <2>4, <2>5, OneAtATime
  <1>2. order.qty \in Nat
    BY TypeParts DEF Inv, OrderRow
  <1>3. Exists => order.status \in OrderStatuses
    BY DEF Exists
  <1>4. CASE BeginEdit(c)
    <2>1. PICK q \in Quantities :
              Linked = {} /\ Accept(c, "edit", order.status, NoInvoice, q)
      BY <1>4 DEF BeginEdit
    <2>2. Exists /\ q \in Nat /\ "edit" \in Steps
      BY <2>1, Unlinked DEF Accept, Steps
    <2> QED
      BY <1>1, <1>3, <2>1, <2>2
  <1>5. CASE BeginDelete(c)
    <2>1. Linked = {} /\ Accept(c, "delete", order.status, NoInvoice, 0)
      BY <1>5 DEF BeginDelete
    <2>2. Exists /\ "delete" \in Steps
      BY <2>1 DEF Accept, Steps
    <2> QED
      BY <1>1, <1>3, <2>1, <2>2
  <1>6. CASE BeginConvert(c)
    <2>1. Linked = {} /\ Accept(c, "sellOnly", order.status, NoInvoice, order.qty)
      BY <1>6 DEF BeginConvert
    <2>2. Exists /\ "sellOnly" \in Steps
      BY <2>1 DEF Accept, Steps
    <2> QED
      BY <1>1, <1>2, <1>3, <2>1, <2>2
  <1>7. CASE BeginMove(c)
    <2>1. PICK next \in OrderStatuses, link \in LinkRead :
              Accept(c, SideEffect(next, link), next, link, order.qty)
      BY <1>7 DEF BeginMove
    <2> DEFINE step == SideEffect(next, link)
    <2>2. /\ step \in {"sell", "cancelSale", "returnAll", "flip"}
          /\ step = "sell" => link = NoInvoice
      BY DEF SideEffect
    <2>3. /\ link \in Invoices \union {NoInvoice}
          /\ link = NoInvoice => Linked = {}
      BY <2>1, OnlineOrdersAssumption DEF LinkRead, Linked
    <2>4. step \in Steps
      BY <2>2 DEF Steps
    <2>5. Accept(c, step, next, link, order.qty)
      BY <2>1
    <2> HIDE DEF step
    <2> QED
      BY <1>1, <1>2, <2>2, <2>3, <2>4, <2>5
  <1>8. CASE BeginReturn(c)
    <2>1. PICK link \in LinkRead, q \in Quantities :
              Accept(c, "returnSome", "RETURNED", link, q)
      BY <1>8 DEF BeginReturn
    <2>2. /\ link \in Invoices \union {NoInvoice} /\ q \in Nat
          /\ "RETURNED" \in OrderStatuses /\ "returnSome" \in Steps
      BY <2>1, Workflow, Unlinked DEF LinkRead, Linked, Steps
    <2> QED
      BY <1>1, <2>1, <2>2
  <1> QED
    BY <1>4, <1>5, <1>6, <1>7, <1>8

\* A request ends without touching an invoice.
LEMMA EndsAsOrdered ==
    ASSUME Inv, AsOrdered, \A c, d \in Clerks : c = d, NEW c \in People, Done(c),
           invoice' = invoice, order'.qty = order.qty,
           Exists => order'.status \in OrderStatuses
    PROVE  AsOrdered'
  <1>1. desk' = [desk EXCEPT ![c] = Idle]
    BY DEF Done
  <1>2. InvoicedAsOrdered' /\ Linked' = Linked
    BY SameGoods DEF AsOrdered
  <1>3. Unsold(Idle, order', Linked') /\ Idle.step = "idle"
    BY DEF Unsold, Idle
  <1> QED
    BY <1>1, <1>2, <1>3, IdleType, OneAtATime

LEMMA EditAsOrdered ==
    ASSUME Inv, AsOrdered, \A c, d \in Clerks : c = d, NEW c \in Clerks,
           Edit(c) \/ Delete(c)
    PROVE  AsOrdered'
  <1>1. /\ desk[c].step \in {"edit", "delete"} /\ invoice' = invoice
        /\ desk' = [desk EXCEPT ![c] = Idle]
    BY DEF Edit, Delete, At, Done
  <1>2. Linked = {}
    BY <1>1 DEF AsOrdered, Unsold
  <1>3. Linked' = {}
    BY <1>1, <1>2 DEF Linked
  <1>4. InvoicedAsOrdered'
    BY <1>3 DEF InvoicedAsOrdered, OneInvoice, InvoiceMatchesOrder
  <1>5. Unsold(Idle, order', Linked')
    BY DEF Unsold, Idle
  <1>6. c \in People /\ c \notin Couriers
    BY OnlineOrdersAssumption DEF People
  <1> QED
    BY <1>1, <1>4, <1>5, <1>6, IdleType, OneAtATime

\* The lines of the snapshot are still those of the order.
LEMMA SellAsOrdered ==
    ASSUME Inv, AsOrdered, \A c, d \in Clerks : c = d, NEW c \in Clerks, Sell(c)
    PROVE  AsOrdered'
  <1>1. PICK i \in Invoices :
            /\ desk[c].step \in {"sell", "sellOnly"}
            /\ invoice[i].status = "none"
            /\ invoice' = [invoice EXCEPT ![i] =
                    [status |-> "issued", qty |-> desk[c].qty, returned |-> 0]]
            /\ IF desk[c].step = "sell" THEN Proceed(c, "flip") ELSE Done(c)
            /\ order' = order
    BY DEF Sell, At
  <1>2. order.status \in OrderStatuses /\ Linked = {} /\ desk[c].qty = order.qty
    BY <1>1 DEF AsOrdered, Unsold
  <1>3. invoice'[i].qty = order.qty /\ invoice'[i].status = "issued"
        /\ \A j \in Invoices : j # i => invoice'[j] = invoice[j]
    <2>1. invoice \in [Invoices -> InvoiceRow]
      BY TypeParts DEF Inv, InvoicesOK
    <2> QED
      BY <1>1, <1>2, <2>1
  <1>4. Linked' = {i}
    BY <1>2, <1>3 DEF Linked
  <1>5. InvoicedAsOrdered'
    BY <1>1, <1>2, <1>3, <1>4 DEF InvoicedAsOrdered, OneInvoice, InvoiceMatchesOrder, Exists
  <1>6. c \in People /\ c \notin Couriers
    BY OnlineOrdersAssumption DEF People
  <1> DEFINE d == [desk[c] EXCEPT !.step = "flip"]
  <1>7. desk' = [desk EXCEPT ![c] = d] \/ desk' = [desk EXCEPT ![c] = Idle]
    BY <1>1 DEF Proceed, Done
  <1>8. d \in Request /\ d.step = "flip"
    BY <1>6, TypeParts DEF Inv, Request, Steps
  <1> HIDE DEF d
  <1>9. Unsold(d, order', Linked') /\ Unsold(Idle, order', Linked')
    BY <1>8 DEF Unsold, Idle
  <1> QED
    BY <1>5, <1>6, <1>7, <1>8, <1>9, IdleType, OneAtATime

LEMMA UndoAsOrdered ==
    ASSUME Inv, AsOrdered, \A c, d \in Clerks : c = d, NEW c \in Clerks,
           CancelSale(c) \/ ReturnAll(c) \/ ReturnSome(c)
    PROVE  AsOrdered'
  <1> DEFINE i == desk[c].link
             x == [invoice[i] EXCEPT !.status = "cancelled"]
             y == [invoice[i] EXCEPT !.returned = invoice[i].qty]
             z == [invoice[i] EXCEPT !.returned = invoice[i].returned + desk[c].qty]
  <1>1. PICK step \in {"flip", "settle"} :
            /\ Proceed(c, step) /\ order' = order /\ invoice[i].status = "issued"
            /\ \/ invoice' = [invoice EXCEPT ![i] = x]
               \/ invoice' = [invoice EXCEPT ![i] = y]
               \/ invoice' = [invoice EXCEPT ![i] = z]
    <2>1. CASE CancelSale(c)
      BY <2>1 DEF CancelSale
    <2>2. CASE ReturnAll(c)
      BY <2>2 DEF ReturnAll
    <2>3. CASE ReturnSome(c)
      BY <2>3 DEF ReturnSome
    <2> QED
      BY <2>1, <2>2, <2>3
  <1>2. i \in Invoices => invoice[i] \in InvoiceRow
    BY TypeParts DEF Inv, InvoicesOK
  <1>3. i \in Invoices =>
            /\ x.qty = invoice[i].qty /\ x.status # "none"
            /\ y.qty = invoice[i].qty /\ y.status # "none"
            /\ z.qty = invoice[i].qty /\ z.status # "none"
    BY <1>1, <1>2 DEF InvoiceRow
  <1> HIDE DEF x, y, z
  <1>4. invoice \in [Invoices -> InvoiceRow]
    BY TypeParts DEF Inv, InvoicesOK
  <1>5. ASSUME NEW j \in Invoices
        PROVE  /\ invoice'[j].qty = invoice[j].qty
               /\ invoice'[j].status = "none" <=> invoice[j].status = "none"
    <2>1. CASE j # i
      BY <1>1, <1>4, <2>1
    <2>2. CASE j = i
      BY <1>1, <1>3, <1>4, <2>2
    <2> QED
      BY <2>1, <2>2
  <1>6. InvoicedAsOrdered' /\ Linked' = Linked
    BY <1>1, <1>5, SameGoods DEF AsOrdered, Exists
  <1>7. c \in People /\ c \notin Couriers
    BY OnlineOrdersAssumption DEF People
  <1> DEFINE d == [desk[c] EXCEPT !.step = step]
  <1>8. desk' = [desk EXCEPT ![c] = d]
    BY <1>1 DEF Proceed
  <1>9. d \in Request /\ d.step = step
    BY <1>7, TypeParts DEF Inv, Request, Steps
  <1> HIDE DEF d
  <1>10. Unsold(d, order', Linked')
    BY <1>9 DEF Unsold
  <1> QED
    BY <1>6, <1>7, <1>8, <1>9, <1>10, OneAtATime

LEMMA ReportAsOrdered ==
    ASSUME Inv, AsOrdered, \A c, d \in Clerks : c = d, NEW f \in Couriers,
           NEW target \in {"DELIVERED", "RETURNED"}, CourierReports(f, target)
    PROVE  AsOrdered'
  <1> DEFINE d == [step |-> "flip", next |-> target, seen |-> order.status,
                   link |-> NoInvoice, qty |-> order.qty]
  <1>1. /\ desk' = [desk EXCEPT ![f] = d] /\ Exists
        /\ order' = order /\ invoice' = invoice
    BY DEF CourierReports, Accept
  <1>2. order.qty \in Nat
    BY TypeParts DEF Inv, OrderRow
  <1>3. d \in Request /\ d.step = "flip"
    BY <1>1, <1>2, Workflow DEF Request, Exists, Steps
  <1> HIDE DEF d
  <1>4. InvoicedAsOrdered' /\ Linked' = Linked
    BY <1>1, SameGoods DEF AsOrdered, Exists
  <1>5. f \in People /\ f \notin Clerks
    BY OnlineOrdersAssumption DEF People
  <1> QED
    BY <1>1, <1>3, <1>4, <1>5, OneAtATime DEF Exists

LEMMA StepAsOrdered ==
    ASSUME Inv, AsOrdered, \A c, d \in Clerks : c = d, [Next]_vars
    PROVE  AsOrdered'
  <1>1. ASSUME NEW c \in People, NEW status \in OrderStatuses, Moved(status)
        PROVE  order'.qty = order.qty /\ (Exists => order'.status \in OrderStatuses)
    <2>1. order \in OrderRow
      BY TypeParts DEF Inv
    <2> QED
      BY <1>1, <2>1 DEF Moved, OrderRow
  <1>2. CASE PlaceOrder
    <2>1. order.status = "none" /\ invoice' = invoice /\ desk' = desk
      BY <1>2 DEF PlaceOrder
    <2>2. Linked = {}
      BY <2>1, Workflow DEF AsOrdered, InvoicedAsOrdered, InvoiceMatchesOrder, Exists
    <2>3. Linked' = {}
      BY <2>1, <2>2 DEF Linked
    <2>4. \A c \in People : desk'[c] = Idle
      BY <2>1 DEF Inv
    <2> QED
      BY <2>3, <2>4 DEF AsOrdered, InvoicedAsOrdered, OneInvoice, InvoiceMatchesOrder,
         Unsold, Idle, People
  <1>3. ASSUME NEW c \in Clerks, Staff(c) PROVE AsOrdered'
    <2>1. CASE Settle(c)
      <3>1. /\ Done(c) /\ invoice' = invoice /\ c \in People
            /\ Moved("RETURNED") \/ order' = order
        BY <2>1 DEF Settle, People
      <3>2. order'.qty = order.qty /\ (Exists => order'.status \in OrderStatuses)
        BY <1>1, <3>1, Workflow DEF Exists
      <3> QED
        BY <3>1, <3>2, EndsAsOrdered
    <2> QED
      BY <1>3, <2>1, BeginsAsOrdered, EditAsOrdered, SellAsOrdered, UndoAsOrdered DEF Staff
  <1>4. ASSUME NEW f \in Couriers, NEW target \in {"DELIVERED", "RETURNED"},
               CourierReports(f, target)
        PROVE  AsOrdered'
    BY <1>4, ReportAsOrdered
  <1>5. ASSUME NEW c \in People, Flip(c) PROVE AsOrdered'
    <2>1. Done(c) /\ invoice' = invoice /\ Moved(desk[c].next)
      BY <1>5 DEF Flip
    <2>2. desk[c].next \in OrderStatuses
      BY TypeParts DEF Inv, Request
    <2> QED
      BY <1>1, <2>1, <2>2, EndsAsOrdered
  <1>6. ASSUME NEW c \in People, Fail(c) PROVE AsOrdered'
    BY <1>6, EndsAsOrdered DEF Fail, Exists
  <1>7. CASE UNCHANGED vars
    BY <1>7 DEF vars, AsOrdered, InvoicedAsOrdered, OneInvoice, InvoiceMatchesOrder,
       Linked, Exists
  <1> QED
    BY <1>2, <1>3, <1>4, <1>5, <1>6, <1>7 DEF Next, People

\* When one clerk at a time handles an order, whatever couriers report and
\* wherever a request fails, it is invoiced once and for what was ordered
\* (onlineOrderService).
THEOREM InvoicedOnceAndInFull ==
    ASSUME \A c, d \in Clerks : c = d
    PROVE  Spec => []InvoicedAsOrdered
  <1>1. Init => Inv /\ AsOrdered
    <2> SUFFICES ASSUME Init PROVE AsOrdered
      BY InitHolds
    <2>1. Linked = {} /\ \A c \in Clerks \union Couriers : desk[c] = Idle
      BY DEF Init, Linked
    <2> QED
      BY <2>1 DEF AsOrdered, InvoicedAsOrdered, OneInvoice, InvoiceMatchesOrder, Unsold,
         Idle
  <1>2. Inv /\ AsOrdered /\ [Next]_vars => (Inv /\ AsOrdered)'
    BY StepKeeps, StutterKeeps, StepAsOrdered
  <1>3. Inv /\ AsOrdered => InvoicedAsOrdered
    BY DEF AsOrdered
  <1> QED
    BY <1>1, <1>2, <1>3, PTL DEF Spec

-----------------------------------------------------------------------------
(* The shipments of an order: Fulfilment *)

\* What a call to the carrier, a shipment and a report in flight may count on:
\* a shipment being told of has no parcel yet, the parcel of a shipment is one
\* the carrier has taken, and a report that is still to be written has the
\* shipment it found and says of a parcel's end what the carrier does.
CallFits(k) ==
    /\ dispatch[k].step # "idle" => shipment[k].ref = NoParcel
    /\ dispatch[k].step = "calling" => dispatch[k].tries \in 1..Attempts
    /\ dispatch[k].step = "accepted" =>
          dispatch[k].answer \in Parcels /\ parcel[dispatch[k].answer] # "none"

ShipmentFits(k) ==
    /\ shipment[k].ref # NoParcel => parcel[shipment[k].ref] # "none"
    /\ shipment[k].status \in Delivered =>
          shipment[k].ref \in Parcels /\ parcel[shipment[k].ref] = shipment[k].status

Fits(u) ==
    /\ u.step \in {"ask", "apply"} =>
          /\ u.about \in Shipments /\ shipment[u.about].ref \in Parcels
          /\ u.key \in mail \union {NoEvent}
    /\ u.step = "apply" /\ u.status \in Delivered =>
          parcel[shipment[u.about].ref] = u.status
    /\ u.step = "report" =>
          u.status \in Delivered /\ \E p \in Parcels : parcel[p] = u.status

ReportFits(f) == Fits(feed[f])

\* What the carrier's messages say of a parcel's end is so.
MailFits ==
    \A e \in mail : e[1] \in Parcels /\ (e[2] \in Delivered => parcel[e[1]] = e[2])

ToldTruly(f) ==
    intent[f] # "none" =>
        intent[f] \in Delivered /\ \E p \in Parcels : parcel[p] = intent[f]

\* The inductive invariant of Fulfilment.
FInv ==
    /\ FulfilmentTypeOK
    /\ MailFits
    /\ \A k \in Shipments : CallFits(k) /\ ShipmentFits(k)
    /\ \A f \in Feeds : ReportFits(f) /\ ToldTruly(f)

\* What a step of the carrier does to its parcels: an end is an end.
Goes == \A p \in Parcels :
    /\ parcel[p] \in Delivered => parcel'[p] = parcel[p]
    /\ parcel[p] # "none" => parcel'[p] # "none"

-----------------------------------------------------------------------------

LEMMA FulfilmentTypes ==
    ASSUME FInv
    PROVE  /\ orderStatus \in Orders!OrderStatuses \union {"none", "deleted"}
           /\ intent \in [StaffRequests \union Feeds -> Orders!OrderStatuses \union {"none"}]
           /\ shipment \in [Shipments -> Row]
           /\ dispatch \in [Shipments -> Call]
           /\ parcel \in [Parcels -> {"none"} \union Moving \union Final]
           /\ mail \in SUBSET Event /\ deduped \in SUBSET mail
           /\ feed \in [Feeds -> Update]
           /\ errand \in [Dispatchers -> Errand]
           /\ restarts \in 0..MaxRestarts
BY DEF FInv, FulfilmentTypeOK, Orders!StatusTypeOK

LEMMA FulfilmentTyped ==
    ASSUME orderStatus' \in Orders!OrderStatuses \union {"none", "deleted"},
           intent' \in [StaffRequests \union Feeds -> Orders!OrderStatuses \union {"none"}],
           shipment' \in [Shipments -> Row],
           dispatch' \in [Shipments -> Call],
           parcel' \in [Parcels -> {"none"} \union Moving \union Final],
           mail' \in SUBSET Event, deduped' \in SUBSET mail',
           feed' \in [Feeds -> Update],
           errand' \in [Dispatchers -> Errand],
           restarts' \in 0..MaxRestarts
    PROVE  FulfilmentTypeOK'
BY DEF FulfilmentTypeOK, Orders!StatusTypeOK

LEMMA Statuses ==
    /\ {"NEW", "DELIVERED", "RETURNED"} \subseteq Orders!OrderStatuses
    /\ Orders!OrderStatuses \intersect {"none", "deleted"} = {}
BY DEF Orders!OrderStatuses, Orders!Transitions

LEMMA Constants ==
    /\ NoParcel \notin Parcels /\ NoShipment \notin Shipments
    /\ StaffRequests \intersect Feeds = {}
    /\ Attempts \in Nat \ {0} /\ MaxRestarts \in Nat
BY FulfilmentAssumption DEF FulfilmentAssumption, Feeds

LEMMA Blanks ==
    /\ NoRow \in Row /\ NoRow.ref = NoParcel /\ NoRow.status = "none"
    /\ NoCall \in Call /\ NoCall.step = "idle"
    /\ NoEvent \in Event
    /\ Resting \in Update /\ Resting.step = "idle" /\ Resting.key = NoEvent
    /\ AtEase \in Errand
<1>1. NoEvent \in Event
  BY DEF NoEvent, Event, Moving
<1>2. NoRow \in Row /\ NoRow.ref = NoParcel /\ NoRow.status = "none"
  BY DEF NoRow, Row
<1>3. NoCall \in Call /\ NoCall.step = "idle"
  BY Constants DEF NoCall, Call
<1>4. Resting \in Update /\ Resting.step = "idle" /\ Resting.key = NoEvent
  BY <1>1 DEF Resting, Update, Moving
<1>5. AtEase \in Errand
  BY DEF AtEase, Errand
<1> QED
  BY <1>1, <1>2, <1>3, <1>4, <1>5

-----------------------------------------------------------------------------
(* What a step leaves alone stays true as the parcels go on. *)

LEMMA CallKept ==
    ASSUME NEW k \in Shipments, CallFits(k), Goes,
           dispatch'[k] = dispatch[k], shipment'[k].ref = shipment[k].ref
    PROVE  CallFits(k)'
BY DEF CallFits, Goes

LEMMA ShipmentKept ==
    ASSUME FInv, NEW k \in Shipments, Goes, shipment'[k].ref = shipment[k].ref,
           shipment'[k].status \in {shipment[k].status} \union Open \union {"CANCELLED", "FAILED"}
    PROVE  ShipmentFits(k)'
<1>1. ShipmentFits(k) /\ shipment[k] \in Row
  BY FulfilmentTypes DEF FInv
<1>2. shipment[k].ref \in Parcels \union {NoParcel}
  BY <1>1 DEF Row
<1>3. shipment'[k].status = shipment[k].status \/ shipment'[k].status \notin Delivered
  BY DEF Open, Delivered
<1> QED
  BY <1>1, <1>2, <1>3 DEF ShipmentFits, Goes

LEMMA ReportKept ==
    ASSUME FInv, NEW f \in Feeds, Goes, mail \subseteq mail', feed'[f] = feed[f],
           \A k \in Shipments : shipment[k].ref \in Parcels => shipment'[k].ref = shipment[k].ref
    PROVE  ReportFits(f)'
<1>1. ReportFits(f)
  BY DEF FInv
<1> QED
  BY <1>1 DEF ReportFits, Fits, Goes

LEMMA FitsStill ==
    ASSUME FInv, NEW u, Fits(u), parcel' = parcel, mail' = mail,
           \A k \in Shipments : shipment'[k].ref = shipment[k].ref
    PROVE  Fits(u)'
BY DEF Fits

LEMMA ToldKept ==
    ASSUME FInv, NEW f \in Feeds, Goes, intent'[f] = intent[f]
    PROVE  ToldTruly(f)'
<1>1. ToldTruly(f) /\ intent \in [StaffRequests \union Feeds -> Orders!OrderStatuses \union {"none"}]
  BY FulfilmentTypes DEF FInv
<1>2. ASSUME intent'[f] # "none"
      PROVE  intent'[f] \in Delivered /\ \E p \in Parcels : parcel'[p] = intent'[f]
  <2>1. intent[f] \in Delivered /\ \E p \in Parcels : parcel[p] = intent[f]
    BY <1>1, <1>2 DEF ToldTruly
  <2>2. PICK p \in Parcels : parcel[p] = intent[f]
    BY <2>1
  <2> QED
    BY <2>1, <2>2 DEF Goes
<1> QED
  BY <1>2 DEF ToldTruly

LEMMA Still ==
    ASSUME FInv, parcel' = parcel
    PROVE  Goes
BY DEF Goes

-----------------------------------------------------------------------------
(* The order and its staff *)

LEMMA OrderStepKeeps == ASSUME FInv, OrderStep PROVE FInv'
<1>1. UNCHANGED deliveryVars
  BY DEF OrderStep
<1>2. /\ shipment' = shipment /\ dispatch' = dispatch /\ parcel' = parcel /\ mail' = mail
      /\ deduped' = deduped /\ feed' = feed /\ errand' = errand /\ restarts' = restarts
  BY <1>1 DEF deliveryVars, rows, carrier, reports
<1>3. /\ orderStatus' \in Orders!OrderStatuses \union {"none", "deleted"}
      /\ intent' \in [StaffRequests \union Feeds -> Orders!OrderStatuses \union {"none"}]
      /\ \A f \in Feeds : intent'[f] = intent[f]
  <2>1. CASE Orders!Place \/ Orders!Remove
    BY <2>1, FulfilmentTypes, Statuses DEF Orders!Place, Orders!Remove
  <2>2. ASSUME NEW c \in StaffRequests, Orders!PlanMove(c)
        PROVE  orderStatus' = orderStatus
               /\ \E s \in Orders!OrderStatuses : intent' = [intent EXCEPT ![c] = s]
    BY <2>2 DEF Orders!PlanMove, Orders!Plan
  <2>3. ASSUME NEW c \in StaffRequests, Orders!Write(c) \/ Orders!GiveUp(c)
        PROVE  /\ orderStatus' \in Orders!OrderStatuses \union {"none", "deleted"}
               /\ intent' = [intent EXCEPT ![c] = "none"]
    <3>1. intent[c] \in Orders!OrderStatuses \union {"none"}
      BY FulfilmentTypes
    <3> QED
      BY <2>3, <3>1, FulfilmentTypes DEF Orders!Write, Orders!GiveUp, Orders!Settled
  <2> QED
    BY <2>1, <2>2, <2>3, FulfilmentTypes, Constants DEF OrderStep
<1>4. FulfilmentTypeOK'
  BY <1>2, <1>3, FulfilmentTypes, FulfilmentTyped
<1>5. Goes
  BY <1>2, Still
<1>6. \A f \in Feeds : ReportFits(f)' /\ ToldTruly(f)'
  BY <1>2, <1>3, <1>5, ReportKept, ToldKept
<1>7. MailFits' /\ \A k \in Shipments : CallFits(k)' /\ ShipmentFits(k)'
  BY <1>2 DEF FInv, MailFits, CallFits, ShipmentFits
<1> QED
  BY <1>4, <1>6, <1>7 DEF FInv

\* What a staff request has still to do concerns nobody else.
LEMMA ErrandKeeps ==
    ASSUME FInv, UNCHANGED <<orderVars, rows, carrier, reports, restarts>>,
           errand' \in [Dispatchers -> Errand]
    PROVE  FInv'
<1>1. /\ shipment' = shipment /\ dispatch' = dispatch /\ parcel' = parcel /\ mail' = mail
      /\ deduped' = deduped /\ feed' = feed /\ restarts' = restarts
      /\ orderStatus' = orderStatus /\ intent' = intent
  BY DEF orderVars, rows, carrier, reports
<1>2. FulfilmentTypeOK'
  BY <1>1, FulfilmentTypes, FulfilmentTyped
<1> QED
  BY <1>1, <1>2 DEF FInv, MailFits, CallFits, ShipmentFits, ReportFits, Fits, ToldTruly

LEMMA ErrandSteps ==
    ASSUME NEW a \in Errand, NEW s \in {"idle", "insert", "recall", "close", "resend", "replace"},
           NEW c \in SUBSET Shipments
    PROVE  /\ [a EXCEPT !.step = s] \in Errand
           /\ [step |-> s, claim |-> c] \in Errand
BY DEF Errand

LEMMA PlansKeep ==
    ASSUME FInv, NEW d \in Dispatchers,
           \/ BeginShip(d) \/ RefuseShipment(d) \/ ShipAgain(d)
           \/ BeginRecall(d) \/ BeginResend(d)
    PROVE  FInv'
<1>1. errand \in [Dispatchers -> Errand] /\ errand[d] \in Errand
  BY FulfilmentTypes
<1>2. UNCHANGED <<orderVars, rows, carrier, reports, restarts>>
  BY DEF BeginShip, RefuseShipment, ShipAgain, BeginRecall, BeginResend, Claim
<1>3. \/ errand' = [errand EXCEPT ![d].step = "insert"]
      \/ errand' = [errand EXCEPT ![d] = AtEase]
      \/ \E step \in {"recall", "resend"}, ks \in SUBSET Shipments :
            errand' = [errand EXCEPT ![d] = [step |-> step, claim |-> ks]]
  <2>1. Active \subseteq Shipments
    BY DEF Active
  <2> QED
    BY <2>1 DEF BeginShip, RefuseShipment, ShipAgain, BeginRecall, BeginResend, Claim
<1>4. errand' \in [Dispatchers -> Errand]
  BY <1>1, <1>3, ErrandSteps, Blanks
<1> QED
  BY <1>2, <1>4, ErrandKeeps

LEMMA InsertKeeps == ASSUME FInv, NEW d \in Dispatchers, InsertShipment(d) PROVE FInv'
<1> DEFINE call == [step |-> "calling", tries |-> Attempts, answer |-> NoParcel]
           row == [NoRow EXCEPT !.status = "PENDING"]
<1>1. PICK k \in Shipments :
          /\ shipment[k] = NoRow
          /\ shipment' = [shipment EXCEPT ![k].status = "PENDING"]
          /\ dispatch' = [dispatch EXCEPT ![k] = call]
          /\ errand' = [errand EXCEPT ![d] = AtEase]
          /\ UNCHANGED <<orderVars, carrier, reports, restarts>>
  BY DEF InsertShipment, Write
<1>2. /\ parcel' = parcel /\ mail' = mail /\ deduped' = deduped /\ feed' = feed
      /\ restarts' = restarts /\ orderStatus' = orderStatus /\ intent' = intent
  BY <1>1 DEF orderVars, carrier, reports
<1>3. /\ row \in Row /\ row.status = "PENDING" /\ row.ref = NoParcel
      /\ shipment' = [shipment EXCEPT ![k] = row]
  BY <1>1, FulfilmentTypes DEF NoRow, Row, Open
<1>4. call \in Call /\ call.step = "calling" /\ call.tries \in 1..Attempts
  BY Constants DEF Call
<1> HIDE DEF call, row
<1>5. /\ shipment' \in [Shipments -> Row] /\ shipment'[k] = row
      /\ dispatch' \in [Shipments -> Call] /\ dispatch'[k] = call
      /\ \A l \in Shipments \ {k} : shipment'[l] = shipment[l] /\ dispatch'[l] = dispatch[l]
      /\ errand' \in [Dispatchers -> Errand]
  BY <1>1, <1>3, <1>4, FulfilmentTypes, Blanks
<1>6. FulfilmentTypeOK'
  BY <1>2, <1>5, FulfilmentTypes, FulfilmentTyped
<1>7. Goes
  BY <1>2, Still
<1>8. \A l \in Shipments : shipment'[l].ref = shipment[l].ref
  BY <1>1, <1>3, <1>5, Blanks
<1>9. \A f \in Feeds : ReportFits(f)' /\ ToldTruly(f)'
  BY <1>2, <1>7, <1>8, ReportKept, ToldKept
<1>10. \A l \in Shipments \ {k} : CallFits(l)' /\ ShipmentFits(l)'
  BY <1>5, <1>7, CallKept, ShipmentKept DEF FInv
<1>11. CallFits(k)' /\ ShipmentFits(k)'
  BY <1>3, <1>4, <1>5 DEF CallFits, ShipmentFits, Delivered
<1>12. MailFits'
  BY <1>2 DEF FInv, MailFits
<1> QED
  BY <1>6, <1>9, <1>10, <1>11, <1>12 DEF FInv

-----------------------------------------------------------------------------
(* The call to the carrier *)

LEMMA PostKeeps == ASSUME FInv, NEW k \in Shipments, Post(k) PROVE FInv'
<1> DEFINE c == dispatch[k]
<1>1. /\ c.step = "calling" /\ (Arrives(k) \/ Fruitless(k))
      /\ orderStatus' = orderStatus /\ intent' = intent /\ shipment' = shipment
      /\ mail' = mail /\ deduped' = deduped /\ feed' = feed /\ errand' = errand
      /\ restarts' = restarts
  BY DEF Post, orderVars, reports
<1>2. CallFits(k) /\ c \in Call /\ c.tries \in 1..Attempts
  BY <1>1, FulfilmentTypes DEF FInv, CallFits
<1>3. /\ parcel' \in [Parcels -> {"none"} \union Moving \union Final]
      /\ Goes
      /\ \E new \in Call :
            /\ dispatch' = [dispatch EXCEPT ![k] = new]
            /\ new.step = "calling" => new.tries \in 1..Attempts
            /\ new.step = "accepted" => new.answer \in Parcels /\ parcel'[new.answer] # "none"
  <2> DEFINE failed == [step |-> "failed", tries |-> 0, answer |-> NoParcel]
             again == [c EXCEPT !.tries = @ - 1]
             taken(p) == [step |-> "accepted", tries |-> 0, answer |-> p]
  <2>1. failed \in Call /\ failed.step = "failed"
    BY Constants DEF Call
  <2>2. c.tries # 1 => again \in Call /\ again.step = "calling" /\ again.tries \in 1..Attempts
    <3> DEFINE t == c.tries - 1
    <3>1. c.tries # 1 => t \in 1..Attempts /\ t \in 0..Attempts
      BY <1>2, Constants
    <3> HIDE DEF t
    <3>2. again = [c EXCEPT !.tries = t]
      BY DEF t
    <3> QED
      BY <1>1, <1>2, <3>1, <3>2 DEF Call
  <2>3. ASSUME NEW p \in Parcels
        PROVE  taken(p) \in Call /\ taken(p).step = "accepted" /\ taken(p).answer = p
    BY Constants DEF Call
  <2>4. Refused(k) = [dispatch EXCEPT ![k] = failed]
    BY DEF Refused, Answered
  <2>5. TryAgain(k) = [dispatch EXCEPT ![k] = IF c.tries = 1 THEN failed ELSE again]
    <3>1. c.tries = 1 => TryAgain(k) = [dispatch EXCEPT ![k] = failed]
      BY <2>4 DEF TryAgain
    <3>2. c.tries # 1 => TryAgain(k) = [dispatch EXCEPT ![k] = again]
      BY FulfilmentTypes DEF TryAgain
    <3> QED
      BY <3>1, <3>2
  <2>6. ASSUME NEW p \in Parcels PROVE Taken(k, p) = [dispatch EXCEPT ![k] = taken(p)]
    BY DEF Taken, Answered
  <2> HIDE DEF failed, again, taken
  <2>7. CASE Fruitless(k)
    <3>1. parcel' = parcel /\ dispatch' \in {Refused(k), TryAgain(k)}
      BY <2>7 DEF Fruitless
    <3>2. Goes
      BY <3>1, Still
    <3> QED
      BY <2>1, <2>2, <2>4, <2>5, <3>1, <3>2, FulfilmentTypes
  <2>8. CASE Arrives(k)
    <3>1. PICK p \in Parcels : /\ parcel[p] = "none"
                               /\ parcel' = [parcel EXCEPT ![p] = "SUBMITTED"]
                               /\ dispatch' \in {Taken(k, p), TryAgain(k)}
      BY <2>8 DEF Arrives
    <3>2. /\ parcel' \in [Parcels -> {"none"} \union Moving \union Final]
          /\ parcel'[p] = "SUBMITTED" /\ \A q \in Parcels \ {p} : parcel'[q] = parcel[q]
      BY <3>1, FulfilmentTypes DEF Moving
    <3>3. Goes
      BY <3>1, <3>2 DEF Goes, Delivered
    <3> QED
      BY <2>1, <2>2, <2>3, <2>5, <2>6, <3>1, <3>2, <3>3
  <2> QED
    BY <1>1, <2>7, <2>8
<1>4. PICK new \in Call :
            /\ dispatch' = [dispatch EXCEPT ![k] = new]
            /\ new.step = "calling" => new.tries \in 1..Attempts
            /\ new.step = "accepted" => new.answer \in Parcels /\ parcel'[new.answer] # "none"
  BY <1>3
<1>5. /\ dispatch' \in [Shipments -> Call] /\ dispatch'[k] = new
      /\ \A l \in Shipments \ {k} : dispatch'[l] = dispatch[l]
  BY <1>4, FulfilmentTypes
<1>6. FulfilmentTypeOK'
  BY <1>1, <1>3, <1>5, FulfilmentTypes, FulfilmentTyped
<1>7. \A f \in Feeds : ReportFits(f)' /\ ToldTruly(f)'
  BY <1>1, <1>3, ReportKept, ToldKept
<1>8. \A l \in Shipments : ShipmentFits(l)'
  BY <1>1, <1>3, ShipmentKept
<1>9. CallFits(k)'
  BY <1>1, <1>2, <1>4, <1>5 DEF CallFits
<1>10. \A l \in Shipments \ {k} : CallFits(l)'
  BY <1>1, <1>3, <1>5, CallKept DEF FInv
<1>11. MailFits'
  BY <1>1, <1>3 DEF FInv, MailFits, Goes
<1> QED
  BY <1>6, <1>7, <1>8, <1>9, <1>10, <1>11 DEF FInv

LEMMA RecordKeeps == ASSUME FInv, NEW k \in Shipments, RecordAnswer(k) PROVE FInv'
<1> DEFINE c == dispatch[k]
           row == IF c.step = "accepted" THEN [status |-> "SUBMITTED", ref |-> c.answer]
                  ELSE [shipment[k] EXCEPT !.status = "FAILED"]
<1>1. /\ c.step \in {"accepted", "failed"}
      /\ shipment' = [shipment EXCEPT ![k] = row]
      /\ dispatch' = [dispatch EXCEPT ![k] = NoCall]
      /\ UNCHANGED <<orderVars, carrier, reports, errand, restarts>>
  BY DEF RecordAnswer
<1>2. /\ parcel' = parcel /\ mail' = mail /\ deduped' = deduped /\ feed' = feed
      /\ restarts' = restarts /\ orderStatus' = orderStatus /\ intent' = intent
      /\ errand' = errand
  BY <1>1 DEF orderVars, carrier, reports
<1>3. /\ CallFits(k) /\ c \in Call /\ shipment[k] \in Row /\ shipment[k].ref = NoParcel
  BY <1>1, FulfilmentTypes DEF FInv, CallFits
<1>4. /\ row \in Row /\ row.status \notin Delivered
      /\ c.step = "accepted" => row.ref = c.answer
      /\ c.step # "accepted" => row.ref = NoParcel
  <2>1. CASE c.step = "accepted"
    BY <1>3, <2>1 DEF CallFits, Row, Open, Delivered
  <2>2. CASE c.step # "accepted"
    BY <1>3, <2>2 DEF Row, Closed, Delivered
  <2> QED
    BY <2>1, <2>2
<1>5. c.step = "accepted" => c.answer \in Parcels /\ parcel[c.answer] # "none"
  BY <1>3 DEF CallFits
<1> HIDE DEF row, c
<1>6. /\ shipment' \in [Shipments -> Row] /\ shipment'[k] = row
      /\ dispatch' \in [Shipments -> Call] /\ dispatch'[k] = NoCall
      /\ \A l \in Shipments \ {k} : shipment'[l] = shipment[l] /\ dispatch'[l] = dispatch[l]
  BY <1>1, <1>4, FulfilmentTypes, Blanks
<1>7. FulfilmentTypeOK'
  BY <1>2, <1>6, FulfilmentTypes, FulfilmentTyped
<1>8. Goes
  BY <1>2, Still
<1>9. \A l \in Shipments : shipment[l].ref \in Parcels => shipment'[l].ref = shipment[l].ref
  BY <1>3, <1>6, Constants
<1>10. \A f \in Feeds : ReportFits(f)' /\ ToldTruly(f)'
  BY <1>2, <1>8, <1>9, ReportKept, ToldKept
<1>11. \A l \in Shipments \ {k} : CallFits(l)' /\ ShipmentFits(l)'
  BY <1>6, <1>8, CallKept, ShipmentKept DEF FInv
<1>12. CallFits(k)' /\ ShipmentFits(k)'
  <2>1. CallFits(k)'
    BY <1>6, Blanks DEF CallFits
  <2>2. row.ref # NoParcel => parcel[row.ref] # "none"
    BY <1>4, <1>5
  <2> QED
    BY <1>2, <1>4, <1>6, <2>1, <2>2 DEF ShipmentFits
<1>13. MailFits'
  BY <1>2 DEF FInv, MailFits
<1> QED
  BY <1>7, <1>10, <1>11, <1>12, <1>13 DEF FInv

-----------------------------------------------------------------------------
(* Cancelling *)

LEMMA AskKeeps == ASSUME FInv, NEW d \in Dispatchers, AskCarrier(d) PROVE FInv'
<1> DEFINE k == First(d)
           p == shipment[k].ref
           e == errand[d]
<1>1. PICK granted, answered \in BOOLEAN :
        /\ e.claim # {}
        /\ granted => p # NoParcel /\ parcel[p] \in Moving
        /\ parcel' = IF granted THEN [parcel EXCEPT ![p] = "CANCELLED"] ELSE parcel
        /\ mail' = IF granted THEN mail \union {<<p, "CANCELLED">>} ELSE mail
        /\ errand' = [errand EXCEPT ![d] =
                IF @.step = "resend" THEN [@ EXCEPT !.step = "replace"]
                ELSE IF granted /\ answered THEN [@ EXCEPT !.step = "close"]
                ELSE AtEase]
        /\ UNCHANGED <<orderVars, rows, reports, restarts>>
  BY DEF AskCarrier
<1>2. /\ shipment' = shipment /\ dispatch' = dispatch /\ deduped' = deduped /\ feed' = feed
      /\ restarts' = restarts /\ orderStatus' = orderStatus /\ intent' = intent
  BY <1>1 DEF orderVars, rows, reports
<1>3. e \in Errand /\ k \in Shipments
  <2>1. e \in Errand
    BY FulfilmentTypes
  <2> QED
    BY <1>1, <2>1 DEF First, Errand
<1>4. p \in Parcels \union {NoParcel}
  <2>1. shipment[k] \in Row
    BY <1>3, FulfilmentTypes
  <2> QED
    BY <2>1 DEF Row
<1> HIDE DEF k, p, e
<1>5. errand' \in [Dispatchers -> Errand]
  <2>1. errand' \in {[errand EXCEPT ![d] = [e EXCEPT !.step = "replace"]],
                     [errand EXCEPT ![d] = [e EXCEPT !.step = "close"]],
                     [errand EXCEPT ![d] = AtEase]}
    BY <1>1 DEF e
  <2>2. [e EXCEPT !.step = "replace"] \in Errand /\ [e EXCEPT !.step = "close"] \in Errand
    BY <1>3, ErrandSteps
  <2> QED
    BY <2>1, <2>2, FulfilmentTypes, Blanks
<1>6. /\ parcel' \in [Parcels -> {"none"} \union Moving \union Final]
      /\ mail' \in SUBSET Event /\ mail \subseteq mail'
      /\ \A m \in mail' : m \in mail \/ (m[1] \in Parcels /\ m[2] = "CANCELLED")
  <2>1. CASE granted
    <3>1. parcel' = [parcel EXCEPT ![p] = "CANCELLED"] /\ mail' = mail \union {<<p, "CANCELLED">>}
      BY <1>1, <2>1
    <3>2. <<p, "CANCELLED">> \in Event /\ p \in Parcels
      BY <1>1, <1>4, <2>1 DEF Event, Final
    <3>3. parcel' \in [Parcels -> {"none"} \union Moving \union Final]
      BY <3>1, FulfilmentTypes DEF Final
    <3> QED
      BY <3>1, <3>2, <3>3, FulfilmentTypes
  <2>2. CASE ~granted
    BY <1>1, <2>2, FulfilmentTypes
  <2> QED
    BY <2>1, <2>2
<1>7. Goes
  <2>1. CASE granted
    <3>1. /\ p \in Parcels /\ parcel[p] \in Moving
          /\ parcel' = [parcel EXCEPT ![p] = "CANCELLED"]
      BY <1>1, <1>4, <2>1
    <3>2. parcel'[p] = "CANCELLED" /\ \A q \in Parcels \ {p} : parcel'[q] = parcel[q]
      BY <3>1, FulfilmentTypes
    <3> QED
      BY <3>1, <3>2 DEF Goes, Moving, Delivered
  <2>2. CASE ~granted
    BY <1>1, <2>2, Still
  <2> QED
    BY <2>1, <2>2
<1>8. FulfilmentTypeOK'
  <2>1. deduped' \in SUBSET mail'
    BY <1>2, <1>6, FulfilmentTypes
  <2> QED
    BY <1>2, <1>5, <1>6, <2>1, FulfilmentTypes, FulfilmentTyped
<1>9. \A f \in Feeds : ReportFits(f)' /\ ToldTruly(f)'
  BY <1>2, <1>6, <1>7, ReportKept, ToldKept
<1>10. \A l \in Shipments : CallFits(l)' /\ ShipmentFits(l)'
  BY <1>2, <1>7, CallKept, ShipmentKept DEF FInv
<1>11. MailFits'
  BY <1>6, <1>7 DEF FInv, MailFits, Goes, Delivered
<1> QED
  BY <1>8, <1>9, <1>10, <1>11 DEF FInv

LEMMA CancelKeeps == ASSUME FInv, NEW d \in Dispatchers, WriteCancelled(d) PROVE FInv'
<1> DEFINE k == First(d)
           e == errand[d]
<1>1. /\ e.step \in {"close", "replace"}
      /\ shipment' = [shipment EXCEPT ![k].status = "CANCELLED"]
      /\ errand' = [errand EXCEPT ![d] =
                IF @.step = "close" THEN AtEase
                ELSE [step |-> "resend", claim |-> @.claim \ {k}]]
      /\ UNCHANGED <<orderVars, dispatch, carrier, reports, restarts>>
  BY DEF WriteCancelled, Write
<1>2. /\ dispatch' = dispatch /\ parcel' = parcel /\ mail' = mail
      /\ deduped' = deduped /\ feed' = feed
      /\ restarts' = restarts /\ orderStatus' = orderStatus /\ intent' = intent
  BY <1>1 DEF orderVars, carrier, reports
<1>3. e \in Errand
  BY FulfilmentTypes
<1> HIDE DEF k
<1>4. errand' \in [Dispatchers -> Errand]
  <2>1. e.claim \ {k} \in SUBSET Shipments
    BY <1>3 DEF Errand
  <2>2. [step |-> "resend", claim |-> e.claim \ {k}] \in Errand
    BY <2>1, <1>3, ErrandSteps
  <2> QED
    BY <1>1, <2>2, FulfilmentTypes, Blanks
<1>5. /\ shipment' \in [Shipments -> Row]
      /\ \A l \in Shipments : /\ shipment'[l].ref = shipment[l].ref
                              /\ shipment'[l].status \in {shipment[l].status, "CANCELLED"}
  <2>1. \A l \in Shipments : [shipment[l] EXCEPT !.status = "CANCELLED"] \in Row
    BY FulfilmentTypes DEF Row, Closed, Final
  <2> QED
    BY <1>1, <2>1, FulfilmentTypes DEF Row
<1>6. FulfilmentTypeOK'
  BY <1>2, <1>4, <1>5, FulfilmentTypes, FulfilmentTyped
<1>7. Goes
  BY <1>2, Still
<1>8. \A f \in Feeds : ReportFits(f)' /\ ToldTruly(f)'
  BY <1>2, <1>5, <1>7, ReportKept, ToldKept
<1>9. \A l \in Shipments : CallFits(l)' /\ ShipmentFits(l)'
  BY <1>2, <1>5, <1>7, CallKept, ShipmentKept DEF FInv
<1>10. MailFits'
  BY <1>2 DEF FInv, MailFits
<1> QED
  BY <1>6, <1>8, <1>9, <1>10 DEF FInv

LEMMA TravelKeeps == ASSUME FInv, NEW p \in Parcels, Travel(p) PROVE FInv'
<1>1. PICK next \in Moving \union Final :
        /\ parcel[p] \in Moving
        /\ parcel' = [parcel EXCEPT ![p] = next]
        /\ mail' = mail \union {<<p, next>>}
        /\ UNCHANGED <<orderVars, rows, reports, errand, restarts>>
  BY DEF Travel, Moving
<1>2. /\ shipment' = shipment /\ dispatch' = dispatch /\ deduped' = deduped /\ feed' = feed
      /\ restarts' = restarts /\ orderStatus' = orderStatus /\ intent' = intent
      /\ errand' = errand
  BY <1>1 DEF orderVars, rows, reports
<1>3. /\ parcel' \in [Parcels -> {"none"} \union Moving \union Final]
      /\ parcel'[p] = next /\ \A q \in Parcels \ {p} : parcel'[q] = parcel[q]
  BY <1>1, FulfilmentTypes
<1>4. Goes
  BY <1>1, <1>3 DEF Goes, Moving, Final, Delivered
<1>5. mail' \in SUBSET Event /\ deduped' \in SUBSET mail' /\ mail \subseteq mail'
  <2>1. <<p, next>> \in Event
    BY DEF Event
  <2> QED
    BY <1>1, <1>2, <2>1, FulfilmentTypes
<1>6. FulfilmentTypeOK'
  BY <1>2, <1>3, <1>5, FulfilmentTypes, FulfilmentTyped
<1>7. \A f \in Feeds : ReportFits(f)' /\ ToldTruly(f)'
  BY <1>2, <1>4, <1>5, ReportKept, ToldKept
<1>8. \A l \in Shipments : CallFits(l)' /\ ShipmentFits(l)'
  BY <1>2, <1>4, CallKept, ShipmentKept DEF FInv
<1>9. MailFits'
  <2>1. ASSUME NEW m \in mail', m[2] \in Delivered PROVE parcel'[m[1]] = m[2]
    <3>1. CASE m \in mail
      BY <2>1, <3>1, <1>4 DEF FInv, MailFits, Goes
    <3>2. CASE m = <<p, next>>
      BY <3>2, <1>3
    <3> QED
      BY <1>1, <3>1, <3>2
  <2>2. \A m \in mail' : m[1] \in Parcels
    BY <1>1 DEF FInv, MailFits
  <2> QED
    BY <2>1, <2>2 DEF MailFits
<1> QED
  BY <1>6, <1>7, <1>8, <1>9 DEF FInv

-----------------------------------------------------------------------------
(* What a webhook or a poll has still to do *)

LEMMA FeedKeeps ==
    ASSUME FInv, NEW f \in Feeds, NEW u \in Update, Fits(u),
           feed' = [feed EXCEPT ![f] = u],
           UNCHANGED <<rows, carrier, deduped, errand, restarts>>,
           orderStatus' = orderStatus,
           intent' \in [StaffRequests \union Feeds -> Orders!OrderStatuses \union {"none"}],
           \A g \in Feeds : intent'[g] = intent[g] \/ intent'[g] = "none" \/
              (intent'[g] \in Delivered /\ \E p \in Parcels : parcel[p] = intent'[g])
    PROVE  FInv'
<1>1. /\ shipment' = shipment /\ dispatch' = dispatch /\ parcel' = parcel /\ mail' = mail
      /\ deduped' = deduped /\ errand' = errand /\ restarts' = restarts
  BY DEF rows, carrier
<1>2. /\ feed' \in [Feeds -> Update] /\ feed'[f] = u
      /\ \A g \in Feeds \ {f} : feed'[g] = feed[g]
  BY FulfilmentTypes
<1>3. FulfilmentTypeOK'
  BY <1>1, <1>2, FulfilmentTypes, FulfilmentTyped
<1>4. Goes
  BY <1>1, Still
<1>5. \A g \in Feeds : ToldTruly(g)'
  BY <1>1 DEF FInv, ToldTruly
<1>6. \A g \in Feeds \ {f} : ReportFits(g)'
  BY <1>1, <1>2, <1>4, ReportKept
<1>7. ReportFits(f)'
  BY <1>1, <1>2 DEF ReportFits, Fits
<1>8. MailFits' /\ \A l \in Shipments : CallFits(l)' /\ ShipmentFits(l)'
  BY <1>1 DEF FInv, MailFits, CallFits, ShipmentFits
<1> QED
  BY <1>3, <1>5, <1>6, <1>7, <1>8 DEF FInv

LEMMA RestingFits == Fits(Resting)
BY Blanks DEF Fits

LEMMA StartKeeps ==
    ASSUME FInv, NEW f \in Feeds, NEW u \in Update, Fits(u), Start(f, u)
    PROVE  FInv'
<1>1. /\ feed' = [feed EXCEPT ![f] = u]
      /\ UNCHANGED <<orderVars, rows, carrier, deduped, errand, restarts>>
  BY DEF Start
<1>2. orderStatus' = orderStatus /\ intent' = intent
      /\ UNCHANGED <<rows, carrier, deduped, errand, restarts>>
  BY <1>1 DEF orderVars
<1> QED
  BY <1>1, <1>2, FulfilmentTypes, FeedKeeps

LEMMA HookKeeps == ASSUME FInv, NEW f \in Hooks, BeginWebhook(f) PROVE FInv'
<1>1. PICK k \in Shipments, e \in mail \ deduped :
        /\ shipment[k].ref = e[1]
        /\ Start(f, [step |-> "apply", about |-> k, status |-> e[2], key |-> e])
  BY DEF BeginWebhook
<1> DEFINE u == [step |-> "apply", about |-> k, status |-> e[2], key |-> e]
<1>2. e \in Event /\ e[1] \in Parcels \union {NoParcel} /\ e[2] \in Moving \union Final
  BY FulfilmentTypes DEF Event
<1>3. u \in Update
  BY <1>2 DEF Update
<1>4. /\ u.step = "apply" /\ u.about = k /\ u.status = e[2] /\ u.key = e
  OBVIOUS
<1>5. shipment[k].ref \in Parcels
  BY <1>1 DEF FInv, MailFits
<1>6. e[2] \in Delivered => parcel[e[1]] = e[2]
  BY DEF FInv, MailFits
<1> HIDE DEF u
<1>7. Fits(u)
  BY <1>1, <1>4, <1>5, <1>6 DEF Fits
<1> QED
  BY <1>1, <1>3, <1>7, StartKeeps DEF u, Feeds

LEMMA PollKeeps ==
    ASSUME FInv, NEW f \in Feeds, NEW k \in Shipments, Poll(f, k)
    PROVE  FInv'
<1> DEFINE u == [Resting EXCEPT !.step = "ask", !.about = k]
<1>1. shipment[k].ref # NoParcel /\ Start(f, u)
  BY DEF Poll
<1>2. shipment[k].ref \in Parcels
  <2>1. shipment[k] \in Row
    BY FulfilmentTypes
  <2> QED
    BY <1>1, <2>1 DEF Row
<1>3. Resting \in Update /\ Resting.key = NoEvent
  BY Blanks
<1>4. u \in Update /\ u.step = "ask" /\ u.about = k /\ u.key = NoEvent
  BY <1>3 DEF Update
<1> HIDE DEF u
<1>5. Fits(u)
  BY <1>2, <1>4 DEF Fits
<1> QED
  BY <1>1, <1>4, <1>5, StartKeeps

LEMMA AnswerKeeps ==
    ASSUME FInv, NEW f \in Feeds, Ask(f) \/ NoAnswer(f)
    PROVE  FInv'
<1> DEFINE u == feed[f]
           p == parcel[shipment[u.about].ref]
           new == [u EXCEPT !.step = "apply", !.status = p]
<1>1. /\ orderStatus' = orderStatus /\ intent' = intent
      /\ UNCHANGED <<rows, carrier, deduped, errand, restarts>>
      /\ u.step = "ask"
      /\ feed' = [feed EXCEPT ![f] = new] \/ feed' = [feed EXCEPT ![f] = Resting]
  BY DEF Ask, NoAnswer, orderVars
<1>2. u \in Update /\ ReportFits(f)
  BY FulfilmentTypes DEF FInv
<1>3. /\ u.about \in Shipments /\ shipment[u.about].ref \in Parcels
      /\ u.key \in Event
  BY <1>1, <1>2 DEF ReportFits, Fits, Update
<1>4. p \in Moving \union Final
  <2>1. ShipmentFits(u.about)
    BY <1>3 DEF FInv
  <2>2. p # "none"
    BY <1>3, <2>1, Constants DEF ShipmentFits
  <2> QED
    BY <1>3, <2>2, FulfilmentTypes
<1>5. Fits(Resting)
  BY RestingFits
<1>6. CASE feed' = [feed EXCEPT ![f] = Resting]
  BY <1>1, <1>5, <1>6, FulfilmentTypes, Blanks, FeedKeeps
<1>7. CASE feed' = [feed EXCEPT ![f] = new]
  <2> HIDE DEF p
  <2>1. /\ new \in Update /\ new.step = "apply" /\ new.about = u.about
        /\ new.status = p /\ new.key = u.key
    BY <1>2, <1>4 DEF Update
  <2>2. u.key \in mail \union {NoEvent}
    BY <1>1, <1>2 DEF ReportFits, Fits
  <2> HIDE DEF new
  <2>3. Fits(new)
    BY <1>3, <2>1, <2>2 DEF Fits, p
  <2> QED
    BY <1>1, <1>7, <2>1, <2>3, FulfilmentTypes, FeedKeeps
<1> QED
  BY <1>1, <1>6, <1>7

LEMMA ApplyKeeps == ASSUME FInv, NEW f \in Feeds, ApplyStatus(f) PROVE FInv'
<1> DEFINE u == feed[f]
           told == [u EXCEPT !.step = "report"]
<1>1. /\ u.step = "apply"
      /\ shipment' = [shipment EXCEPT ![u.about].status = u.status]
      /\ deduped' = deduped \union ({u.key} \ {NoEvent})
      /\ feed' = [feed EXCEPT ![f] = IF u.status \in Delivered THEN told ELSE Resting]
      /\ UNCHANGED <<orderVars, dispatch, carrier, errand, restarts>>
  BY DEF ApplyStatus, Write
<1>2. /\ dispatch' = dispatch /\ parcel' = parcel /\ mail' = mail
      /\ errand' = errand /\ restarts' = restarts
      /\ orderStatus' = orderStatus /\ intent' = intent
  BY <1>1 DEF orderVars, carrier
<1>3. u \in Update /\ ReportFits(f)
  BY FulfilmentTypes DEF FInv
<1>4. PICK k \in Shipments :
      /\ k = u.about /\ shipment[k].ref \in Parcels
      /\ u.key \in mail \union {NoEvent}
      /\ u.status \in Delivered => parcel[shipment[k].ref] = u.status
  BY <1>1, <1>3 DEF ReportFits, Fits
<1>5. u.status \in Moving \union Final
  BY <1>3 DEF Update
<1>6. told \in Update /\ told.step = "report" /\ told.status = u.status
  BY <1>3 DEF Update
<1>7. u.status \in Delivered => Fits(told)
  BY <1>4, <1>6 DEF Fits
<1>8. Fits(Resting)
  BY RestingFits
<1> HIDE DEF told, u
<1>9. /\ feed' \in [Feeds -> Update]
      /\ \A g \in Feeds \ {f} : feed'[g] = feed[g]
      /\ Fits(feed'[f])
  BY <1>1, <1>6, <1>7, <1>8, FulfilmentTypes, Blanks
<1>10. /\ shipment' \in [Shipments -> Row]
       /\ \A l \in Shipments : shipment'[l].ref = shipment[l].ref
       /\ \A l \in Shipments \ {k} : shipment'[l].status = shipment[l].status
       /\ shipment'[k].status = u.status
  <2> DEFINE row == [shipment[k] EXCEPT !.status = u.status]
  <2>1. shipment[k] \in Row
    BY <1>4, FulfilmentTypes
  <2>2. row \in Row /\ row.status = u.status /\ row.ref = shipment[k].ref
    BY <1>5, <2>1 DEF Row, Open, Closed, Moving
  <2>3. shipment' = [shipment EXCEPT ![k] = row]
    BY <1>1, <1>4
  <2> HIDE DEF row
  <2> QED
    BY <1>4, <2>2, <2>3, FulfilmentTypes
<1>11. deduped' \in SUBSET mail'
  BY <1>1, <1>2, <1>4, FulfilmentTypes
<1>12. FulfilmentTypeOK'
  BY <1>2, <1>9, <1>10, <1>11, FulfilmentTypes, FulfilmentTyped
<1>13. Goes
  BY <1>2, Still
<1>14. \A g \in Feeds : ToldTruly(g)'
  BY <1>2, <1>13, ToldKept
<1>15. \A g \in Feeds : ReportFits(g)'
  <2>1. \A g \in Feeds \ {f} : ReportFits(g)'
    BY <1>2, <1>9, <1>10, <1>13, ReportKept
  <2>2. ReportFits(f)'
    BY <1>2, <1>9, <1>10, FitsStill DEF ReportFits
  <2> QED
    BY <2>1, <2>2
<1>16. \A l \in Shipments : CallFits(l)'
  BY <1>2, <1>10, <1>13, CallKept DEF FInv
<1>17. \A l \in Shipments \ {k} : ShipmentFits(l)'
  BY <1>10, <1>13, ShipmentKept
<1>18. ShipmentFits(k)'
  <2>1. ShipmentFits(k)
    BY <1>4 DEF FInv
  <2> QED
    BY <1>2, <1>4, <1>10, <2>1 DEF ShipmentFits
<1>19. MailFits'
  BY <1>2 DEF FInv, MailFits
<1> QED
  BY <1>12, <1>14, <1>15, <1>16, <1>17, <1>18, <1>19 DEF FInv

LEMMA ReportKeeps == ASSUME FInv, NEW f \in Feeds, ReportToOrder(f) PROVE FInv'
<1> DEFINE u == feed[f]
<1>1. /\ u.step = "report"
      /\ Orders!CourierReports(f, u.status) \/ UNCHANGED orderVars
      /\ feed' = [feed EXCEPT ![f] = Resting]
      /\ UNCHANGED <<rows, carrier, deduped, errand, restarts>>
  BY DEF ReportToOrder
<1>2. u.status \in Delivered /\ \E p \in Parcels : parcel[p] = u.status
  BY <1>1 DEF FInv, ReportFits, Fits
<1> HIDE DEF u
<1>3. /\ orderStatus' = orderStatus
      /\ intent' = intent \/ intent' = [intent EXCEPT ![f] = u.status]
  BY <1>1 DEF Orders!CourierReports, Orders!Plan, orderVars
<1>4. u.status \in Orders!OrderStatuses
  BY <1>2, Statuses DEF Delivered
<1>5. /\ intent' \in [StaffRequests \union Feeds -> Orders!OrderStatuses \union {"none"}]
      /\ \A g \in Feeds : \/ intent'[g] = intent[g]
                           \/ intent'[g] = u.status
  BY <1>3, <1>4, FulfilmentTypes
<1> QED
  BY <1>1, <1>2, <1>3, <1>5, Blanks, RestingFits, FeedKeeps

LEMMA TellKeeps ==
    ASSUME FInv, NEW f \in Feeds, Orders!Write(f), UNCHANGED deliveryVars
    PROVE  FInv'
<1>1. /\ shipment' = shipment /\ dispatch' = dispatch /\ parcel' = parcel /\ mail' = mail
      /\ deduped' = deduped /\ feed' = feed /\ errand' = errand /\ restarts' = restarts
  BY DEF deliveryVars, rows, carrier, reports
<1>2. intent[f] \in Orders!OrderStatuses \union {"none"}
  BY FulfilmentTypes
<1>3. /\ orderStatus' \in Orders!OrderStatuses \union {"none", "deleted"}
      /\ intent' = [intent EXCEPT ![f] = "none"]
  BY <1>2, FulfilmentTypes DEF Orders!Write, Orders!Settled
<1>4. /\ intent' \in [StaffRequests \union Feeds -> Orders!OrderStatuses \union {"none"}]
      /\ \A g \in Feeds : intent'[g] \in {intent[g], "none"}
  BY <1>3, FulfilmentTypes
<1>5. FulfilmentTypeOK'
  BY <1>1, <1>3, <1>4, FulfilmentTypes, FulfilmentTyped
<1>6. \A g \in Feeds : ToldTruly(g)'
  BY <1>1, <1>4 DEF FInv, ToldTruly
<1> QED
  BY <1>1, <1>5, <1>6 DEF FInv, MailFits, CallFits, ShipmentFits, ReportFits, Fits

LEMMA RestartKeeps == ASSUME FInv, Restart PROVE FInv'
<1>1. /\ shipment' = shipment /\ parcel' = parcel /\ mail' = mail
      /\ deduped' = deduped /\ orderStatus' = orderStatus
      /\ restarts' = restarts + 1 /\ restarts < MaxRestarts
      /\ intent' = [c \in StaffRequests \union Feeds |-> "none"]
      /\ feed' = [f \in Feeds |-> Resting]
      /\ dispatch' = [k \in Shipments |-> NoCall]
      /\ errand' = [d \in Dispatchers |-> AtEase]
  BY DEF Restart, carrier
<1>2. restarts' \in 0..MaxRestarts
  BY <1>1, FulfilmentTypes, Constants
<1>3. FulfilmentTypeOK'
  <2>1. /\ feed' \in [Feeds -> Update] /\ dispatch' \in [Shipments -> Call]
        /\ errand' \in [Dispatchers -> Errand]
        /\ intent' \in [StaffRequests \union Feeds -> Orders!OrderStatuses \union {"none"}]
    BY <1>1, Blanks
  <2> QED
    BY <1>1, <1>2, <2>1, FulfilmentTypes, FulfilmentTyped
<1>4. \A k \in Shipments : CallFits(k)' /\ ShipmentFits(k)'
  BY <1>1, Blanks DEF FInv, CallFits, ShipmentFits
<1>5. \A f \in Feeds : ReportFits(f)' /\ ToldTruly(f)'
  BY <1>1, Blanks DEF ReportFits, Fits, ToldTruly, Feeds
<1>6. MailFits'
  BY <1>1 DEF FInv, MailFits
<1> QED
  BY <1>3, <1>4, <1>5, <1>6 DEF FInv

LEMMA FulfilmentStep == ASSUME FInv, FulfilmentNext PROVE FInv'
<1>1. CASE OrderStep
  BY <1>1, OrderStepKeeps
<1>2. ASSUME NEW d \in Dispatchers, Shipping(d) PROVE FInv'
  BY <1>2, PlansKeep, InsertKeeps, AskKeeps, CancelKeeps DEF Shipping
<1>3. ASSUME NEW k \in Shipments, Carry(k) \/ BeginPoll(k) PROVE FInv'
  BY <1>3, PostKeeps, RecordKeeps, PollKeeps DEF Carry, BeginPoll, Feeds
<1>4. ASSUME NEW p \in Parcels, Travel(p) PROVE FInv'
  BY <1>4, TravelKeeps
<1>5. ASSUME NEW f \in Hooks, BeginWebhook(f) PROVE FInv'
  BY <1>5, HookKeeps
<1>6. ASSUME NEW f \in Polls, BeginSync(f) \/ NoAnswer(f) PROVE FInv'
  BY <1>6, PollKeeps, AnswerKeeps DEF BeginSync, Feeds
<1>7. ASSUME NEW f \in Feeds, Continue(f) PROVE FInv'
  BY <1>7, AnswerKeeps, ApplyKeeps, ReportKeeps, TellKeeps DEF Continue
<1>8. CASE Restart
  BY <1>8, RestartKeeps
<1> QED
  BY <1>1, <1>2, <1>3, <1>4, <1>5, <1>6, <1>7, <1>8 DEF FulfilmentNext

LEMMA FulfilmentStutter == ASSUME FInv, UNCHANGED fulfilmentVars PROVE FInv'
<1>1. /\ shipment' = shipment /\ dispatch' = dispatch /\ parcel' = parcel /\ mail' = mail
      /\ deduped' = deduped /\ feed' = feed /\ errand' = errand /\ restarts' = restarts
      /\ orderStatus' = orderStatus /\ intent' = intent
  BY DEF fulfilmentVars, orderVars, deliveryVars, rows, carrier, reports
<1>2. FulfilmentTypeOK'
  BY <1>1, FulfilmentTypes, FulfilmentTyped
<1> QED
  BY <1>1, <1>2 DEF FInv, MailFits, CallFits, ShipmentFits, ReportFits, Fits, ToldTruly

LEMMA FulfilmentStarts == FulfilmentInit => FInv
<1> SUFFICES ASSUME FulfilmentInit PROVE FInv
  OBVIOUS
<1>1. /\ orderStatus = "none" /\ intent = [c \in StaffRequests \union Feeds |-> "none"]
      /\ shipment = [k \in Shipments |-> NoRow]
      /\ dispatch = [k \in Shipments |-> NoCall]
      /\ parcel = [p \in Parcels |-> "none"]
      /\ mail = {} /\ deduped = {}
      /\ feed = [f \in Feeds |-> Resting]
      /\ errand = [d \in Dispatchers |-> AtEase]
      /\ restarts = 0
  BY DEF FulfilmentInit, Orders!Init
<1>2. FulfilmentTypeOK
  <2>1. restarts \in 0..MaxRestarts
    BY <1>1, Constants
  <2>2. /\ shipment \in [Shipments -> Row] /\ dispatch \in [Shipments -> Call]
        /\ feed \in [Feeds -> Update] /\ errand \in [Dispatchers -> Errand]
        /\ parcel \in [Parcels -> {"none"} \union Moving \union Final]
        /\ mail \in SUBSET Event /\ deduped \in SUBSET mail
        /\ Orders!StatusTypeOK
    BY <1>1, Blanks DEF Orders!StatusTypeOK
  <2> QED
    BY <2>1, <2>2 DEF FulfilmentTypeOK
<1>3. /\ \A k \in Shipments : CallFits(k) /\ ShipmentFits(k)
      /\ \A f \in Feeds : ReportFits(f) /\ ToldTruly(f)
  BY <1>1, Blanks DEF CallFits, ShipmentFits, ReportFits, Fits, ToldTruly, Delivered
<1> QED
  BY <1>1, <1>2, <1>3 DEF FInv, MailFits

LEMMA FulfilmentInvariant == FulfilmentSpec => []FInv
<1>1. FulfilmentInit => FInv
  BY FulfilmentStarts
<1>2. FInv /\ [FulfilmentNext]_fulfilmentVars => FInv'
  BY FulfilmentStep, FulfilmentStutter
<1> QED
  BY <1>1, <1>2, PTL DEF FulfilmentSpec

\* Nothing is said delivered or returned that the carrier's own record does
\* not: for any number of staff requests, shipments, parcels, webhooks, polls
\* and restarts, and whatever the network loses, delays or repeats.
THEOREM NothingSaidThatIsNotSo == FulfilmentSpec => []ReportsAreTrue
<1>1. FInv => ReportsAreTrue
  <2> SUFFICES ASSUME FInv PROVE ReportsAreTrue
    OBVIOUS
  <2>1. ASSUME NEW k \in Shipments, shipment[k].status \in Delivered
        PROVE  \E p \in Parcels : shipment[k].ref = p /\ parcel[p] = shipment[k].status
    BY <2>1 DEF FInv, ShipmentFits
  <2>2. ASSUME NEW f \in Feeds, intent[f] # "none"
        PROVE  \E p \in Parcels : parcel[p] = intent[f]
    BY <2>2 DEF FInv, ToldTruly
  <2> QED
    BY <2>1, <2>2 DEF FInv, ReportsAreTrue, NothingInvented
<1> QED
  BY <1>1, FulfilmentInvariant, PTL
=============================================================================
