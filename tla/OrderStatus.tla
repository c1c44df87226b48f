------------------------------ MODULE OrderStatus ------------------------------
(***************************************************************************)
(* What onlineOrderService promises of the status of one online order,     *)
(* whatever its invoices do: a request plans a move that the order's       *)
(* status allows, and writes it, or gives up, at some later moment.        *)
(*                                                                         *)
(* OnlineOrders implements this; Fulfilment builds upon it.                *)
(***************************************************************************)
EXTENDS OrderWorkflow

CONSTANTS
    Clerks,         \* staff requests that can be in flight at the same time
    Couriers        \* reports of shipments that can be in flight

VARIABLES
    status,         \* of the online_orders row; none before, deleted after it
    intent          \* the status each request is about to write

statusVars == <<status, intent>>

Exists == status \in OrderStatuses

Plan(c, next) ==
    /\ intent[c] = "none"
    /\ intent' = [intent EXCEPT ![c] = next]
    /\ UNCHANGED status

Settled(c) == intent' = [intent EXCEPT ![c] = "none"]

Place ==
    /\ status = "none"
    /\ status' = "NEW"
    /\ UNCHANGED intent

Remove ==
    /\ Exists
    /\ status' = "deleted"
    /\ UNCHANGED intent

\* updateStatus, or returnOrder for an order that has an invoice.
PlanMove(c) ==
    \E next \in OrderStatuses :
        /\ Exists
        /\ \/ next \in Transitions[status]
           \/ next = "RETURNED" /\ status \in SaleBacked
        /\ Plan(c, next)

\* syncStatusFromShipment "forces the order to DELIVERED/RETURNED from any
\* non-terminal state".
CourierReports(f, target) ==
    /\ Exists
    /\ status \notin Terminal \union {target}
    /\ Plan(f, target)

\* The status it planned from is not looked at again.
Write(c) ==
    /\ intent[c] # "none"
    /\ status' = IF Exists THEN intent[c] ELSE status
    /\ Settled(c)

GiveUp(c) ==
    /\ intent[c] # "none"
    /\ Settled(c)
    /\ UNCHANGED status

Init ==
    /\ status = "none"
    /\ intent = [c \in Clerks \union Couriers |-> "none"]

Next ==
    \/ Place
    \/ Remove
    \/ \E c \in Clerks : PlanMove(c)
    \/ \E f \in Couriers, target \in {"DELIVERED", "RETURNED"} : CourierReports(f, target)
    \/ \E c \in Clerks \union Couriers : Write(c) \/ GiveUp(c)

Spec == Init /\ [][Next]_statusVars

StatusTypeOK ==
    /\ status \in OrderStatuses \union {"none", "deleted"}
    /\ intent \in [Clerks \union Couriers -> OrderStatuses \union {"none"}]
=============================================================================
