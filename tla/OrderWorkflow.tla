----------------------------- MODULE OrderWorkflow -----------------------------
(***************************************************************************)
(* The statuses of an online order: backend/src/constants/orders.js.       *)
(***************************************************************************)

\* ORDER_STATUS_TRANSITIONS.
Transitions ==
    [NEW |-> {"PROCESSING", "CANCELLED"},
     PROCESSING |-> {"CONFIRMED", "CANCELLED"},
     CONFIRMED |-> {"READY_FOR_DELIVERY", "CANCELLED"},
     READY_FOR_DELIVERY |-> {"OUT_FOR_DELIVERY", "CANCELLED"},
     OUT_FOR_DELIVERY |-> {"DELIVERED", "RETURNED", "CANCELLED"},
     DELIVERED |-> {"RETURNED"},
     RETURNED |-> {},
     CANCELLED |-> {}]

OrderStatuses == DOMAIN Transitions

\* "Statuses in which a linked sale invoice EXISTS".
SaleBacked == {"CONFIRMED", "READY_FOR_DELIVERY", "OUT_FOR_DELIVERY",
               "DELIVERED", "RETURNED"}

\* What update lets staff edit, what syncStatusFromShipment never touches.
Editable == {"NEW", "PROCESSING"}
Terminal == {"RETURNED", "CANCELLED"}
=============================================================================
