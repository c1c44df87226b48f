----------------------------- MODULE StockLedger -----------------------------
(***************************************************************************)
(* What backend/src/services/inventoryService.js promises its callers: a   *)
(* posting changes the stock rows and the movement log together, one       *)
(* posting at a time, and no posting leaves a warehouse owing goods unless *)
(* the caller asked for that.  Inventory shows how row locks deliver it.   *)
(***************************************************************************)
EXTENDS Integers

CONSTANTS
    Warehouses,     \* warehouses that stock the product
    Opening,        \* quantity of every warehouse at the start
    MayOverdraw     \* some callers pass allowNegative

VARIABLES
    onHand,         \* quantity the stock rows show
    logged          \* sum of the movements in the log

vars == <<onHand, logged>>

Init ==
    /\ onHand = [w \in Warehouses |-> Opening]
    /\ logged = [w \in Warehouses |-> 0]

\* One posting adds the same signed quantities to the rows and to the log.
Post ==
    /\ \A w \in Warehouses : onHand'[w] - onHand[w] = logged'[w] - logged[w]
    /\ \A w \in Warehouses :
            onHand'[w] < onHand[w] => MayOverdraw \/ onHand'[w] >= 0
    /\ DOMAIN onHand' = Warehouses
    /\ DOMAIN logged' = Warehouses

Spec == Init /\ [][Post]_vars
=============================================================================
