---------------------------- MODULE MCInventory ----------------------------
(***************************************************************************)
(* Instances of Inventory for TLC.  Liveness is checked, so connections    *)
(* are not a symmetry set; warehouses are ordered and cannot be one.       *)
(***************************************************************************)
EXTENDS Inventory

AllOps == {"sale", "restore", "purchase", "adjust", "transfer", "approve", "reject"}

TwoWarehouses == {1, 2}
OneUnit == {1}
UpToTwo == {1, 2}
=============================================================================
