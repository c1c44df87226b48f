---------------------------- MODULE MCPurchases ----------------------------
(***************************************************************************)
(* Instances of Purchases for TLC.  Invoices and requests are              *)
(* interchangeable, and only safety is checked.                            *)
(***************************************************************************)
EXTENDS Purchases, TLC

TwoSizes == {1, 2}
OneOff == {0, 1}

Interchangeable == Permutations(Invoices) \union Permutations(Requests)
=============================================================================
