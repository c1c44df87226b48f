---------------------------- MODULE MCOnlineOrders ----------------------------
(***************************************************************************)
(* Instances of OnlineOrders for TLC.                                      *)
(***************************************************************************)
EXTENDS OnlineOrders

OneSize == {1}
TwoSizes == {1, 2}
=============================================================================
