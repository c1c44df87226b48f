--------------------------- MODULE MCCollections ---------------------------
(***************************************************************************)
(* An instance of Collections for TLC.  Requests are interchangeable, and  *)
(* only safety is checked.                                                 *)
(***************************************************************************)
EXTENDS Collections, TLC

Interchangeable == Permutations(Attempts)
=============================================================================
