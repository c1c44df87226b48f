------------------------------ MODULE MCSales ------------------------------
(***************************************************************************)
(* Instances of Sales for TLC.  Sale ids and requests are interchangeable  *)
(* and no property counts on their order, so they are symmetry sets.       *)
(***************************************************************************)
EXTENDS Sales, TLC

AllOps == OpNames

TwoSizes == {1, 2}
OneSize == {2}

Interchangeable == Permutations(Sales) \union Permutations(Requests)
=============================================================================
