------------------------------ MODULE MCBooks ------------------------------
(***************************************************************************)
(* Instances of Books for TLC.  Rows and requests are interchangeable, and *)
(* only safety is checked, so their ids are symmetry sets.                 *)
(***************************************************************************)
EXTENDS Books, TLC

AllKinds == {"expense", "voucher", "transfer"}
TwoSizes == {1, 2}

Interchangeable ==
    UNION {Permutations(ids) : ids \in {Periods, Docs, Entries, Failures, Requests}}
=============================================================================
