------------------------------ MODULE MCDesktop ------------------------------
(* Instances of Desktop for TLC. *)
EXTENDS Desktop

\* `src` stands for the files every bundle must bring; one bundle lacks the
\* other entry, which an update to it leaves as it was.
MCPayload == [b \in Bundles |-> IF b = "b1" THEN Entries ELSE {"src"}]
=============================================================================
