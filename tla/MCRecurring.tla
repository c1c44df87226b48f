---------------------------- MODULE MCRecurring ----------------------------
(***************************************************************************)
(* An instance of Recurring for TLC: years of two months of one day, but   *)
(* every other second month has two, and a week of two days.  Up to the    *)
(* horizon the monthly rule has three dates, all moved to a month's last   *)
(* day (the next one is not), the others one each.                         *)
(***************************************************************************)
EXTENDS Recurring

ShortMonths == <<1, 1, 1, 2, 1, 1>>

EachKind ==
    {[frequency |-> "weekly", on |-> 1, month |-> 0],
     [frequency |-> "monthly", on |-> 2, month |-> 0],
     [frequency |-> "yearly", on |-> 2, month |-> 2]}
=============================================================================
