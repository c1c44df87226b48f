---------------------------- MODULE Collections ----------------------------
(***************************************************************************)
(* The life of an installment invoice: its schedule, the payments that     *)
(* clients and collectors record on it, cancellation and restoration       *)
(* (saleService, installmentActionService), with the payments of clients   *)
(* behind Idempotency.                                                     *)
(*                                                                         *)
(* Amounts are whole units of the smallest denomination every amount is    *)
(* rounded up to (roundByCurrency).  A request reads the invoice with      *)
(* getById, two queries outside any transaction (ReadSale, ReadPlan), and  *)
(* its transaction writes the invoice and the installments as absolute     *)
(* values computed from what it read, the customer's debt as a difference. *)
(*                                                                         *)
(* One invoice of one customer.  Returns are refused on such an invoice,   *)
(* its deletion is in Sales, its period and its vouchers are in Books.     *)
(***************************************************************************)
EXTENDS Idempotency, Integers, SequencesExt, Sums

CONSTANTS
    MaxCount,       \* bound: installments of the invoice
    Totals,         \* totals the invoice may have
    Amounts,        \* amounts of a payment
    Tolerance,      \* by which a payment may exceed what is left (a unit or 0)
    MaxRequests     \* bound: requests accepted over a behaviour

ASSUME CollectionsAssumption ==
    /\ MaxCount \in Nat \ {0}
    /\ Totals \subseteq Nat \ {0}
    /\ Amounts \subseteq Nat \ {0}
    /\ Tolerance \in Nat
    /\ MaxRequests \in Nat

VARIABLES
    sale,           \* the sales row
    plan,           \* its installments, by number
    payments,       \* amounts of its payments rows after the first, by id
    debt,           \* customers.total_debt
    actions,        \* installment_actions of the kind payment
    req,            \* what each request in flight has read so far
    handled,        \* requests accepted so far, capped by MaxRequests
    calm            \* no two requests have overlapped

rows == <<sale, plan, payments, debt, actions>>
vars == <<rows, req, handled, calm, keyVars>>

Numbers == 1..MaxCount
Sale == [status : {"absent", "pending", "completed", "cancelled"},
         paid : Nat, remaining : Nat]
Installment == [status : {"none", "pending", "paid", "cancelled"},
                due : Int, paid : Int, remaining : Int]
Plan == [Numbers -> Installment]
Request == [op : {"idle", "pay", "collect", "cancel", "restore"},
            step : {"idle", "asked", "half", "read", "written"},
            sale : Sale, plan : Plan, amount : Nat, payment : Nat]

NoInstallment == [status |-> "none", due |-> 0, paid |-> 0, remaining |-> 0]
NoPlan == [i \in Numbers |-> NoInstallment]
NoSale == [status |-> "absent", paid |-> 0, remaining |-> 0]
Idle == [op |-> "idle", step |-> "idle", sale |-> NoSale, plan |-> NoPlan,
         amount |-> 0, payment |-> 0]

Least(a, b) == IF a <= b THEN a ELSE b
Most(a, b) == IF a >= b THEN a ELSE b

-----------------------------------------------------------------------------
(* The schedule *)

\* Even shares rounded up to a unit, the drift charged to the last one.
Share(remaining, count) == (remaining + count - 1) \div count

ScheduleEven(remaining, count) ==  \* mutant: the last share keeps its drift
    [i \in Numbers |->
        IF i > count THEN NoInstallment
        ELSE [status |-> "pending", due |-> Share(remaining, count), paid |-> 0,
              remaining |-> Share(remaining, count)]]

Schedule(remaining, count) ==
    LET share == Share(remaining, count)
        dueOf(i) == IF i < count THEN share ELSE remaining - share * (count - 1)
    IN  [i \in Numbers |->
            IF i > count THEN NoInstallment
            ELSE [status |-> "pending", due |-> dueOf(i), paid |-> 0,
                  remaining |-> dueOf(i)]]

\* create and completeDraft: the invoice, its debt and, if something is
\* left to pay, its schedule, in one transaction.
Create ==
    \E total \in Totals, count \in Numbers :
      \E paid \in 0..total :
        LET left == total - paid
        IN  /\ sale.status = "absent"
            /\ sale' = [status |-> IF left > 0 THEN "pending" ELSE "completed",
                        paid |-> paid, remaining |-> left]
            /\ plan' = IF left > 0 THEN Schedule(left, count) ELSE NoPlan
            /\ debt' = debt + left
            /\ UNCHANGED <<payments, actions, req, handled, calm, keyVars>>

-----------------------------------------------------------------------------
(* Requests *)

\* A request arrives; overlapping with another one ends the calm.
Arrive(r, op, amount) ==
    /\ req[r] = Idle
    /\ sale.status # "absent"
    /\ handled < MaxRequests
    /\ handled' = handled + 1
    /\ req' = [req EXCEPT ![r] = [Idle EXCEPT !.op = op, !.step = "asked",
                                              !.amount = amount]]
    /\ calm' = (calm /\ \A other \in Attempts \ {r} : req[other] = Idle)
    /\ UNCHANGED rows

\* A client records a payment, with or without a key; a key that has a
\* stored answer is answered from it.
AskToPay(r) ==
    \E a \in Amounts, k \in Keys \union {NoKey} :
        Arrive(r, "pay", a) /\ LookUp(r, k)

\* A collector records a payment on an installment that is not cancelled.
AskToCollect(r) ==
    \E a \in Amounts, i \in Numbers :
        /\ plan[i].status \notin {"none", "cancelled"}
        /\ Arrive(r, "collect", a)
        /\ UNCHANGED keyVars

AskToCancel(r) == Arrive(r, "cancel", 0) /\ UNCHANGED keyVars
AskToRestore(r) == Arrive(r, "restore", 0) /\ UNCHANGED keyVars

\* getById reads the invoice first ...
ReadSale(r) ==
    /\ req[r].step = "asked"
    /\ req' = [req EXCEPT ![r].step = "half", ![r].sale = sale]
    /\ UNCHANGED <<rows, handled, calm, keyVars>>

\* What addPayment, cancel and restoreSale require of the invoice they read.
Allowed(t) ==
    CASE t.op \in {"pay", "collect"} ->
            /\ t.sale.status # "cancelled"
            /\ t.sale.remaining > 0
            /\ t.amount - t.sale.remaining <= Tolerance
      [] t.op = "cancel" -> t.sale.status # "cancelled"
      [] t.op = "restore" -> t.sale.status = "cancelled"

\* ... and its installments a little later; only a payment computes from them.
ReadPlan(r) ==
    /\ req[r].step = "half"
    /\ Allowed(req[r])
    /\ req' = [req EXCEPT
          ![r].step = "read",
          ![r].plan = IF req[r].op \in {"pay", "collect"} THEN plan ELSE NoPlan]
    /\ UNCHANGED <<rows, handled, calm, keyVars>>

\* A check or a statement fails, or the process ends before COMMIT.
Abort(r) ==
    /\ req[r].step \in {"asked", "half", "read"}
    /\ req' = [req EXCEPT ![r] = Idle]
    /\ IF req[r].op = "pay" THEN HandlerFails(r) ELSE UNCHANGED keyVars
    /\ UNCHANGED <<rows, handled, calm>>

-----------------------------------------------------------------------------
(* Payments *)

PaidInto(row, part) ==
    [row EXCEPT !.paid = @ + part, !.remaining = @ - part,
                !.status = IF row.remaining - part <= 0 THEN "paid" ELSE "pending"]

\* One installment takes its part of what is left of a payment.
TakePart(acc, i) ==
    LET row == acc.plan[i]
        part == Least(acc.left, row.remaining)
    IN  IF acc.left <= 0 \/ row.status = "paid" THEN acc
        ELSE [left |-> acc.left - part,
              plan |-> [acc.plan EXCEPT ![i] = PaidInto(row, part)]]

\* The installments are read without ORDER BY: they come in any order.
Allocations(p, amount) ==
    LET known == {i \in Numbers : p[i].status # "none"}
    IN  {FoldLeft(TakePart, [left |-> amount, plan |-> p], order).plan :
            order \in SetToSeqs(known)}

\* The rows the allocation changed are written, with the values it computed.
Overwritten(before, after) ==
    [i \in Numbers |-> IF after[i] = before[i] THEN plan[i] ELSE after[i]]

\* The invoice after the payment, from the invoice as it was read.
Paid(t, amount) ==
    [sale EXCEPT !.paid = t.sale.paid + amount,
                 !.remaining = Most(0, t.sale.remaining - amount),
                 !.status = IF t.sale.remaining <= amount THEN "completed"
                            ELSE "pending"]

\* addPayment's transaction: no more than was left is booked.
CommitPayment(r) ==
    LET t == req[r]
        amount == Least(t.amount, t.sale.remaining)
    IN  /\ t.op \in {"pay", "collect"}
        /\ t.step = "read"
        /\ payments' = Append(payments, amount)
        /\ sale' = Paid(t, amount)
        /\ debt' = debt - amount
        /\ \E after \in Allocations(t.plan, amount) :
              plan' = Overwritten(t.plan, after)
        /\ req' = [req EXCEPT ![r] = [Idle EXCEPT
                !.op = t.op, !.step = "written",
                !.payment = IF t.op = "collect" THEN Len(payments) + 1 ELSE 0]]
        /\ IF t.op = "pay" THEN HandlerCommits(r) ELSE UNCHANGED keyVars
        /\ UNCHANGED <<actions, handled, calm>>

\* The client's answer is on its way and, if it used a key, stored; or the
\* reload of the invoice, the insert or the process fails.
Answered(r) ==
    /\ req[r].op = "pay"
    /\ req[r].step = "written"
    /\ StoreAnswer(r) \/ AnswerLost(r)
    /\ req' = [req EXCEPT ![r] = Idle]
    /\ UNCHANGED <<rows, handled, calm>>

\* recordAction reloads the invoice and links its newest payment.
LinkAction(r) ==
    /\ req[r].op = "collect"
    /\ req[r].step = "written"
    /\ actions' = actions \union {[made |-> req[r].payment, linked |-> Len(payments)]}
    /\ req' = [req EXCEPT ![r] = Idle]
    /\ UNCHANGED <<sale, plan, payments, debt, handled, calm, keyVars>>

\* The process ends first: the payment stands without an action.
ActionLost(r) ==
    /\ req[r].op = "collect"
    /\ req[r].step = "written"
    /\ req' = [req EXCEPT ![r] = Idle]
    /\ UNCHANGED <<rows, handled, calm, keyVars>>

-----------------------------------------------------------------------------
(* Cancellation and restoration *)

\* Every installment in one status moves to another.
Marked(from, to) ==
    [i \in Numbers |->
        IF plan[i].status = from THEN [plan[i] EXCEPT !.status = to] ELSE plan[i]]

CancelInvoiceOnly(r) ==  \* mutant: the pending installments stay
    LET t == req[r]
    IN  /\ t.op = "cancel"
        /\ t.step = "read"
        /\ debt' = IF t.sale.remaining > 0 THEN Most(0, debt - t.sale.remaining)
                   ELSE debt
        /\ sale' = [sale EXCEPT !.status = "cancelled"]
        /\ req' = [req EXCEPT ![r] = Idle]
        /\ UNCHANGED <<plan, payments, actions, handled, calm, keyVars>>

CommitCancel(r) ==
    LET t == req[r]
    IN  /\ t.op = "cancel"
        /\ t.step = "read"
        /\ debt' = IF t.sale.remaining > 0 THEN Most(0, debt - t.sale.remaining)
                   ELSE debt
        /\ plan' = Marked("pending", "cancelled")
        /\ sale' = [sale EXCEPT !.status = "cancelled"]
        /\ req' = [req EXCEPT ![r] = Idle]
        /\ UNCHANGED <<payments, actions, handled, calm, keyVars>>

CommitRestore(r) ==
    LET t == req[r]
    IN  /\ t.op = "restore"
        /\ t.step = "read"
        /\ debt' = debt + t.sale.remaining
        /\ sale' = [sale EXCEPT !.status = IF t.sale.remaining <= 0 THEN "completed"
                                           ELSE "pending"]
        /\ plan' = Marked("cancelled", "pending")
        /\ req' = [req EXCEPT ![r] = Idle]
        /\ UNCHANGED <<payments, actions, handled, calm, keyVars>>

-----------------------------------------------------------------------------

Init ==
    /\ sale = NoSale
    /\ plan = NoPlan
    /\ payments = <<>>
    /\ debt = 0
    /\ actions = {}
    /\ req = [r \in Attempts |-> Idle]
    /\ handled = 0
    /\ calm = TRUE
    /\ KeysInit

Step(r) ==
    \/ AskToPay(r)    \/ AskToCollect(r)
    \/ AskToCancel(r) \/ AskToRestore(r)
    \/ ReadSale(r)    \/ ReadPlan(r)
    \/ CommitPayment(r) \/ Answered(r)
    \/ LinkAction(r)  \/ ActionLost(r)
    \/ CommitCancel(r) \/ CommitRestore(r)
    \/ Abort(r)

Next == Create \/ \E r \in Attempts : Step(r)

Spec == Init /\ [][Next]_vars

-----------------------------------------------------------------------------
(* Properties of every interleaving *)

TypeOK ==
    /\ KeysTypeOK
    /\ sale \in Sale
    /\ plan \in Plan
    /\ payments \in Seq(Nat)
    /\ debt \in Int
    /\ \A a \in actions : a.made \in Nat \ {0} /\ a.linked \in Nat \ {0}
    /\ req \in [Attempts -> Request]
    /\ handled \in 0..MaxRequests
    /\ calm \in BOOLEAN

Collected == SumOver(payments, DOMAIN payments)

\* Payments overwrite one another's installments, torn reads included; the
\* schedule may forget money, but it never shows any that no payment holds.
\* A share that drift made negative is the exception: two payments that
\* overlap may each add it to what they spread over the other installments.
NoPhantomInstallment ==
    (\A i \in Numbers : plan[i].due >= 0) =>
        SumOver([i \in Numbers |-> plan[i].paid], Numbers) <= Collected

-----------------------------------------------------------------------------
(* Properties of calm: no two requests have overlapped *)

\* "So the rows always sum back to exactly the remaining amount": what the
\* schedule asks for is what the invoice and the customer's debt say is
\* left, through payments in any order, cancellation and restoration.
PlanAddsUp ==
    calm /\ sale.status # "absent" =>
        /\ SumOver([i \in Numbers |-> plan[i].remaining], Numbers) = sale.remaining
        /\ debt = IF sale.status = "cancelled" THEN 0 ELSE sale.remaining

\* The reminder job and the overdue list take every pending installment
\* whatever its amount: once the invoice is settled or cancelled none may
\* be left.  A share that drift made zero or negative is the exception.
NoIdleReminder ==
    calm /\ sale.status \in {"completed", "cancelled"} =>
        \/ \A i \in Numbers : plan[i].status # "pending"
        \/ \E i \in Numbers : plan[i].status # "none" /\ plan[i].due <= 0

\* While something is left to pay some installment asks for it.
StillAskedFor ==
    calm /\ sale.status = "pending" =>
        \E i \in Numbers : plan[i].status = "pending" /\ plan[i].remaining > 0

\* Reminders go out while something is owed, and stop when nothing is.
RemindersFollowDebt == NoIdleReminder /\ StillAskedFor

\* The action a collector leaves names the payment that was made with it.
ActionNamesPayment == calm => \A a \in actions : a.linked = a.made

\* Schedule, payments and the log of collections fit together.
CollectionsAgree ==
    TypeOK /\ NoPhantomInstallment /\ PlanAddsUp /\ ActionNamesPayment
=============================================================================
