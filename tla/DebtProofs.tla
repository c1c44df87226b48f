------------------------------ MODULE DebtProofs ------------------------------
(***************************************************************************)
(* Proofs about what customers and suppliers owe, for any amounts and any  *)
(* number of requests.                                                     *)
(*                                                                         *)
(* Part 1: what Idempotency promises, whoever uses its keys (KeysRunOnce). *)
(*                                                                         *)
(* Part 2: Collections.  Its payments use the keys as Idempotency says     *)
(* (PaymentsUseKeys); schedule, payments, debt and the log of collections  *)
(* fit together (InstallmentsAgree), and so do the reminders               *)
(* (RemindersFollow).  An allocation visits the installments in any order; *)
(* it is followed by a table with the state after any part of the order    *)
(* (Spread), and a smallest part for which the claim fails is impossible.  *)
(* What overlapping payments can show in the plan is bounded by a high     *)
(* water mark that is above every copy of the plan a request still holds.  *)
(*                                                                         *)
(* Part 3: Purchases, any number of invoices.  Collections and Purchases   *)
(* share nothing; a theorem about the one leaves the other free.           *)
(***************************************************************************)
EXTENDS Collections, Purchases, SumTheorems

-----------------------------------------------------------------------------
(* Part 1: idempotency *)

Alone(k) == \A r, s \in Attempts :
    attempt[r].step # "idle" /\ attempt[r].key = k
    /\ attempt[s].step # "idle" /\ attempt[s].key = k => r = s

AnsweredForGood(k) ==
    k \in stored => \A r \in Attempts : ~(attempt[r].step # "idle" /\ attempt[r].key = k)

Accounted(k) ==
    \/ ran[k] = 0
    \/ /\ ran[k] = 1
       /\ \/ k \in stored
          \/ \E r \in Attempts : attempt[r].step = "ran" /\ attempt[r].key = k

\* The inductive invariant: the attempts on a key that nothing excuses come
\* one at a time, none comes after its answer was stored, and a commit is
\* either stored or about to be.
KeysInv ==
    /\ KeysTypeOK
    /\ \A k \in Keys \ excused : Alone(k) /\ AnsweredForGood(k) /\ Accounted(k)

LEMMA KeysStart == KeysInit => KeysInv
  BY SMT, KeysAssumption
     DEF KeysInit, KeysInv, KeysTypeOK, Alone, AnsweredForGood, Accounted, Away, Attempt

LEMMA LookUpKeeps ==
    ASSUME KeysInv, NEW r \in Attempts, NEW k \in Keys \union {NoKey}, LookUp(r, k)
    PROVE  KeysInv'
<1>1. attempt[r] = Away /\ k \notin stored
  BY DEF LookUp
<1>2. /\ stored' = stored
      /\ ran' = ran
      /\ attempt' = [attempt EXCEPT ![r] = [step |-> "running", key |-> k]]
      /\ excused' = IF Using(k) = {} THEN excused ELSE excused \union {k}
  BY DEF LookUp
<1>3. KeysTypeOK'
  BY <1>2 DEF KeysInv, KeysTypeOK, Attempt
<1>4. ASSUME NEW x \in Keys \ excused'
      PROVE  Alone(x)' /\ AnsweredForGood(x)' /\ Accounted(x)'
  <2>1. x \in Keys \ excused
    BY <1>2, <1>4
  <2>2. Alone(x) /\ AnsweredForGood(x) /\ Accounted(x)
    BY <2>1 DEF KeysInv
  <2>3. attempt \in [Attempts -> Attempt]
    BY DEF KeysInv, KeysTypeOK
  <2>4. x = k => Using(k) = {}
    BY <1>2, <1>4
  <2>5. Alone(x)'
    BY <2>2, <2>3, <2>4, <1>2 DEF Alone, Using
  <2>6. AnsweredForGood(x)'
    BY <2>2, <2>3, <1>1, <1>2 DEF AnsweredForGood
  <2>7. Accounted(x)'
    BY <2>2, <2>3, <1>1, <1>2 DEF Accounted, Away
  <2> QED BY <2>5, <2>6, <2>7
<1> QED BY <1>3, <1>4 DEF KeysInv

LEMMA CommitKeeps ==
    ASSUME KeysInv, NEW r \in Attempts, HandlerCommits(r)
    PROVE  KeysInv'
<1> DEFINE k == attempt[r].key
<1>1. attempt[r].step = "running"
  BY DEF HandlerCommits
<1>2. /\ stored' = stored
      /\ excused' = excused
      /\ attempt' = [attempt EXCEPT ![r].step = "ran"]
      /\ ran' = [x \in Keys |-> IF x = k THEN ran[x] + 1 ELSE ran[x]]
  BY DEF HandlerCommits
<1>3. attempt \in [Attempts -> Attempt] /\ ran \in [Keys -> Nat]
  BY DEF KeysInv, KeysTypeOK
<1>4. attempt' \in [Attempts -> Attempt]
  BY <1>2, <1>3 DEF Attempt
<1>5. KeysTypeOK'
  BY <1>2, <1>3, <1>4 DEF KeysInv, KeysTypeOK
<1>6. \A s \in Attempts : /\ attempt'[s].key = attempt[s].key
                          /\ s # r => attempt'[s] = attempt[s]
                          /\ s = r => attempt'[s].step = "ran"
  BY <1>2, <1>3 DEF Attempt
<1>7. ASSUME NEW x \in Keys \ excused'
      PROVE  Alone(x)' /\ AnsweredForGood(x)' /\ Accounted(x)'
  <2>1. x \in Keys \ excused
    BY <1>2, <1>7
  <2>2. Alone(x) /\ AnsweredForGood(x) /\ Accounted(x)
    BY <2>1 DEF KeysInv
  <2>3. Alone(x)'
    BY <2>2, <1>1, <1>6 DEF Alone
  <2>4. AnsweredForGood(x)'
    BY <2>2, <1>1, <1>2, <1>6 DEF AnsweredForGood
  <2>5. CASE x # k
    <3>1. ran'[x] = ran[x]
      BY <2>1, <2>5, <1>2
    <3>2. Accounted(x)'
      BY <2>2, <2>5, <1>1, <1>2, <1>6, <3>1 DEF Accounted
    <3> QED BY <2>3, <2>4, <3>2
  <2>6. CASE x = k
    <3>1. x \notin stored
      BY <2>2, <2>6, <1>1 DEF AnsweredForGood
    <3>2. \A s \in Attempts : attempt[s].step = "ran" => attempt[s].key # x
      BY <2>2, <2>6, <1>1 DEF Alone
    <3>3. ran[x] = 0
      BY <2>2, <3>1, <3>2 DEF Accounted
    <3>4. ran'[x] = 1
      BY <2>1, <2>6, <1>2, <3>3
    <3>5. Accounted(x)'
      BY <2>6, <1>6, <3>4 DEF Accounted
    <3> QED BY <2>3, <2>4, <3>5
  <2> QED BY <2>5, <2>6
<1> QED BY <1>5, <1>7 DEF KeysInv

\* An attempt that ends leaves the others as they were.
LEMMA LeaveKeeps ==
    ASSUME KeysInv, NEW r \in Attempts,
           HandlerFails(r) \/ StoreAnswer(r) \/ AnswerLost(r)
    PROVE  KeysInv'
<1>1. attempt' = [attempt EXCEPT ![r] = Away] /\ ran' = ran
  BY DEF HandlerFails, StoreAnswer, AnswerLost
<1>2. attempt \in [Attempts -> Attempt] /\ attempt[r].step # "idle"
  BY DEF KeysInv, KeysTypeOK, HandlerFails, StoreAnswer, AnswerLost
<1>3. attempt[r].key \in Keys \union {NoKey}
  BY <1>2 DEF Attempt
<1>4. stored \subseteq stored' /\ stored' \subseteq stored \union {attempt[r].key}
  BY KeysAssumption DEF HandlerFails, StoreAnswer, AnswerLost, KeysInv, KeysTypeOK
<1>5. excused \subseteq excused' /\ excused' \subseteq excused \union {attempt[r].key}
  BY DEF HandlerFails, StoreAnswer, AnswerLost
<1>6. stored' \subseteq Keys
  BY <1>3 DEF HandlerFails, StoreAnswer, AnswerLost, KeysInv, KeysTypeOK
<1>7. KeysTypeOK'
  BY <1>1, <1>2, <1>3, <1>5, <1>6 DEF KeysInv, KeysTypeOK, Attempt, Away
<1>8. \A s \in Attempts : /\ s # r => attempt'[s] = attempt[s]
                          /\ s = r => attempt'[s].step = "idle"
  BY <1>1, <1>2 DEF Away
<1>9. ASSUME NEW x \in Keys \ excused'
      PROVE  Alone(x)' /\ AnsweredForGood(x)' /\ Accounted(x)'
  <2>1. x \in Keys \ excused
    BY <1>5, <1>9
  <2>2. Alone(x) /\ AnsweredForGood(x) /\ Accounted(x)
    BY <2>1 DEF KeysInv
  <2>3. Alone(x)'
    BY <2>2, <1>8 DEF Alone
  <2>4. AnsweredForGood(x)'
    BY <2>2, <1>2, <1>4, <1>8 DEF AnsweredForGood, Alone
  <2>5. CASE attempt[r].step = "ran" /\ attempt[r].key = x
    <3>1. StoreAnswer(r)
      BY <2>5, <1>9 DEF HandlerFails, AnswerLost
    <3>2. x \in stored'
      BY <2>5, <3>1, <1>9, KeysAssumption DEF StoreAnswer
    <3>3. Accounted(x)'
      BY <2>2, <3>2, <1>1 DEF Accounted
    <3> QED BY <2>3, <2>4, <3>3
  <2>6. CASE ~(attempt[r].step = "ran" /\ attempt[r].key = x)
    <3>1. Accounted(x)'
      BY <2>2, <2>6, <1>1, <1>4, <1>8 DEF Accounted
    <3> QED BY <2>3, <2>4, <3>1
  <2> QED BY <2>5, <2>6
<1> QED BY <1>7, <1>9 DEF KeysInv

LEMMA KeysStep == KeysInv /\ [KeysNext]_keyVars => KeysInv'
<1> SUFFICES ASSUME KeysInv, [KeysNext]_keyVars PROVE KeysInv'
  OBVIOUS
<1>1. CASE UNCHANGED keyVars
  BY <1>1 DEF keyVars, KeysInv, KeysTypeOK, Alone, AnsweredForGood, Accounted
<1>2. ASSUME NEW r \in Attempts, NEW k \in Keys \union {NoKey}, LookUp(r, k)
      PROVE  KeysInv'
  BY <1>2, LookUpKeeps
<1>3. ASSUME NEW r \in Attempts, HandlerCommits(r) PROVE KeysInv'
  BY <1>3, CommitKeeps
<1>4. ASSUME NEW r \in Attempts, HandlerFails(r) \/ StoreAnswer(r) \/ AnswerLost(r)
      PROVE  KeysInv'
  BY <1>4, LeaveKeeps
<1> QED BY <1>1, <1>2, <1>3, <1>4 DEF KeysNext

LEMMA InvRunsOnce == KeysInv => RunsOnce
  BY SMT DEF KeysInv, RunsOnce, Accounted

\* The handler behind a key commits once, unless two attempts on the key
\* overlapped or an answer was lost after its commit.
THEOREM KeysRunOnce == KeysSpec => []RunsOnce
<1>1. KeysSpec => []KeysInv
  BY KeysStart, KeysStep, PTL DEF KeysSpec
<1> QED BY <1>1, InvRunsOnce, PTL

-----------------------------------------------------------------------------
(* Collections uses the keys as Idempotency says *)

-----------------------------------------------------------------------------
(* Part 2: installment invoices *)

LEMMA StepUsesKeys ==
    ASSUME NEW r \in Attempts, Step(r)
    PROVE  [KeysNext]_keyVars
<1>1. CASE AskToPay(r)
  BY <1>1 DEF AskToPay, KeysNext
<1>2. CASE AskToCollect(r) \/ AskToCancel(r) \/ AskToRestore(r)
  BY <1>2 DEF AskToCollect, AskToCancel, AskToRestore
<1>3. CASE ReadSale(r) \/ ReadPlan(r) \/ LinkAction(r) \/ ActionLost(r)
  BY <1>3 DEF ReadSale, ReadPlan, LinkAction, ActionLost
<1>4. CASE CommitPayment(r)
  <2>1. HandlerCommits(r) \/ UNCHANGED keyVars
    BY <1>4 DEF CommitPayment
  <2> QED BY <2>1 DEF KeysNext
<1>5. CASE Answered(r)
  <2>1. StoreAnswer(r) \/ AnswerLost(r)
    BY <1>5 DEF Answered
  <2> QED BY <2>1 DEF KeysNext
<1>6. CASE CommitCancel(r) \/ CommitRestore(r)
  BY <1>6 DEF CommitCancel, CommitRestore
<1>7. CASE Abort(r)
  <2>1. HandlerFails(r) \/ UNCHANGED keyVars
    BY <1>7 DEF Abort
  <2> QED BY <2>1 DEF KeysNext
<1> QED BY <1>1, <1>2, <1>3, <1>4, <1>5, <1>6, <1>7 DEF Step

\* The payments of an installment invoice, with their reads, commits,
\* failures and lost answers, follow the key protocol step by step.
THEOREM PaymentsUseKeys == Spec => KeysSpec
<1>1. Init => KeysInit
  BY DEF Init
<1>2. [Next]_vars => [KeysNext]_keyVars
  <2> SUFFICES ASSUME [Next]_vars PROVE [KeysNext]_keyVars
    OBVIOUS
  <2>1. CASE UNCHANGED vars
    BY <2>1 DEF vars
  <2>2. CASE Create
    BY <2>2 DEF Create
  <2>3. ASSUME NEW r \in Attempts, Step(r) PROVE [KeysNext]_keyVars
    BY <2>3, StepUsesKeys
  <2> QED BY <2>1, <2>2, <2>3 DEF Next
<1> QED BY <1>1, <1>2, PTL DEF Spec, KeysSpec

\* However clients retry a payment under one key, it is booked once, unless
\* two of the attempts overlapped or an answer was lost after its commit.
THEOREM PaysOnce == Spec => []RunsOnce
  BY PaymentsUseKeys, KeysRunOnce, PTL

-----------------------------------------------------------------------------
(* What an allocation of Collections does to the plan *)

\* What is left, and the plan, after the installments at some places of the
\* order have taken their parts.
Spreads(order, base, T, g) ==
    g = [s \in SUBSET T |->
            IF s = {} THEN base ELSE TakePart(g[s \ {Max(s)}], order[Max(s)])]

Spread(order, base, T) == CHOOSE g : Spreads(order, base, T, g)

Places(S) == IsFiniteSet(S) /\ S \subseteq Int

LEMMA PlacesPart ==
    ASSUME NEW S, Places(S), NEW T, T \in SUBSET S
    PROVE  Places(T) /\ IsFiniteSet(S)
BY FS_Subset DEF Places

LEMMA FoldIsSpread ==
    ASSUME NEW order, NEW base
    PROVE  FoldLeft(TakePart, base, order)
             = Spread(order, base, DOMAIN order)[DOMAIN order]
BY DEF FoldLeft, MapThenFoldSet, Spread, Spreads

LEMMA SpreadsStep ==
    ASSUME NEW order, NEW base, NEW T, NEW g, Spreads(order, base, T, g),
           NEW U \in SUBSET T
    PROVE  g[U] = IF U = {} THEN base
                  ELSE TakePart(g[U \ {Max(U)}], order[Max(U)])
BY DEF Spreads

LEMMA MaxIn ==
    ASSUME NEW S, Places(S), S # {}
    PROVE  Max(S) \in S
<1> DEFINE Bad == {T \in SUBSET S : T # {} /\ ~ \E x \in T : \A y \in T : x >= y}
<1> SUFFICES ASSUME ~ \E x \in S : \A y \in S : x >= y PROVE FALSE
  BY DEF Max
<1>0. Bad \in SUBSET (SUBSET S) /\ S \in Bad /\ IsFiniteSet(S)
  BY DEF Places
<1>1. PICK T \in Bad : \A U \in SUBSET T : U # T => U \notin Bad
  <2> HIDE DEF Bad
  <2> QED
    BY <1>0, Smallest
<1> USE DEF Places
<1>2. PICK z \in T : TRUE
  OBVIOUS
<1> DEFINE R == T \ {z}
<1>3. R \in SUBSET T /\ R # T
  OBVIOUS
<1>4. CASE R = {}
  <2>1. T = {z} /\ z \in Int
    BY <1>2, <1>4
  <2> QED
    BY <2>1
<1>5. CASE R # {}
  <2>1. PICK x \in R : \A y \in R : x >= y
    BY <1>1, <1>3, <1>5
  <2>2. x \in Int /\ z \in Int /\ x \in T
    BY <2>1
  <2>3. CASE x >= z
    <3>1. \A y \in T : x >= y
      BY <2>1, <2>3
    <3> QED
      BY <2>2, <3>1
  <2>4. CASE ~ (x >= z)
    <3>1. \A y \in T : y \in Int /\ z >= y
      BY <2>1, <2>2, <2>4
    <3> QED
      BY <1>2, <3>1
  <2> QED
    BY <2>3, <2>4
<1> QED
  BY <1>4, <1>5

LEMMA SpreadsAgree ==
    ASSUME NEW order, NEW base, NEW T, Places(T),
           NEW g, NEW h, NEW V,
           Spreads(order, base, T, g), Spreads(order, base, V, h)
    PROVE  \A U \in SUBSET T : U \subseteq V => g[U] = h[U]
<1> DEFINE Bad == {U \in SUBSET T : U \subseteq V /\ g[U] # h[U]}
<1> SUFFICES ASSUME NEW U0 \in SUBSET T, U0 \subseteq V, g[U0] # h[U0] PROVE FALSE
  OBVIOUS
<1>0. Bad \in SUBSET (SUBSET T) /\ U0 \in Bad /\ IsFiniteSet(T)
  BY PlacesPart
<1>1. PICK U \in Bad : \A W \in SUBSET U : W # U => W \notin Bad
  <2> HIDE DEF Bad
  <2> QED
    BY <1>0, Smallest
<1>2. U \in SUBSET T /\ U \in SUBSET V /\ Places(U)
  BY PlacesPart
<1>3. g[U] = IF U = {} THEN base ELSE TakePart(g[U \ {Max(U)}], order[Max(U)])
  <2> HIDE DEF Bad
  <2> QED
    BY <1>2, SpreadsStep
<1>4. h[U] = IF U = {} THEN base ELSE TakePart(h[U \ {Max(U)}], order[Max(U)])
  <2> HIDE DEF Bad
  <2> QED
    BY <1>2, SpreadsStep
<1>5. CASE U = {}
  BY <1>3, <1>4, <1>5
<1>6. CASE U # {}
  <2>1. U \ {Max(U)} \in SUBSET U /\ U \ {Max(U)} # U
    BY <1>2, <1>6, MaxIn
  <2>2. g[U \ {Max(U)}] = h[U \ {Max(U)}]
    BY <1>1, <2>1
  <2> QED
    BY <1>3, <1>4, <1>6, <2>2
<1> QED
  BY <1>5, <1>6

LEMMA SpreadExists ==
    ASSUME NEW order, NEW base, NEW S, Places(S)
    PROVE  \A T \in SUBSET S : Spreads(order, base, T, Spread(order, base, T))
<1> DEFINE Bad == {T \in SUBSET S : ~ Spreads(order, base, T, Spread(order, base, T))}
<1> SUFFICES ASSUME NEW T0 \in SUBSET S,
                    ~ Spreads(order, base, T0, Spread(order, base, T0))
             PROVE  FALSE
  OBVIOUS
<1>0. Bad \in SUBSET (SUBSET S) /\ T0 \in Bad /\ IsFiniteSet(S)
  BY PlacesPart
<1>1. PICK T \in Bad : \A U \in SUBSET T : U # T => U \notin Bad
  <2> HIDE DEF Bad
  <2> QED
    BY <1>0, Smallest
<1>2. ASSUME NEW U \in SUBSET T, U # T
      PROVE  Spreads(order, base, U, Spread(order, base, U))
  BY <1>1, <1>2
<1> DEFINE Val(U) == Spread(order, base, U)[U]
           g == [U \in SUBSET T |->
                    IF U = {} THEN base ELSE TakePart(Val(U \ {Max(U)}), order[Max(U)])]
<1>3. ASSUME NEW U \in SUBSET T, U # T PROVE g[U] = Val(U)
  <2>0. Places(U)
    BY PlacesPart, U \in SUBSET S
  <2>1. Spreads(order, base, U, Spread(order, base, U))
    BY <1>2, <1>3
  <2>2. CASE U = {}
    BY <2>1, <2>2, SpreadsStep
  <2>3. CASE U # {}
    <3> DEFINE W == U \ {Max(U)}
    <3>1. W \in SUBSET T /\ W # T /\ W \in SUBSET U
      BY <2>0, <2>3, MaxIn, <1>3
    <3>2. Spreads(order, base, W, Spread(order, base, W))
      BY <1>2, <3>1
    <3>3. Places(W)
      BY <2>0, <3>1, PlacesPart
    <3>4. Spread(order, base, U)[W] = Spread(order, base, W)[W]
      BY <2>0, <2>1, <3>1, <3>2, SpreadsAgree
    <3>5. Val(U) = TakePart(Spread(order, base, U)[W], order[Max(U)])
      BY <2>1, <2>3, SpreadsStep
    <3> QED
      BY <2>3, <3>4, <3>5
  <2> QED
    BY <2>2, <2>3
<1>4. Spreads(order, base, T, g)
  <2>1. ASSUME NEW U \in SUBSET T, U # {}
        PROVE  g[U \ {Max(U)}] = Val(U \ {Max(U)})
    <3>1. U \ {Max(U)} \in SUBSET T /\ U \ {Max(U)} # T
      <4>1. Places(U)
        BY PlacesPart, U \in SUBSET S
      <4> QED
        BY <2>1, <4>1, MaxIn
    <3> QED
      BY <1>3, <3>1
  <2>2. g = [U \in SUBSET T |->
                IF U = {} THEN base ELSE TakePart(g[U \ {Max(U)}], order[Max(U)])]
    BY <2>1
  <2> HIDE DEF g
  <2> QED
    BY <2>2 DEF Spreads
<1>5. Spreads(order, base, T, Spread(order, base, T))
  BY <1>4 DEF Spread
<1> QED
  BY <1>1, <1>5

-----------------------------------------------------------------------------
(* Installments and what they add up to *)

LEMMA NumbersFinite == IsFiniteSet(Numbers) /\ Places(Numbers)
BY CollectionsAssumption, FS_Interval DEF Numbers, Places

LeftIn(p) == SumOver([i \in Numbers |-> p[i].remaining], Numbers)
PaidIn(p) == SumOver([i \in Numbers |-> p[i].paid], Numbers)

\* What holds of an installment at any time, and of a copy some request has.
RowOK(row) ==
    /\ row.status = "none" => row = NoInstallment
    /\ row.status = "paid" => row.remaining = 0
    /\ row.due >= 0 => row.remaining >= 0
    /\ row.due > 0 /\ row.status \in {"pending", "cancelled"} => row.remaining > 0

\* What an allocation may make of an installment.
Follows(old, new) ==
    /\ RowOK(new)
    /\ new.due = old.due
    /\ old.due >= 0 => old.paid <= new.paid
    /\ old.status = "none" => new = old
    /\ new.status = "cancelled" => new = old

LEMMA InstallmentFields ==
    ASSUME NEW row \in Installment
    PROVE  /\ row.status \in {"none", "pending", "paid", "cancelled"}
           /\ row.due \in Int /\ row.paid \in Int /\ row.remaining \in Int
BY DEF Installment

\* A plan that differs in one installment.
LEMMA PlanChanges ==
    ASSUME NEW p \in Plan, NEW q \in Plan, NEW i \in Numbers,
           \A j \in Numbers : j # i => q[j] = p[j]
    PROVE  /\ LeftIn(p) \in Int /\ PaidIn(p) \in Int
           /\ LeftIn(q) = LeftIn(p) + q[i].remaining - p[i].remaining
           /\ PaidIn(q) = PaidIn(p) + q[i].paid - p[i].paid
<1> DEFINE f == [j \in Numbers |-> p[j].remaining]
           g == [j \in Numbers |-> q[j].remaining]
           h == [j \in Numbers |-> p[j].paid]
           k == [j \in Numbers |-> q[j].paid]
<1>1. \A j \in Numbers : p[j] \in Installment /\ q[j] \in Installment
  BY DEF Plan
<1>2. \A j \in Numbers : /\ f[j] \in Int /\ g[j] \in Int
                         /\ h[j] \in Int /\ k[j] \in Int
  BY <1>1, InstallmentFields
<1>3. \A j \in Numbers : j # i => f[j] = g[j] /\ h[j] = k[j]
  OBVIOUS
<1>4. /\ f[i] = p[i].remaining /\ g[i] = q[i].remaining
      /\ h[i] = p[i].paid /\ k[i] = q[i].paid
  OBVIOUS
<1> HIDE DEF f, g, h, k
<1>5. SumOver(f, Numbers) \in Int /\ SumOver(h, Numbers) \in Int
  BY <1>2, NumbersFinite, SumInt
<1>6. SumOver(g, Numbers) = SumOver(f, Numbers) + g[i] - f[i]
  BY <1>2, <1>3, NumbersFinite, SumChange
<1>7. SumOver(k, Numbers) = SumOver(h, Numbers) + k[i] - h[i]
  BY <1>2, <1>3, NumbersFinite, SumChange
<1> QED
  BY <1>4, <1>5, <1>6, <1>7 DEF LeftIn, PaidIn, f, g, h, k

LEMMA PaidIntoRow ==
    ASSUME NEW row \in Installment, NEW part \in Int,
           NEW new, new = PaidInto(row, part)
    PROVE  /\ new \in Installment
           /\ new.due = row.due
           /\ new.paid = row.paid + part
           /\ new.remaining = row.remaining - part
           /\ new.status = IF row.remaining - part <= 0 THEN "paid" ELSE "pending"
<1> DEFINE p == row.paid + part
           m == row.remaining - part
           s == IF row.remaining - part <= 0 THEN "paid" ELSE "pending"
<1>1. p \in Int /\ m \in Int /\ s \in {"none", "pending", "paid", "cancelled"}
  BY InstallmentFields
<1>2. new = [row EXCEPT !.paid = p, !.remaining = m, !.status = s]
  BY DEF PaidInto
<1> HIDE DEF p, m, s
<1>3. new \in Installment
  BY <1>1, <1>2 DEF Installment
<1>4. new.due = row.due /\ new.paid = p /\ new.remaining = m /\ new.status = s
  BY <1>2 DEF Installment
<1> QED
  BY <1>3, <1>4 DEF p, m, s

\* The fold so far: every installment is as the allocation may make it, what
\* was paid came out of the amount, and while some of it is left those that
\* have been visited ask for nothing more.
Spreading(p, amount, seen, acc) ==
    /\ acc.left \in Nat
    /\ acc.plan \in Plan
    /\ \A i \in Numbers : Follows(p[i], acc.plan[i])
    /\ LeftIn(acc.plan) = LeftIn(p) - amount + acc.left
    /\ PaidIn(acc.plan) = PaidIn(p) + amount - acc.left
    /\ acc.left > 0 => \A i \in seen : acc.plan[i].remaining = 0

LEMMA TakePartSpreads ==
    ASSUME NEW p \in Plan, NEW amount \in Nat, NEW seen, seen \subseteq Numbers,
           NEW acc, Spreading(p, amount, seen, acc),
           NEW i \in Numbers, p[i].status # "none"
    PROVE  Spreading(p, amount, seen \union {i}, TakePart(acc, i))
<1> DEFINE row == acc.plan[i]
           part == Least(acc.left, row.remaining)
           new == PaidInto(row, part)
           next == [acc.plan EXCEPT ![i] = new]
<1>1. /\ acc.left \in Nat /\ acc.plan \in Plan
      /\ \A j \in Numbers : Follows(p[j], acc.plan[j])
      /\ LeftIn(acc.plan) = LeftIn(p) - amount + acc.left
      /\ PaidIn(acc.plan) = PaidIn(p) + amount - acc.left
      /\ acc.left > 0 => \A j \in seen : acc.plan[j].remaining = 0
  BY DEF Spreading
<1>2. row \in Installment /\ p[i] \in Installment
  BY <1>1 DEF Plan
<1>3. Follows(p[i], row)
  BY <1>1
<1>4. CASE acc.left <= 0 \/ row.status = "paid"
  <2>1. TakePart(acc, i) = acc
    BY <1>4 DEF TakePart
  <2>2. acc.left > 0 => acc.plan[i].remaining = 0
    <3>1. RowOK(row)
      BY <1>3 DEF Follows
    <3> QED
      BY <1>1, <1>4, <3>1 DEF RowOK
  <2>3. acc.left > 0 => \A j \in seen \union {i} : acc.plan[j].remaining = 0
    BY <1>1, <2>2
  <2> QED
    BY <1>1, <2>1, <2>3 DEF Spreading
<1>5. CASE acc.left > 0 /\ row.status # "paid"
  <2>1. TakePart(acc, i) = [left |-> acc.left - part, plan |-> next]
    BY <1>1, <1>5 DEF TakePart
  <2>2. row.remaining \in Int /\ row.paid \in Int /\ row.due \in Int
    BY <1>2, InstallmentFields
  <2>3. /\ part \in Int /\ acc.left - part \in Nat
        /\ row.remaining - part >= 0
        /\ acc.left - part > 0 => part = row.remaining
        /\ row.remaining >= 0 => part >= 0
    BY <1>1, <2>2 DEF Least
  <2> HIDE DEF part, row
  <2>4. /\ new \in Installment
        /\ new.due = row.due /\ new.paid = row.paid + part
        /\ new.remaining = row.remaining - part
        /\ new.status = IF row.remaining - part <= 0 THEN "paid" ELSE "pending"
    BY <1>2, <2>3, PaidIntoRow
  <2> HIDE DEF new
  <2>5. /\ next \in Plan /\ next[i] = new
        /\ \A j \in Numbers : j # i => next[j] = acc.plan[j]
    BY <1>1, <2>4 DEF Plan
  <2> HIDE DEF next
  <2>6. /\ LeftIn(acc.plan) \in Int /\ PaidIn(acc.plan) \in Int
        /\ LeftIn(next) = LeftIn(acc.plan) + next[i].remaining - acc.plan[i].remaining
        /\ PaidIn(next) = PaidIn(acc.plan) + next[i].paid - acc.plan[i].paid
    BY <1>1, <2>5, PlanChanges
  <2>7. LeftIn(p) \in Int /\ PaidIn(p) \in Int
    BY PlanChanges
  <2>8. LeftIn(next) = LeftIn(p) - amount + (acc.left - part)
    <3>1. next[i].remaining = row.remaining - part /\ acc.plan[i].remaining = row.remaining
      BY <2>4, <2>5 DEF row
    <3> QED
      BY <1>1, <2>2, <2>3, <2>6, <2>7, <3>1
  <2>9. PaidIn(next) = PaidIn(p) + amount - (acc.left - part)
    <3>1. next[i].paid = row.paid + part /\ acc.plan[i].paid = row.paid
      BY <2>4, <2>5 DEF row
    <3> QED
      BY <1>1, <2>2, <2>3, <2>6, <2>7, <3>1
  <2>10. Follows(p[i], new)
    <3>1. /\ row.due = p[i].due /\ RowOK(row)
          /\ p[i].due >= 0 => p[i].paid <= row.paid
      BY <1>3 DEF Follows
    <3>2. row.due >= 0 => row.remaining >= 0
      BY <3>1 DEF RowOK
    <3>3. p[i].due \in Int /\ p[i].paid \in Int
      BY <1>2, InstallmentFields
    <3>4. p[i].due >= 0 => p[i].paid <= new.paid
      BY <2>2, <2>3, <2>4, <3>1, <3>2, <3>3
    <3>5. new.status \in {"paid", "pending"}
      BY <2>4
    <3>6. new.status = "paid" => new.remaining = 0
      BY <2>2, <2>3, <2>4
    <3>7. new.status = "pending" => new.remaining > 0
      BY <2>2, <2>3, <2>4
    <3>8. new.due >= 0 => new.remaining >= 0
      BY <2>3, <2>4
    <3>9. RowOK(new)
      BY <3>5, <3>6, <3>7, <3>8 DEF RowOK
    <3> QED
      BY <2>4, <3>1, <3>4, <3>5, <3>9 DEF Follows
  <2>11. \A j \in Numbers : Follows(p[j], next[j])
    BY <1>1, <2>5, <2>10
  <2>12. acc.left - part > 0 => \A j \in seen \union {i} : next[j].remaining = 0
    <3> SUFFICES ASSUME acc.left - part > 0, NEW j \in seen \union {i}
                 PROVE  next[j].remaining = 0
      OBVIOUS
    <3>1. CASE j = i
      BY <2>2, <2>3, <2>4, <2>5, <3>1
    <3>2. CASE j # i
      BY <1>1, <1>5, <2>5, <3>2
    <3> QED
      BY <3>1, <3>2
  <2>13. /\ TakePart(acc, i).left = acc.left - part
         /\ TakePart(acc, i).plan = next
    BY <2>1
  <2> QED
    BY <2>3, <2>5, <2>8, <2>9, <2>11, <2>12, <2>13 DEF Spreading
<1> QED
  BY <1>1, <1>4, <1>5

Visited(order, s) == {order[j] : j \in s}

LEMMA SpreadFollows ==
    ASSUME NEW p \in Plan, \A i \in Numbers : RowOK(p[i]), NEW amount \in Nat,
           NEW order, NEW D, Places(D),
           \A j \in D : order[j] \in Numbers /\ p[order[j]].status # "none",
           NEW base, base = [left |-> amount, plan |-> p]
    PROVE  Spreading(p, amount, Visited(order, D), Spread(order, base, D)[D])
<1> DEFINE g == Spread(order, base, D)
           OK(s) == Spreading(p, amount, Visited(order, s), g[s])
           Bad == {s \in SUBSET D : ~ OK(s)}
<1> SUFFICES ASSUME ~ OK(D) PROVE FALSE
  OBVIOUS
<1>0. Bad \in SUBSET (SUBSET D) /\ D \in Bad /\ IsFiniteSet(D)
  BY PlacesPart
<1>1. PICK s \in Bad : \A U \in SUBSET s : U # s => U \notin Bad
  <2> HIDE DEF Bad
  <2> QED
    BY <1>0, Smallest
<1>2. Spreads(order, base, D, g)
  BY SpreadExists
<1> HIDE DEF g
<1>3. s \in SUBSET D /\ Places(s)
  BY PlacesPart
<1>4. g[s] = IF s = {} THEN base ELSE TakePart(g[s \ {Max(s)}], order[Max(s)])
  BY <1>2, <1>3, SpreadsStep
<1>5. CASE s = {}
  <2>1. g[s].left = amount /\ g[s].plan = p
    BY <1>4, <1>5
  <2>2. LeftIn(p) \in Int /\ PaidIn(p) \in Int
    <3>1. PICK i \in Numbers : TRUE
      BY CollectionsAssumption DEF Numbers
    <3> QED
      BY <3>1, PlanChanges
  <2>3. \A i \in Numbers : Follows(p[i], p[i])
    <3> SUFFICES ASSUME NEW i \in Numbers PROVE Follows(p[i], p[i])
      OBVIOUS
    <3>1. p[i].paid \in Int
      BY InstallmentFields DEF Plan
    <3> QED
      BY <3>1 DEF Follows
  <2>4. Visited(order, s) = {}
    BY <1>5 DEF Visited
  <2>5. /\ LeftIn(p) = LeftIn(p) - amount + amount
        /\ PaidIn(p) = PaidIn(p) + amount - amount
    BY <2>2
  <2> QED
    BY <2>1, <2>3, <2>4, <2>5 DEF Spreading
<1>6. CASE s # {}
  <2> DEFINE m == Max(s)
             r == s \ {m}
             i == order[m]
  <2>1. m \in s
    BY <1>3, <1>6, MaxIn
  <2> HIDE DEF m
  <2>2. r \in SUBSET s /\ r # s /\ r \in SUBSET D
    BY <1>3, <2>1
  <2>3. OK(r)
    BY <1>1, <2>2
  <2>4. i \in Numbers /\ p[i].status # "none"
    BY <1>3, <2>1
  <2>5. Visited(order, r) \subseteq Numbers
    BY <2>2 DEF Visited
  <2>6. Visited(order, s) = Visited(order, r) \union {i}
    BY <2>1 DEF Visited
  <2>7. g[s] = TakePart(g[r], i)
    BY <1>4, <1>6 DEF m
  <2> HIDE DEF r, i
  <2>8. Spreading(p, amount, Visited(order, r) \union {i}, TakePart(g[r], i))
    BY <2>3, <2>4, <2>5, TakePartSpreads
  <2> QED
    BY <2>6, <2>7, <2>8
<1> QED
  BY <1>5, <1>6

\* A sequence of a set's members without repetition has them all.
LEMMA SequenceHasAll ==
    ASSUME NEW S, IsFiniteSet(S), NEW order \in SetToSeqs(S)
    PROVE  /\ Places(DOMAIN order)
           /\ \A j \in DOMAIN order : order[j] \in S
           /\ Visited(order, DOMAIN order) = S
<1> DEFINE D == 1..Cardinality(S)
<1>1. /\ order \in [D -> S]
      /\ \A i, j \in D : i # j => order[i] # order[j]
  BY DEF SetToSeqs
<1>2. Cardinality(S) \in Nat
  BY FS_CardinalityType
<1>3. IsFiniteSet(D) /\ Cardinality(D) = Cardinality(S) /\ D \subseteq Int
  BY <1>2, FS_Interval
<1>4. order \in Injection(D, S)
  BY <1>1 DEF Injection, IsInjective
<1>5. order \in Surjection(D, S)
  BY <1>3, <1>4, FS_Injection
<1> HIDE DEF D
<1>6. \A x \in S : \E j \in D : order[j] = x
  BY <1>5 DEF Surjection
<1>7. DOMAIN order = D
  BY <1>1
<1> QED
  BY <1>1, <1>3, <1>6, <1>7 DEF Places, Visited

LEMMA Allocated ==
    ASSUME NEW p \in Plan, \A i \in Numbers : RowOK(p[i]), NEW amount \in Nat,
           NEW after \in Allocations(p, amount)
    PROVE  \E left \in Nat :
              /\ after \in Plan
              /\ \A i \in Numbers : Follows(p[i], after[i])
              /\ LeftIn(after) = LeftIn(p) - amount + left
              /\ PaidIn(after) = PaidIn(p) + amount - left
              /\ left > 0 => LeftIn(after) = 0
<1> DEFINE known == {i \in Numbers : p[i].status # "none"}
           base == [left |-> amount, plan |-> p]
<1>1. PICK order \in SetToSeqs(known) :
         after = FoldLeft(TakePart, base, order).plan
  BY DEF Allocations
<1>2. IsFiniteSet(known)
  BY NumbersFinite, FS_Subset
<1>3. /\ Places(DOMAIN order)
      /\ \A j \in DOMAIN order : order[j] \in known
      /\ Visited(order, DOMAIN order) = known
  <2> HIDE DEF known
  <2> QED
    BY <1>2, SequenceHasAll
<1> DEFINE acc == Spread(order, base, DOMAIN order)[DOMAIN order]
<1>4. after = acc.plan
  BY <1>1, FoldIsSpread
<1>5. Spreading(p, amount, known, acc)
  <2>1. \A j \in DOMAIN order : order[j] \in Numbers /\ p[order[j]].status # "none"
    BY <1>3
  <2>2. base = [left |-> amount, plan |-> p]
    OBVIOUS
  <2> HIDE DEF base
  <2>3. Spreading(p, amount, Visited(order, DOMAIN order), acc)
    BY <1>3, <2>1, <2>2, SpreadFollows
  <2> QED
    BY <1>3, <2>3
<1> HIDE DEF acc, base
<1>6. /\ acc.left \in Nat /\ after \in Plan
      /\ \A i \in Numbers : Follows(p[i], after[i])
      /\ LeftIn(after) = LeftIn(p) - amount + acc.left
      /\ PaidIn(after) = PaidIn(p) + amount - acc.left
      /\ acc.left > 0 => \A i \in known : after[i].remaining = 0
  BY <1>4, <1>5 DEF Spreading
<1>7. ASSUME acc.left > 0 PROVE LeftIn(after) = 0
  <2> DEFINE f == [i \in Numbers |-> after[i].remaining]
  <2>1. \A i \in Numbers : after[i].remaining = 0
    <3> SUFFICES ASSUME NEW i \in Numbers PROVE after[i].remaining = 0
      OBVIOUS
    <3>1. CASE i \in known
      BY <1>6, <1>7, <3>1
    <3>2. CASE i \notin known
      <4>1. p[i].status = "none" /\ after[i] = p[i]
        BY <1>6, <3>2 DEF Follows
      <4>2. p[i] = NoInstallment
        BY <4>1 DEF RowOK
      <4> QED
        BY <4>1, <4>2 DEF NoInstallment
    <3> QED
      BY <3>1, <3>2
  <2>2. \A i \in Numbers : f[i] = 0
    BY <2>1
  <2> HIDE DEF f
  <2>3. SumOver(f, Numbers) = 0
    BY <2>2, NumbersFinite, SumZero
  <2> QED
    BY <2>3 DEF LeftIn, f
<1> QED
  BY <1>6, <1>7

\* The amount of one more row is added to the rest.
LEMMA SumAppend ==
    ASSUME NEW s \in Seq(Nat), NEW amount \in Nat
    PROVE  /\ SumOver(s, DOMAIN s) \in Nat
           /\ SumOver(Append(s, amount), DOMAIN Append(s, amount))
                = SumOver(s, DOMAIN s) + amount
<1> DEFINE e == Append(s, amount)
           n == Len(s) + 1
<1>1. /\ Len(s) \in Nat /\ DOMAIN s = 1..Len(s)
      /\ DOMAIN e = 1..n
      /\ e[n] = amount
      /\ \A i \in 1..Len(s) : e[i] = s[i] /\ s[i] \in Nat
  OBVIOUS
<1> HIDE DEF e
<1>2. /\ IsFiniteSet(DOMAIN s) /\ IsFiniteSet(DOMAIN e)
  BY <1>1, FS_Interval
<1>3. n \in DOMAIN e /\ DOMAIN e \ {n} = DOMAIN s
  BY <1>1
<1>4. \A i \in DOMAIN e : e[i] \in Int
  BY <1>1
<1>5. SumOver(e, DOMAIN e) = e[n] + SumOver(e, DOMAIN e \ {n})
  BY <1>2, <1>3, <1>4, SumRemove
<1>6. SumOver(e, DOMAIN s) = SumOver(s, DOMAIN s)
  BY <1>1, <1>2, SumSame
<1>7. SumOver(s, DOMAIN s) \in Nat
  BY <1>1, <1>2, SumNat
<1>8. SumOver(e, DOMAIN e) = SumOver(s, DOMAIN s) + amount
  <2>1. e[n] = amount
    BY <1>1
  <2>2. SumOver(e, DOMAIN e \ {n}) = SumOver(s, DOMAIN s)
    BY <1>3, <1>6
  <2> DEFINE all == SumOver(e, DOMAIN e)
             old == SumOver(s, DOMAIN s)
  <2>3. all = amount + old /\ old \in Nat
    BY <1>5, <1>7, <2>1, <2>2
  <2> HIDE DEF all, old
  <2>4. all = old + amount
    BY <2>3
  <2> QED
    BY <2>4 DEF all, old
<1> QED
  BY <1>7, <1>8 DEF e

-----------------------------------------------------------------------------
(* The schedule *)

LEMMA ShareInt ==
    ASSUME NEW left \in Nat, NEW count \in Numbers
    PROVE  Share(left, count) \in Int /\ count \in Nat \ {0}
BY CollectionsAssumption DEF Share, Numbers

LEMMA ScheduleRows ==
    ASSUME NEW left \in Nat, NEW count \in Numbers
    PROVE  /\ Schedule(left, count) \in Plan
           /\ \A i \in Numbers :
                /\ RowOK(Schedule(left, count)[i])
                /\ Schedule(left, count)[i].paid = 0
                /\ Schedule(left, count)[i].status \in {"none", "pending"}
                /\ Schedule(left, count)[i].remaining =
                      IF i < count THEN Share(left, count)
                      ELSE IF i = count THEN left - Share(left, count) * (count - 1)
                      ELSE 0
<1> DEFINE share == Share(left, count)
           last == left - share * (count - 1)
           s == Schedule(left, count)
<1>1. share \in Int /\ count \in Nat \ {0} /\ \A i \in Numbers : i \in Int
  BY ShareInt DEF Numbers
<1>2. last \in Int
  BY <1>1
<1>3. s = [i \in Numbers |->
            IF i > count THEN NoInstallment
            ELSE [status |-> "pending", due |-> IF i < count THEN share ELSE last,
                  paid |-> 0, remaining |-> IF i < count THEN share ELSE last]]
  BY DEF Schedule
<1> HIDE DEF share, last, s
<1>4. ASSUME NEW i \in Numbers
      PROVE  /\ s[i] \in Installment
             /\ RowOK(s[i])
             /\ s[i].paid = 0
             /\ s[i].status \in {"none", "pending"}
             /\ s[i].remaining = IF i < count THEN share
                                 ELSE IF i = count THEN last ELSE 0
  <2>1. CASE i > count
    <3>1. s[i] = NoInstallment
      BY <1>3, <2>1
    <3> QED
      BY <1>1, <2>1, <3>1 DEF NoInstallment, Installment, RowOK
  <2>2. CASE ~ (i > count)
    <3> DEFINE d == IF i < count THEN share ELSE last
    <3>1. s[i] = [status |-> "pending", due |-> d, paid |-> 0, remaining |-> d]
      BY <1>3, <2>2
    <3>2. d \in Int
      BY <1>1, <1>2
    <3>3. d = IF i < count THEN share ELSE IF i = count THEN last ELSE 0
      BY <1>1, <2>2
    <3> HIDE DEF d
    <3> QED
      BY <3>1, <3>2, <3>3 DEF Installment, RowOK
  <2> QED
    BY <2>1, <2>2
<1>5. s \in Plan
  BY <1>3, <1>4 DEF Plan
<1> QED
  BY <1>4, <1>5 DEF s, share, last

LEMMA ScheduleSum ==
    ASSUME NEW left \in Nat, NEW count \in Numbers
    PROVE  LeftIn(Schedule(left, count)) = left
<1> DEFINE s == Schedule(left, count)
           share == Share(left, count)
           f == [i \in Numbers |-> s[i].remaining]
           first == 1..(count - 1)
           k == [i \in first |-> share]
           rest == Numbers \ {count}
<1>0. /\ share \in Int /\ count \in Nat \ {0} /\ count <= MaxCount
      /\ MaxCount \in Nat /\ IsFiniteSet(first)
      /\ Cardinality(first) = count - 1
  BY ShareInt, CollectionsAssumption, FS_Interval DEF Numbers
<1>1. \A i \in Numbers :
         f[i] = IF i < count THEN share
                ELSE IF i = count THEN left - share * (count - 1) ELSE 0
  BY ScheduleRows
<1>2. left - share * (count - 1) \in Int
  BY <1>0
<1>3. /\ first \in SUBSET rest
      /\ \A i \in rest : i \in first <=> i < count
  BY <1>0 DEF Numbers
<1>4. /\ IsFiniteSet(rest) /\ IsFiniteSet(Numbers)
  BY NumbersFinite, FS_Subset
<1> HIDE DEF s, share, f
<1>5. \A i \in Numbers : f[i] \in Int
  BY <1>0, <1>1, <1>2
<1>6. SumOver(f, Numbers) = f[count] + SumOver(f, rest)
  BY <1>4, <1>5, SumRemove
<1>7. \A i \in first : k[i] = share
  OBVIOUS
<1> DEFINE z == [i \in rest |-> share]
<1>8. SumOver(z, first) = SumOver(f, rest)
  <2>1. \A i \in rest : z[i] \in Int /\ f[i] = IF i \in first THEN z[i] ELSE 0
    BY <1>0, <1>1, <1>3
  <2> HIDE DEF z, first
  <2> QED
    BY <1>3, <1>4, <2>1, SumPart
<1>9. SumOver(z, first) = share * Cardinality(first)
  <2>1. \A i \in first : z[i] = share
    BY <1>3
  <2> HIDE DEF z, first
  <2> QED
    BY <1>0, <2>1, SumConst
<1>10. f[count] = left - share * (count - 1)
  BY <1>0, <1>1
<1> QED
  BY <1>0, <1>2, <1>6, <1>8, <1>9, <1>10 DEF LeftIn, f, s

-----------------------------------------------------------------------------
(* The inductive invariant of every interleaving *)

RowsTyped ==
    /\ sale \in Sale /\ plan \in Plan
    /\ payments \in Seq(Nat) /\ debt \in Int
    /\ \A a \in actions : a.made \in Nat \ {0} /\ a.linked \in Nat \ {0}
    /\ req \in [Attempts -> Request]
    /\ handled \in 0..MaxRequests
    /\ calm \in BOOLEAN

Paying(t) == t.op \in {"pay", "collect"}
Holding(t) == Paying(t) /\ t.step = "read"

\* What a request has read and still holds, whatever came in between: the
\* shares of a schedule never change, and no payment starts from nothing.
Knows(t, s, p, n) ==
    /\ t.step = "idle" => t = Idle
    /\ t.step # "idle" => s.status # "absent"
    /\ t.step = "written" => Paying(t)
    /\ Holding(t) => /\ \A i \in Numbers : RowOK(t.plan[i]) /\ t.plan[i].due = p[i].due
                     /\ t.sale.remaining > 0
    /\ t.op = "collect" /\ t.step = "written" => t.payment \in 1..n

\* h is above every amount paid that the plan shows or some request has read.
Covers(h, p, q) ==
    /\ h \in [Numbers -> Nat]
    /\ \A i \in Numbers : p[i].paid <= h[i]
    /\ \A r \in Attempts : Holding(q[r]) => \A i \in Numbers : q[r].plan[i].paid <= h[i]

HighWater ==
    (\A i \in Numbers : plan[i].due >= 0) =>
        \E h \in [Numbers -> Nat] :
            Covers(h, plan, req) /\ SumOver(h, Numbers) <= Collected

PlanInv ==
    /\ RowsTyped
    /\ \A i \in Numbers : RowOK(plan[i])
    /\ \A r \in Attempts : Knows(req[r], sale, plan, Len(payments))
    /\ sale.status = "absent" => plan = NoPlan /\ debt = 0 /\ payments = <<>>
    /\ HighWater

LEMMA NothingTyped ==
    /\ NoInstallment \in Installment /\ NoPlan \in Plan
    /\ NoSale \in Sale /\ Idle \in Request
    /\ RowOK(NoInstallment)
<1>1. NoInstallment \in Installment /\ RowOK(NoInstallment)
  BY DEF NoInstallment, Installment, RowOK
<1>2. NoPlan \in Plan
  BY <1>1 DEF NoPlan, Plan
<1>3. NoSale \in Sale
  BY DEF NoSale, Sale
<1>4. Idle \in Request
  BY <1>2, <1>3 DEF Idle, Request
<1> QED
  BY <1>1, <1>2, <1>3, <1>4

LEMMA InstallmentsOf ==
    ASSUME NEW p \in Plan, NEW i \in Numbers
    PROVE  /\ p[i] \in Installment
           /\ p[i].due \in Int /\ p[i].paid \in Int /\ p[i].remaining \in Int
BY InstallmentFields DEF Plan

\* A request that reads, fails, answers or leaves changes only itself.
LEMMA VisitKeeps ==
    ASSUME PlanInv, NEW r \in Attempts,
           UNCHANGED <<sale, plan, payments, debt>>,
           \A a \in actions' : a.made \in Nat \ {0} /\ a.linked \in Nat \ {0},
           handled' \in 0..MaxRequests, calm' \in BOOLEAN,
           req' \in [Attempts -> Request],
           \A s \in Attempts : s # r => req'[s] = req[s],
           Knows(req'[r], sale, plan, Len(payments)),
           Holding(req'[r]) => req'[r].plan = plan
    PROVE  PlanInv'
<1>1. RowsTyped'
  BY DEF PlanInv, RowsTyped
<1>2. (\A i \in Numbers : RowOK(plan[i]))'
  BY DEF PlanInv
<1>3. (\A s \in Attempts : Knows(req[s], sale, plan, Len(payments)))'
  <2> SUFFICES ASSUME NEW s \in Attempts
               PROVE  Knows(req'[s], sale, plan, Len(payments))
    OBVIOUS
  <2>1. CASE s = r
    BY <2>1
  <2>2. CASE s # r
    BY <2>2 DEF PlanInv
  <2> QED
    BY <2>1, <2>2
<1>4. (sale.status = "absent" => plan = NoPlan /\ debt = 0 /\ payments = <<>>)'
  BY DEF PlanInv
<1>5. HighWater'
  <2> SUFFICES ASSUME \A i \in Numbers : plan[i].due >= 0
               PROVE  \E h \in [Numbers -> Nat] :
                          Covers(h, plan, req') /\ SumOver(h, Numbers) <= Collected
    BY DEF HighWater, Collected
  <2>1. PICK h \in [Numbers -> Nat] :
           Covers(h, plan, req) /\ SumOver(h, Numbers) <= Collected
    BY DEF PlanInv, HighWater
  <2>2. ASSUME NEW s \in Attempts, Holding(req'[s]), NEW i \in Numbers
        PROVE  req'[s].plan[i].paid <= h[i]
    <3>1. CASE s = r
      BY <2>1, <2>2, <3>1 DEF Covers
    <3>2. CASE s # r
      BY <2>1, <2>2, <3>2 DEF Covers
    <3> QED
      BY <3>1, <3>2
  <2>3. Covers(h, plan, req')
    BY <2>1, <2>2 DEF Covers
  <2> QED
    BY <2>1, <2>3
<1> QED
  BY <1>1, <1>2, <1>3, <1>4, <1>5 DEF PlanInv

LEMMA TypedParts ==
    ASSUME PlanInv
    PROVE  /\ sale \in Sale /\ plan \in Plan /\ payments \in Seq(Nat)
           /\ debt \in Int /\ req \in [Attempts -> Request]
           /\ handled \in Nat /\ handled <= MaxRequests /\ MaxRequests \in Nat
           /\ calm \in BOOLEAN
           /\ sale.paid \in Nat /\ sale.remaining \in Nat
           /\ sale.status \in {"absent", "pending", "completed", "cancelled"}
           /\ \A a \in actions : a.made \in Nat \ {0} /\ a.linked \in Nat \ {0}
<1>1. RowsTyped
  BY DEF PlanInv
<1> QED
  BY <1>1, CollectionsAssumption DEF RowsTyped, Sale

LEMMA RequestTyped ==
    ASSUME PlanInv, NEW r \in Attempts
    PROVE  /\ req[r] \in Request
           /\ req[r].op \in {"idle", "pay", "collect", "cancel", "restore"}
           /\ req[r].step \in {"idle", "asked", "half", "read", "written"}
           /\ req[r].sale \in Sale /\ req[r].plan \in Plan
           /\ req[r].amount \in Nat /\ req[r].payment \in Nat
           /\ req[r].sale.paid \in Nat /\ req[r].sale.remaining \in Nat
           /\ Knows(req[r], sale, plan, Len(payments))
<1>1. req[r] \in Request /\ Knows(req[r], sale, plan, Len(payments))
  BY DEF PlanInv, RowsTyped
<1>2. /\ req[r].op \in {"idle", "pay", "collect", "cancel", "restore"}
      /\ req[r].step \in {"idle", "asked", "half", "read", "written"}
      /\ req[r].sale \in Sale /\ req[r].plan \in Plan
      /\ req[r].amount \in Nat /\ req[r].payment \in Nat
  BY <1>1 DEF Request
<1> QED
  BY <1>1, <1>2 DEF Sale

LEMMA IdleKnows ==
    ASSUME NEW s, NEW p, NEW n
    PROVE  Knows(Idle, s, p, n) /\ ~ Holding(Idle)
BY DEF Knows, Idle, Paying, Holding

LEMMA ArriveKeeps ==
    ASSUME PlanInv, NEW r \in Attempts, NEW op, NEW amount, amount \in Nat,
           op \in {"pay", "collect", "cancel", "restore"},
           Arrive(r, op, amount)
    PROVE  PlanInv'
<1> DEFINE t == [Idle EXCEPT !.op = op, !.step = "asked", !.amount = amount]
<1>1. t.op = op /\ t.step = "asked"
  BY DEF Idle
<1>2. t \in Request
  BY NothingTyped DEF Request, Idle
<1> HIDE DEF t
<1>3. /\ req' = [req EXCEPT ![r] = t]
      /\ handled' = handled + 1 /\ handled < MaxRequests
      /\ UNCHANGED <<sale, plan, payments, debt, actions>>
      /\ sale.status # "absent"
  BY DEF Arrive, t, rows
<1>4. calm' \in BOOLEAN
  BY Zenon, TypedParts DEF Arrive
<1>5. handled' \in 0..MaxRequests
  BY <1>3, TypedParts
<1>6. req' \in [Attempts -> Request] /\ req'[r] = t
  BY <1>2, <1>3, TypedParts
<1>7. \A s \in Attempts : s # r => req'[s] = req[s]
  BY <1>3, TypedParts
<1>8. Knows(t, sale, plan, Len(payments)) /\ ~ Holding(t)
  BY <1>1, <1>3 DEF Knows, Holding
<1>9. \A a \in actions' : a.made \in Nat \ {0} /\ a.linked \in Nat \ {0}
  BY <1>3, TypedParts
<1> QED
  BY <1>3, <1>4, <1>5, <1>6, <1>7, <1>8, <1>9, VisitKeeps

LEMMA ReadSaleKeeps ==
    ASSUME PlanInv, NEW r \in Attempts, ReadSale(r)
    PROVE  PlanInv'
<1> DEFINE t == [req[r] EXCEPT !.step = "half", !.sale = sale]
<1>1. /\ req' = [req EXCEPT ![r] = t]
      /\ req[r].step = "asked"
      /\ UNCHANGED <<sale, plan, payments, debt, actions, handled, calm>>
  BY TypedParts DEF ReadSale, rows
<1>2. t \in Request /\ t.step = "half" /\ t.op = req[r].op
  BY RequestTyped, TypedParts DEF Request
<1> HIDE DEF t
<1>3. req' \in [Attempts -> Request] /\ req'[r] = t
  BY <1>1, <1>2, TypedParts
<1>4. \A s \in Attempts : s # r => req'[s] = req[s]
  BY <1>1, TypedParts
<1>5. Knows(t, sale, plan, Len(payments)) /\ ~ Holding(t)
  BY <1>1, <1>2, RequestTyped DEF Knows, Holding
<1>6. \A a \in actions' : a.made \in Nat \ {0} /\ a.linked \in Nat \ {0}
  BY <1>1, TypedParts
<1>7. handled' \in 0..MaxRequests /\ calm' \in BOOLEAN
  BY <1>1, TypedParts
<1> QED
  BY <1>1, <1>3, <1>4, <1>5, <1>6, <1>7, VisitKeeps

LEMMA ReadPlanKeeps ==
    ASSUME PlanInv, NEW r \in Attempts, ReadPlan(r)
    PROVE  PlanInv'
<1> DEFINE read == IF req[r].op \in {"pay", "collect"} THEN plan ELSE NoPlan
           t == [req[r] EXCEPT !.step = "read", !.plan = read]
<1>1. /\ req' = [req EXCEPT ![r] = t]
      /\ req[r].step = "half"
      /\ UNCHANGED <<sale, plan, payments, debt, actions, handled, calm>>
  BY TypedParts DEF ReadPlan, rows
<1>2. read \in Plan
  BY NothingTyped, TypedParts
<1>3. Allowed(req[r])
  BY DEF ReadPlan
<1> HIDE DEF read
<1>4. /\ t \in Request /\ t.step = "read" /\ t.op = req[r].op /\ t.plan = read
      /\ t.sale = req[r].sale
  BY <1>2, RequestTyped DEF Request
<1> HIDE DEF t
<1>5. req' \in [Attempts -> Request] /\ req'[r] = t
  BY <1>1, <1>4, TypedParts
<1>6. \A s \in Attempts : s # r => req'[s] = req[s]
  BY <1>1, TypedParts
<1>7. Holding(t) => t.plan = plan /\ t.sale.remaining > 0
  BY <1>3, <1>4 DEF Holding, Paying, read, Allowed
<1>8. Knows(t, sale, plan, Len(payments))
  <2>1. sale.status # "absent"
    BY <1>1, RequestTyped DEF Knows
  <2>2. \A i \in Numbers : RowOK(plan[i])
    BY DEF PlanInv
  <2> QED
    BY <1>4, <1>7, <2>1, <2>2 DEF Knows
<1>9. \A a \in actions' : a.made \in Nat \ {0} /\ a.linked \in Nat \ {0}
  BY <1>1, TypedParts
<1>10. handled' \in 0..MaxRequests /\ calm' \in BOOLEAN
  BY <1>1, TypedParts
<1> QED
  BY <1>1, <1>5, <1>6, <1>7, <1>8, <1>9, <1>10, VisitKeeps

\* A request leaves: it fails, has been answered, or its process ends.
LEMMA LeavesKeep ==
    ASSUME PlanInv, NEW r \in Attempts,
           Abort(r) \/ Answered(r) \/ LinkAction(r) \/ ActionLost(r)
    PROVE  PlanInv'
<1>1. /\ req' = [req EXCEPT ![r] = Idle]
      /\ UNCHANGED <<sale, plan, payments, debt, handled, calm>>
  BY DEF Abort, Answered, LinkAction, ActionLost, rows
<1>2. req' \in [Attempts -> Request] /\ req'[r] = Idle
  BY <1>1, NothingTyped, TypedParts
<1>3. \A s \in Attempts : s # r => req'[s] = req[s]
  BY <1>1, TypedParts
<1>4. \A a \in actions' : a.made \in Nat \ {0} /\ a.linked \in Nat \ {0}
  <2>1. CASE LinkAction(r)
    <3> DEFINE new == [made |-> req[r].payment, linked |-> Len(payments)]
    <3>1. actions' = actions \union {new}
      BY <2>1 DEF LinkAction
    <3>2. req[r].payment \in 1..Len(payments)
      BY <2>1, RequestTyped DEF LinkAction, Knows
    <3>3. Len(payments) \in Nat
      BY TypedParts
    <3>4. new.made \in Nat \ {0} /\ new.linked \in Nat \ {0}
      BY <3>2, <3>3
    <3> HIDE DEF new
    <3> QED
      BY <3>1, <3>4, TypedParts
  <2>2. CASE Abort(r) \/ Answered(r) \/ ActionLost(r)
    BY <2>2, TypedParts DEF Abort, Answered, ActionLost, rows
  <2> QED
    BY <2>1, <2>2
<1>5. handled' \in 0..MaxRequests /\ calm' \in BOOLEAN
  BY <1>1, TypedParts
<1> QED
  BY <1>1, <1>2, <1>3, <1>4, <1>5, IdleKnows, VisitKeeps

LEMMA EveryDue ==
    ASSUME NEW p \in Plan, NEW q \in Plan, \A i \in Numbers : q[i].due = p[i].due,
           NEW t, NEW s, NEW n, Knows(t, s, p, n)
    PROVE  Knows(t, s, q, n)
BY DEF Knows

\* What a request that pays has computed from.
LEMMA HeldPlan ==
    ASSUME PlanInv, NEW r \in Attempts, CommitPayment(r)
    PROVE  /\ Holding(req[r])
           /\ \A i \in Numbers : /\ RowOK(req[r].plan[i])
                                 /\ req[r].plan[i].due = plan[i].due
           /\ req[r].sale.remaining > 0
           /\ Least(req[r].amount, req[r].sale.remaining) \in Nat
           /\ sale.status # "absent"
<1>1. Holding(req[r])
  BY DEF CommitPayment, Holding, Paying
<1> DEFINE t == req[r]
<1>2. Knows(t, sale, plan, Len(payments)) /\ t.step = "read"
  BY <1>1, RequestTyped DEF Holding
<1>3. t.sale.remaining \in Nat /\ t.amount \in Nat
  BY RequestTyped
<1> HIDE DEF t
<1>4. /\ \A i \in Numbers : RowOK(t.plan[i]) /\ t.plan[i].due = plan[i].due
      /\ t.sale.remaining > 0 /\ sale.status # "absent"
  BY <1>1, <1>2 DEF Knows, t
<1>5. Least(t.amount, t.sale.remaining) \in Nat
  BY <1>3 DEF Least
<1> QED
  BY <1>1, <1>4, <1>5 DEF t

LEMMA PaidSale ==
    ASSUME PlanInv, NEW r \in Attempts, NEW amount, amount \in Nat
    PROVE  /\ Paid(req[r], amount) \in Sale
           /\ Paid(req[r], amount).remaining = Most(0, req[r].sale.remaining - amount)
           /\ Paid(req[r], amount).status
                = IF req[r].sale.remaining <= amount THEN "completed" ELSE "pending"
<1> DEFINE m == Most(0, req[r].sale.remaining - amount)
           p == req[r].sale.paid + amount
           c == IF req[r].sale.remaining <= amount THEN "completed" ELSE "pending"
<1>1. m \in Nat /\ p \in Nat /\ c \in {"pending", "completed"}
  <2> DEFINE x == req[r].sale.remaining
             y == req[r].sale.paid
  <2>1. x \in Nat /\ y \in Nat
    BY RequestTyped
  <2> HIDE DEF x, y
  <2>2. Most(0, x - amount) \in Nat /\ y + amount \in Nat
    BY <2>1 DEF Most
  <2> QED
    BY <2>2 DEF x, y
<1>2. Paid(req[r], amount) = [sale EXCEPT !.paid = p, !.remaining = m, !.status = c]
  BY DEF Paid
<1> HIDE DEF m, p, c
<1>3. Paid(req[r], amount) \in Sale
  BY <1>1, <1>2, TypedParts DEF Sale
<1>4. Paid(req[r], amount).remaining = m /\ Paid(req[r], amount).status = c
  BY <1>2, TypedParts DEF Sale
<1> QED
  BY <1>3, <1>4 DEF m, c

\* The rows a payment leaves are those it computed or those it found.
LEMMA OverwrittenRows ==
    ASSUME PlanInv, NEW before \in Plan, NEW after \in Plan,
           \A i \in Numbers : /\ before[i].due = plan[i].due
                              /\ Follows(before[i], after[i])
    PROVE  /\ Overwritten(before, after) \in Plan
           /\ \A i \in Numbers :
                /\ Overwritten(before, after)[i] \in {plan[i], after[i]}
                /\ Overwritten(before, after)[i].due = plan[i].due
                /\ RowOK(Overwritten(before, after)[i])
<1>1. ASSUME NEW i \in Numbers
      PROVE  /\ Overwritten(before, after)[i] \in {plan[i], after[i]}
             /\ Overwritten(before, after)[i].due = plan[i].due
             /\ RowOK(Overwritten(before, after)[i])
             /\ Overwritten(before, after)[i] \in Installment
  <2>1. Overwritten(before, after)[i] \in {plan[i], after[i]}
    BY DEF Overwritten
  <2>2. RowOK(plan[i]) /\ RowOK(after[i]) /\ after[i].due = plan[i].due
    BY DEF PlanInv, Follows
  <2>3. plan[i] \in Installment /\ after[i] \in Installment
    BY TypedParts, InstallmentsOf
  <2> QED
    BY <2>1, <2>2, <2>3
<1>2. Overwritten(before, after) \in Plan
  BY <1>1 DEF Overwritten, Plan
<1> QED
  BY <1>1, <1>2

\* The high water rises by what the payment spreads, which is booked.
LEMMA WaterRises ==
    ASSUME PlanInv, NEW r \in Attempts, Holding(req[r]),
           NEW amount, amount \in Nat,
           NEW after \in Plan,
           \A i \in Numbers : /\ req[r].plan[i].due = plan[i].due
                              /\ Follows(req[r].plan[i], after[i]),
           NEW left, left \in Nat,
           PaidIn(after) = PaidIn(req[r].plan) + amount - left,
           \A i \in Numbers : plan[i].due >= 0
    PROVE  \E h \in [Numbers -> Nat] :
              /\ Covers(h, plan, req)
              /\ \A i \in Numbers : after[i].paid <= h[i]
              /\ SumOver(h, Numbers) <= Collected + amount
<1> DEFINE before == req[r].plan
           b == [i \in Numbers |-> before[i].paid]
           a == [i \in Numbers |-> after[i].paid]
           d == [i \in Numbers |-> after[i].paid - before[i].paid]
<1>1. PICK h \in [Numbers -> Nat] :
         Covers(h, plan, req) /\ SumOver(h, Numbers) <= Collected
  BY DEF PlanInv, HighWater
<1>2. before \in Plan
  BY RequestTyped
<1>3. \A i \in Numbers : before[i].paid <= h[i]
  BY <1>1 DEF Covers
<1>4. ASSUME NEW i \in Numbers
      PROVE  /\ after[i].paid \in Int /\ before[i].paid \in Int
             /\ before[i].paid <= after[i].paid
  <2>1. before[i].due >= 0
    OBVIOUS
  <2> QED
    BY <1>2, <2>1, InstallmentsOf DEF Follows
<1>5. \A i \in Numbers : /\ a[i] \in Int /\ b[i] \in Int /\ d[i] \in Nat
                         /\ a[i] = b[i] + d[i] /\ a[i] = after[i].paid
                         /\ b[i] = before[i].paid
  BY <1>4
<1> DEFINE k == [i \in Numbers |-> h[i] + d[i]]
<1>6. SumOver(b, Numbers) = PaidIn(before) /\ SumOver(a, Numbers) = PaidIn(after)
  BY DEF PaidIn
<1> HIDE DEF a, b, d
<1>7. \A i \in Numbers : k[i] = h[i] + d[i] /\ k[i] \in Nat /\ h[i] \in Nat
  BY <1>5
<1>8. k \in [Numbers -> Nat]
  BY <1>7
<1> HIDE DEF k
<1>9. SumOver(a, Numbers) = SumOver(b, Numbers) + SumOver(d, Numbers)
  BY <1>5, NumbersFinite, SumParts
<1>10. SumOver(k, Numbers) = SumOver(h, Numbers) + SumOver(d, Numbers)
  BY <1>5, <1>7, NumbersFinite, SumParts
<1>11. /\ SumOver(b, Numbers) \in Int /\ SumOver(d, Numbers) \in Int
       /\ SumOver(h, Numbers) \in Int
  BY <1>5, <1>7, NumbersFinite, SumInt
<1>12. Collected \in Nat
  BY TypedParts, SumAppend DEF Collected
<1> HIDE DEF before
<1>13. SumOver(k, Numbers) <= Collected + amount
  <2>1. PaidIn(after) = PaidIn(before) + amount - left
    BY DEF before
  <2>2. SumOver(h, Numbers) <= Collected
    BY <1>1
  <2> QED
    BY <1>6, <1>9, <1>10, <1>11, <1>12, <2>1, <2>2
<1>14. \A i \in Numbers : h[i] <= k[i]
  BY <1>5, <1>7
<1>15. \A i \in Numbers : after[i].paid <= k[i]
  BY <1>3, <1>5, <1>7
<1>16. Covers(k, plan, req)
  <2>1. \A i \in Numbers : plan[i].paid <= k[i]
    <3> SUFFICES ASSUME NEW i \in Numbers PROVE plan[i].paid <= k[i]
      OBVIOUS
    <3>1. plan[i].paid \in Int /\ plan[i].paid <= h[i]
      BY <1>1, TypedParts, InstallmentsOf DEF Covers
    <3> QED
      BY <1>7, <1>14, <3>1
  <2>2. ASSUME NEW s \in Attempts, Holding(req[s]), NEW i \in Numbers
        PROVE  req[s].plan[i].paid <= k[i]
    <3>1. req[s].plan[i].paid <= h[i]
      BY <1>1, <2>2 DEF Covers
    <3>2. req[s].plan[i].paid \in Int
      BY RequestTyped, InstallmentsOf
    <3> QED
      BY <1>7, <1>14, <3>1, <3>2
  <2> QED
    BY <1>8, <2>1, <2>2 DEF Covers
<1> QED
  BY <1>8, <1>13, <1>15, <1>16

\* The requests after r has committed or left, the plan's shares unchanged.
LEMMA OthersKnow ==
    ASSUME PlanInv, NEW r \in Attempts, NEW t \in Request,
           req' = [req EXCEPT ![r] = t],
           plan' \in Plan, \A i \in Numbers : plan'[i].due = plan[i].due,
           payments' \in Seq(Nat), Len(payments) <= Len(payments'),
           sale'.status # "absent",
           Knows(t, sale', plan', Len(payments'))
    PROVE  /\ req' \in [Attempts -> Request]
           /\ req'[r] = t
           /\ \A s \in Attempts : s # r => req'[s] = req[s]
           /\ (\A s \in Attempts : Knows(req[s], sale, plan, Len(payments)))'
<1>1. req' \in [Attempts -> Request] /\ req'[r] = t
  BY TypedParts
<1>2. \A s \in Attempts : s # r => req'[s] = req[s]
  BY TypedParts
<1>3. ASSUME NEW s \in Attempts PROVE Knows(req'[s], sale', plan', Len(payments'))
  <2>1. CASE s = r
    BY <1>1, <2>1
  <2>2. CASE s # r
    <3> DEFINE u == req[s]
    <3>1. Knows(u, sale, plan, Len(payments))
      BY RequestTyped
    <3>2. u.payment \in 1..Len(payments) => u.payment \in 1..Len(payments')
      BY TypedParts
    <3> HIDE DEF u
    <3>3. Knows(u, sale', plan', Len(payments'))
      BY <3>1, <3>2 DEF Knows
    <3> QED
      BY <1>2, <2>2, <3>3 DEF u
  <2> QED
    BY <2>1, <2>2
<1> QED
  BY <1>1, <1>2, <1>3

LEMMA CommitPaymentKeeps ==
    ASSUME PlanInv, NEW r \in Attempts, CommitPayment(r)
    PROVE  PlanInv'
<1> DEFINE t == req[r]
           amount == Least(req[r].amount, req[r].sale.remaining)
           new == [Idle EXCEPT
                !.op = t.op, !.step = "written",
                !.payment = IF t.op = "collect" THEN Len(payments) + 1 ELSE 0]
<1>1. /\ Holding(t) /\ amount \in Nat /\ t.plan \in Plan
      /\ \A i \in Numbers : RowOK(t.plan[i]) /\ t.plan[i].due = plan[i].due
      /\ sale.status # "absent"
  BY HeldPlan, RequestTyped
<1>2. PICK after \in Allocations(t.plan, amount) : plan' = Overwritten(t.plan, after)
  BY DEF CommitPayment
<1>3. /\ payments' = Append(payments, amount)
      /\ sale' = Paid(t, amount)
      /\ debt' = debt - amount
      /\ req' = [req EXCEPT ![r] = new]
      /\ UNCHANGED <<actions, handled, calm>>
  BY DEF CommitPayment
<1> HIDE DEF amount
<1>4. PICK left \in Nat :
          /\ after \in Plan
          /\ \A i \in Numbers : Follows(t.plan[i], after[i])
          /\ LeftIn(after) = LeftIn(t.plan) - amount + left
          /\ PaidIn(after) = PaidIn(t.plan) + amount - left
          /\ left > 0 => LeftIn(after) = 0
  BY <1>1, <1>2, Allocated
<1>5. /\ plan' \in Plan
      /\ \A i \in Numbers : /\ plan'[i] \in {plan[i], after[i]}
                            /\ plan'[i].due = plan[i].due
                            /\ RowOK(plan'[i])
  BY <1>1, <1>2, <1>4, OverwrittenRows
<1>6. sale' \in Sale /\ sale'.status # "absent"
  BY <1>1, <1>3, PaidSale
<1>7. /\ payments' \in Seq(Nat) /\ Len(payments') = Len(payments) + 1
      /\ Len(payments) \in Nat
      /\ Collected' = Collected + amount
  BY <1>1, <1>3, TypedParts, SumAppend DEF Collected
<1>8. /\ new.op = t.op /\ new.step = "written"
      /\ new.payment = IF t.op = "collect" THEN Len(payments) + 1 ELSE 0
  BY DEF Idle
<1>9. new \in Request
  <2> DEFINE n == IF t.op = "collect" THEN Len(payments) + 1 ELSE 0
             o == t.op
  <2>1. n \in Nat /\ o \in {"idle", "pay", "collect", "cancel", "restore"}
    BY <1>7, RequestTyped
  <2> HIDE DEF n, o
  <2>2. [Idle EXCEPT !.op = o, !.step = "written", !.payment = n] \in Request
    BY <2>1, NothingTyped DEF Request, Idle
  <2> QED
    BY <2>2 DEF n, o
<1> HIDE DEF new
<1>10. Knows(new, sale', plan', Len(payments'))
  <2>1. Paying(new) /\ ~ Holding(new)
    BY <1>1, <1>8 DEF Paying, Holding
  <2>2. new.op = "collect" => new.payment \in 1..Len(payments')
    BY <1>7, <1>8
  <2> QED
    BY <1>6, <1>8, <2>1, <2>2 DEF Knows
<1>11. /\ req' \in [Attempts -> Request]
       /\ req'[r] = new
       /\ \A s \in Attempts : s # r => req'[s] = req[s]
       /\ (\A s \in Attempts : Knows(req[s], sale, plan, Len(payments)))'
  <2>1. Len(payments) <= Len(payments') /\ payments' \in Seq(Nat)
    BY <1>7
  <2>2. plan' \in Plan /\ \A i \in Numbers : plan'[i].due = plan[i].due
    BY <1>5
  <2>3. sale'.status # "absent"
    BY <1>6
  <2> HIDE DEF t
  <2> QED
    BY <1>3, <1>9, <1>10, <2>1, <2>2, <2>3, OthersKnow
<1>12. debt' \in Int
  <2>1. debt' = debt - amount /\ amount \in Nat /\ debt \in Int
    BY <1>1, <1>3, TypedParts
  <2> QED
    BY <2>1
<1>13. RowsTyped'
  BY <1>3, <1>5, <1>6, <1>7, <1>11, <1>12, TypedParts DEF PlanInv, RowsTyped
<1>14. (\A i \in Numbers : RowOK(plan[i]))'
  BY <1>5
<1>15. (sale.status = "absent" => plan = NoPlan /\ debt = 0 /\ payments = <<>>)'
  BY <1>6
<1>16. HighWater'
  <2> SUFFICES ASSUME \A i \in Numbers : plan'[i].due >= 0
               PROVE  \E h \in [Numbers -> Nat] :
                          Covers(h, plan', req') /\ SumOver(h, Numbers) <= Collected'
    BY DEF HighWater
  <2>1. \A i \in Numbers : plan[i].due >= 0
    BY <1>5
  <2>2. PICK h \in [Numbers -> Nat] :
           /\ Covers(h, plan, req)
           /\ \A i \in Numbers : after[i].paid <= h[i]
           /\ SumOver(h, Numbers) <= Collected + amount
    BY <1>1, <1>4, <2>1, WaterRises
  <2>3. \A i \in Numbers : plan'[i].paid <= h[i]
    BY <1>5, <2>2 DEF Covers
  <2>4. ~ Holding(req'[r])
    BY <1>8, <1>11 DEF Holding
  <2>5. ASSUME NEW s \in Attempts, Holding(req'[s]), NEW i \in Numbers
        PROVE  req'[s].plan[i].paid <= h[i]
    BY <1>11, <2>2, <2>4, <2>5 DEF Covers
  <2>6. Covers(h, plan', req')
    BY <2>3, <2>5 DEF Covers
  <2> QED
    BY <1>7, <2>2, <2>6
<1> QED
  BY <1>11, <1>13, <1>14, <1>15, <1>16 DEF PlanInv

\* Marking installments changes their status only.
LEMMA MarkedRows ==
    ASSUME NEW from, NEW to, PlanInv,
           <<from, to>> \in {<<"pending", "cancelled">>, <<"cancelled", "pending">>}
    PROVE  /\ Marked(from, to) \in Plan
           /\ \A i \in Numbers :
                /\ Marked(from, to)[i].due = plan[i].due
                /\ Marked(from, to)[i].paid = plan[i].paid
                /\ Marked(from, to)[i].remaining = plan[i].remaining
                /\ Marked(from, to)[i].status
                     = IF plan[i].status = from THEN to ELSE plan[i].status
                /\ RowOK(Marked(from, to)[i])
<1>1. ASSUME NEW i \in Numbers
      PROVE  /\ Marked(from, to)[i] \in Installment
             /\ Marked(from, to)[i].due = plan[i].due
             /\ Marked(from, to)[i].paid = plan[i].paid
             /\ Marked(from, to)[i].remaining = plan[i].remaining
             /\ Marked(from, to)[i].status
                  = IF plan[i].status = from THEN to ELSE plan[i].status
             /\ RowOK(Marked(from, to)[i])
  <2> DEFINE row == plan[i]
             new == Marked(from, to)[i]
  <2>1. new = IF row.status = from THEN [row EXCEPT !.status = to] ELSE row
    BY DEF Marked
  <2>2. row \in Installment /\ RowOK(row)
    BY TypedParts, InstallmentsOf DEF PlanInv
  <2> HIDE DEF row, new
  <2>3. /\ new \in Installment
        /\ new.due = row.due /\ new.paid = row.paid /\ new.remaining = row.remaining
        /\ new.status = IF row.status = from THEN to ELSE row.status
    BY <2>1, <2>2 DEF Installment
  <2>4. RowOK(new)
    <3>1. CASE row.status = from
      <4>1. new.status \in {"pending", "cancelled"} /\ row.status \in {"pending", "cancelled"}
        BY <2>3, <3>1
      <4> QED
        BY <2>2, <2>3, <4>1 DEF RowOK
    <3>2. CASE row.status # from
      BY <2>1, <2>2, <3>2
    <3> QED
      BY <3>1, <3>2
  <2> QED
    BY <2>3, <2>4 DEF row, new
<1>2. Marked(from, to) \in Plan
  BY <1>1 DEF Marked, Plan
<1> QED
  BY <1>1, <1>2

\* Cancellation and restoration take the customer's debt with them.
LEMMA MarkingKeeps ==
    ASSUME PlanInv, NEW r \in Attempts, CommitCancel(r) \/ CommitRestore(r)
    PROVE  PlanInv'
<1> DEFINE t == req[r]
<1>1. /\ req' = [req EXCEPT ![r] = Idle]
      /\ UNCHANGED <<payments, actions, handled, calm>>
      /\ t.step = "read"
      /\ t.sale.remaining \in Nat
  BY RequestTyped DEF CommitCancel, CommitRestore
<1>2. sale.status # "absent"
  BY <1>1, RequestTyped DEF Knows
<1>3. /\ plan' \in Plan
      /\ \A i \in Numbers : /\ plan'[i].due = plan[i].due
                            /\ plan'[i].paid = plan[i].paid
                            /\ RowOK(plan'[i])
  <2>1. plan' = Marked("pending", "cancelled") \/ plan' = Marked("cancelled", "pending")
    BY DEF CommitCancel, CommitRestore
  <2> QED
    BY <2>1, MarkedRows
<1>4. sale' \in Sale /\ sale'.status # "absent"
  <2>1. PICK c \in {"cancelled", "completed", "pending"} :
          sale' = [sale EXCEPT !.status = c]
    BY DEF CommitCancel, CommitRestore
  <2> QED
    BY <2>1, TypedParts DEF Sale
<1>5. debt' \in Int
  <2> DEFINE m == t.sale.remaining
  <2>1. debt \in Int /\ m \in Nat
    BY <1>1, TypedParts
  <2>2. \/ debt' = IF m > 0 THEN Most(0, debt - m) ELSE debt
        \/ debt' = debt + m
    BY DEF CommitCancel, CommitRestore
  <2> HIDE DEF m
  <2> QED
    BY <2>1, <2>2 DEF Most
<1>6. payments' \in Seq(Nat) /\ Len(payments) <= Len(payments') /\ Collected' = Collected
  BY <1>1, TypedParts DEF Collected
<1>7. /\ req' \in [Attempts -> Request]
      /\ req'[r] = Idle
      /\ \A s \in Attempts : s # r => req'[s] = req[s]
      /\ (\A s \in Attempts : Knows(req[s], sale, plan, Len(payments)))'
  BY <1>1, <1>3, <1>4, <1>6, IdleKnows, NothingTyped, OthersKnow
<1>8. RowsTyped'
  BY <1>1, <1>3, <1>4, <1>5, <1>6, <1>7, TypedParts DEF PlanInv, RowsTyped
<1>9. (\A i \in Numbers : RowOK(plan[i]))'
  BY <1>3
<1>10. (sale.status = "absent" => plan = NoPlan /\ debt = 0 /\ payments = <<>>)'
  BY <1>4
<1>11. HighWater'
  <2> SUFFICES ASSUME \A i \in Numbers : plan'[i].due >= 0
               PROVE  \E h \in [Numbers -> Nat] :
                          Covers(h, plan', req') /\ SumOver(h, Numbers) <= Collected'
    BY DEF HighWater
  <2>1. \A i \in Numbers : plan[i].due >= 0
    BY <1>3
  <2>2. PICK h \in [Numbers -> Nat] :
           Covers(h, plan, req) /\ SumOver(h, Numbers) <= Collected
    BY <2>1 DEF PlanInv, HighWater
  <2>3. \A i \in Numbers : plan'[i].paid <= h[i]
    BY <1>3, <2>2 DEF Covers
  <2>4. ~ Holding(req'[r])
    BY <1>7, IdleKnows
  <2>5. ASSUME NEW s \in Attempts, Holding(req'[s]), NEW i \in Numbers
        PROVE  req'[s].plan[i].paid <= h[i]
    BY <1>7, <2>2, <2>4, <2>5 DEF Covers
  <2>6. Covers(h, plan', req')
    BY <2>3, <2>5 DEF Covers
  <2> QED
    BY <1>6, <2>2, <2>6
<1> QED
  BY <1>7, <1>8, <1>9, <1>10, <1>11 DEF PlanInv

\* Before the invoice exists no request is about it.
LEMMA NobodyYet ==
    ASSUME PlanInv, sale.status = "absent"
    PROVE  \A r \in Attempts : req[r] = Idle
BY RequestTyped DEF Knows

LEMMA CreateTyped ==
    ASSUME PlanInv, Create
    PROVE  /\ sale.status = "absent"
           /\ sale' \in Sale /\ sale'.status \in {"pending", "completed"}
           /\ sale'.status = "pending" <=> sale'.remaining > 0
           /\ plan' \in Plan
           /\ LeftIn(plan') = sale'.remaining
           /\ \A i \in Numbers : /\ RowOK(plan'[i]) /\ plan'[i].paid = 0
                                 /\ plan'[i].status \in {"none", "pending"}
           /\ debt' = sale'.remaining
           /\ UNCHANGED <<payments, actions, req, handled, calm>>
<1> DEFINE Made(total, count, paid) ==
        /\ sale.status = "absent"
        /\ sale' = [status |-> IF total - paid > 0 THEN "pending" ELSE "completed",
                    paid |-> paid, remaining |-> total - paid]
        /\ plan' = IF total - paid > 0 THEN Schedule(total - paid, count) ELSE NoPlan
        /\ debt' = debt + (total - paid)
        /\ UNCHANGED <<payments, actions, req, handled, calm>>
<1>0. PICK total \in Totals, count \in Numbers :
         \E paid \in 0..total : Made(total, count, paid)
  BY DEF Create
<1>1. PICK paid \in 0..total : Made(total, count, paid)
  BY <1>0
<1> DEFINE left == total - paid
<1>2. left \in Nat /\ paid \in Nat
  BY CollectionsAssumption
<1>3. /\ sale' = [status |-> IF left > 0 THEN "pending" ELSE "completed",
                  paid |-> paid, remaining |-> left]
      /\ plan' = IF left > 0 THEN Schedule(left, count) ELSE NoPlan
      /\ debt' = debt + left
  BY <1>1
<1>4. debt = 0
  BY <1>1 DEF PlanInv
<1> HIDE DEF left
<1>5. /\ sale' \in Sale /\ sale'.status \in {"pending", "completed"}
      /\ sale'.status = "pending" <=> sale'.remaining > 0
      /\ sale'.remaining = left
  BY <1>2, <1>3 DEF Sale
<1>6. debt' = left
  BY <1>2, <1>3, <1>4
<1>7. /\ plan' \in Plan
      /\ LeftIn(plan') = left
      /\ \A i \in Numbers : /\ RowOK(plan'[i]) /\ plan'[i].paid = 0
                            /\ plan'[i].status \in {"none", "pending"}
  <2>1. CASE left > 0
    <3>1. plan' = Schedule(left, count)
      BY <1>3, <2>1
    <3> QED
      BY <1>2, <3>1, ScheduleRows, ScheduleSum
  <2>2. CASE left = 0
    <3>1. plan' = NoPlan
      BY <1>3, <2>2
    <3>2. \A i \in Numbers : NoPlan[i] = NoInstallment
      BY DEF NoPlan
    <3>3. \A i \in Numbers : /\ RowOK(NoPlan[i]) /\ NoPlan[i].paid = 0
                             /\ NoPlan[i].status = "none"
                             /\ NoPlan[i].remaining = 0
      BY <3>2, NothingTyped DEF NoInstallment
    <3> DEFINE f == [i \in Numbers |-> NoPlan[i].remaining]
    <3>4. \A i \in Numbers : f[i] = 0
      BY <3>3
    <3> HIDE DEF f
    <3>5. SumOver(f, Numbers) = 0
      BY <3>4, NumbersFinite, SumZero
    <3>6. LeftIn(NoPlan) = 0
      BY <3>5 DEF LeftIn, f
    <3> QED
      BY <2>2, <3>1, <3>3, <3>6, NothingTyped
  <2> QED
    BY <1>2, <2>1, <2>2
<1> QED
  BY <1>1, <1>5, <1>6, <1>7

LEMMA NoWater ==
    ASSUME NEW p \in Plan, \A i \in Numbers : p[i].paid = 0,
           NEW q, \A r \in Attempts : q[r] = Idle
    PROVE  \E h \in [Numbers -> Nat] : Covers(h, p, q) /\ SumOver(h, Numbers) = 0
<1> DEFINE h == [i \in Numbers |-> 0]
<1>1. h \in [Numbers -> Nat] /\ \A i \in Numbers : h[i] = 0
  OBVIOUS
<1> HIDE DEF h
<1>2. SumOver(h, Numbers) = 0
  BY <1>1, NumbersFinite, SumZero
<1>3. Covers(h, p, q)
  BY <1>1, IdleKnows DEF Covers
<1> QED
  BY <1>1, <1>2, <1>3

LEMMA CreateKeeps ==
    ASSUME PlanInv, Create
    PROVE  PlanInv'
<1>1. /\ sale.status = "absent"
      /\ sale' \in Sale /\ sale'.status \in {"pending", "completed"}
      /\ plan' \in Plan
      /\ \A i \in Numbers : RowOK(plan'[i]) /\ plan'[i].paid = 0
      /\ debt' = sale'.remaining
      /\ UNCHANGED <<payments, actions, req, handled, calm>>
  BY CreateTyped
<1>2. \A r \in Attempts : req'[r] = Idle
  BY <1>1, NobodyYet
<1>3. debt' \in Int
  BY <1>1 DEF Sale
<1>4. RowsTyped'
  BY <1>1, <1>3 DEF PlanInv, RowsTyped
<1>5. (\A r \in Attempts : Knows(req[r], sale, plan, Len(payments)))'
  BY <1>2, IdleKnows
<1>6. HighWater'
  <2>1. PICK h \in [Numbers -> Nat] : Covers(h, plan', req') /\ SumOver(h, Numbers) = 0
    BY <1>1, <1>2, NoWater
  <2>2. Collected' \in Nat
    BY <1>1, TypedParts, SumAppend DEF Collected
  <2> QED
    BY <2>1, <2>2 DEF HighWater
<1>7. (sale.status = "absent" => plan = NoPlan /\ debt = 0 /\ payments = <<>>)'
  BY <1>1
<1>8. (\A i \in Numbers : RowOK(plan[i]))'
  BY <1>1
<1> QED
  BY <1>4, <1>5, <1>6, <1>7, <1>8 DEF PlanInv

LEMMA PlanStart == Init => PlanInv
<1> SUFFICES ASSUME Init PROVE PlanInv
  OBVIOUS
<1>1. /\ sale = NoSale /\ plan = NoPlan /\ payments = <<>> /\ debt = 0
      /\ actions = {} /\ req = [r \in Attempts |-> Idle] /\ handled = 0 /\ calm = TRUE
  BY DEF Init
<1>2. \A r \in Attempts : req[r] = Idle
  BY <1>1
<1>3. RowsTyped
  BY <1>1, NothingTyped, CollectionsAssumption DEF RowsTyped
<1>4. \A i \in Numbers : plan[i] = NoInstallment
  BY <1>1 DEF NoPlan
<1>5. \A i \in Numbers : RowOK(plan[i]) /\ plan[i].paid = 0
  BY <1>4, NothingTyped DEF NoInstallment
<1>6. \A r \in Attempts : Knows(req[r], sale, plan, Len(payments))
  BY <1>2, IdleKnows
<1>7. HighWater
  <2>1. PICK h \in [Numbers -> Nat] : Covers(h, plan, req) /\ SumOver(h, Numbers) = 0
    BY <1>2, <1>3, <1>5, NoWater DEF RowsTyped
  <2>2. Collected \in Nat
    BY <1>3, SumAppend DEF Collected, RowsTyped
  <2> QED
    BY <2>1, <2>2 DEF HighWater
<1> QED
  BY <1>1, <1>3, <1>5, <1>6, <1>7 DEF PlanInv

LEMMA PlanStep == PlanInv /\ [Next]_vars => PlanInv'
<1> SUFFICES ASSUME PlanInv, [Next]_vars PROVE PlanInv'
  OBVIOUS
<1>1. CASE UNCHANGED vars
  BY <1>1 DEF vars, rows, PlanInv, RowsTyped, HighWater, Collected
<1>2. CASE Create
  BY <1>2, CreateKeeps
<1>3. ASSUME NEW r \in Attempts, Step(r) PROVE PlanInv'
  <2>1. CASE AskToPay(r)
    <3>1. PICK a \in Amounts : Arrive(r, "pay", a)
      BY <2>1 DEF AskToPay
    <3> QED
      BY <3>1, ArriveKeeps, CollectionsAssumption
  <2>2. CASE AskToCollect(r)
    <3>1. PICK a \in Amounts : Arrive(r, "collect", a)
      BY <2>2 DEF AskToCollect
    <3> QED
      BY <3>1, ArriveKeeps, CollectionsAssumption
  <2>3. CASE AskToCancel(r)
    BY <2>3, ArriveKeeps DEF AskToCancel
  <2>4. CASE AskToRestore(r)
    BY <2>4, ArriveKeeps DEF AskToRestore
  <2>5. CASE ReadSale(r)
    BY <2>5, ReadSaleKeeps
  <2>6. CASE ReadPlan(r)
    BY <2>6, ReadPlanKeeps
  <2>7. CASE CommitPayment(r)
    BY <2>7, CommitPaymentKeeps
  <2>8. CASE Answered(r) \/ LinkAction(r) \/ ActionLost(r) \/ Abort(r)
    BY <2>8, LeavesKeep
  <2>9. CASE CommitCancel(r) \/ CommitRestore(r)
    BY <2>9, MarkingKeeps
  <2> QED
    BY <1>3, <2>1, <2>2, <2>3, <2>4, <2>5, <2>6, <2>7, <2>8, <2>9 DEF Step
<1> QED
  BY <1>1, <1>2, <1>3 DEF Next

LEMMA InvNoPhantom == PlanInv => NoPhantomInstallment
<1> SUFFICES ASSUME PlanInv, \A i \in Numbers : plan[i].due >= 0
             PROVE  SumOver([i \in Numbers |-> plan[i].paid], Numbers) <= Collected
  BY DEF NoPhantomInstallment
<1> DEFINE f == [i \in Numbers |-> plan[i].paid]
<1>1. PICK h \in [Numbers -> Nat] :
         Covers(h, plan, req) /\ SumOver(h, Numbers) <= Collected
  BY DEF PlanInv, HighWater
<1>2. \A i \in Numbers : f[i] \in Int /\ h[i] \in Int /\ f[i] <= h[i]
  BY <1>1, TypedParts, InstallmentsOf DEF Covers
<1> HIDE DEF f
<1>3. SumOver(f, Numbers) <= SumOver(h, Numbers)
  BY <1>2, NumbersFinite, SumMono
<1>4. /\ SumOver(f, Numbers) \in Int /\ SumOver(h, Numbers) \in Int
      /\ Collected \in Int
  <2>1. /\ SumOver(f, Numbers) \in Int /\ SumOver(h, Numbers) \in Int
    BY <1>2, NumbersFinite, SumInt
  <2>2. Collected \in Nat
    BY TypedParts, SumAppend DEF Collected
  <2> QED
    BY <2>1, <2>2
<1>5. SumOver(f, Numbers) <= Collected
  BY <1>1, <1>3, <1>4
<1> QED
  BY <1>5 DEF f

-----------------------------------------------------------------------------
(* The inductive invariant of the calm *)

\* What a request has read is what the invoice still is.
UpToDate(t, s, p, n) ==
    /\ t.step \in {"half", "read"} => t.sale = s
    /\ Holding(t) => t.plan = p /\ s.status # "cancelled"
    /\ t.step = "read" /\ t.op = "cancel" => s.status # "cancelled"
    /\ t.step = "read" /\ t.op = "restore" => s.status = "cancelled"
    /\ t.step = "written" /\ t.op = "collect" => t.payment = n

\* Invoice, schedule and debt say the same.
Balanced(s, p, d) ==
    s.status # "absent" =>
        /\ LeftIn(p) = s.remaining
        /\ d = IF s.status = "cancelled" THEN 0 ELSE s.remaining
        /\ s.status = "pending" => s.remaining > 0
        /\ s.status = "completed" => s.remaining = 0
        /\ s.status = "cancelled" => \A i \in Numbers : p[i].status # "pending"
        /\ s.status # "cancelled" => \A i \in Numbers : p[i].status # "cancelled"

InPeace ==
    /\ \A r, s \in Attempts : req[r] # Idle /\ req[s] # Idle => r = s
    /\ \A r \in Attempts : UpToDate(req[r], sale, plan, Len(payments))
    /\ Balanced(sale, plan, debt)
    /\ \A a \in actions : a.linked = a.made

PlanCalm == calm => InPeace

LEMMA IdleUpToDate ==
    ASSUME NEW s, NEW p, NEW n
    PROVE  UpToDate(Idle, s, p, n)
BY DEF UpToDate, Idle, Holding

\* The one request in flight reads, commits or leaves, or the first arrives.
LEMMA PeaceKeeps ==
    ASSUME InPeace, NEW r \in Attempts,
           req[r] # Idle \/ \A s \in Attempts : s # r => req[s] = Idle,
           \A s \in Attempts : s # r => req'[s] = req[s],
           UpToDate(req'[r], sale', plan', Len(payments')),
           Balanced(sale', plan', debt'),
           \A a \in actions' : a.linked = a.made
    PROVE  InPeace'
<1>1. \A s \in Attempts : s # r => req[s] = Idle
  BY DEF InPeace
<1>2. \A s \in Attempts : s # r => req'[s] = Idle
  BY <1>1
<1>3. (\A s, q \in Attempts : req[s] # Idle /\ req[q] # Idle => s = q)'
  BY <1>2
<1>4. ASSUME NEW s \in Attempts PROVE UpToDate(req'[s], sale', plan', Len(payments'))
  <2>1. CASE s = r
    BY <2>1
  <2>2. CASE s # r
    BY <1>2, <2>2, IdleUpToDate
  <2> QED
    BY <2>1, <2>2
<1> QED
  BY <1>3, <1>4 DEF InPeace

LEMMA ArriveInPeace ==
    ASSUME PlanInv, PlanCalm, NEW r \in Attempts, NEW op, NEW amount,
           Arrive(r, op, amount)
    PROVE  PlanCalm'
<1> SUFFICES ASSUME calm' PROVE InPeace'
  BY DEF PlanCalm
<1> DEFINE t == [Idle EXCEPT !.op = op, !.step = "asked", !.amount = amount]
<1>1. t.op = op /\ t.step = "asked"
  BY DEF Idle
<1>2. req' = [req EXCEPT ![r] = t] /\ UNCHANGED rows
  BY DEF Arrive
<1> HIDE DEF t
<1>3. calm /\ \A other \in Attempts \ {r} : req[other] = Idle
  BY Zenon DEF Arrive
<1>4. InPeace
  BY <1>3 DEF PlanCalm
<1>5. \A s \in Attempts : s # r => req[s] = Idle
  BY <1>3
<1>6. req'[r] = t /\ \A s \in Attempts : s # r => req'[s] = req[s]
  BY <1>2, TypedParts
<1>7. UpToDate(t, sale', plan', Len(payments'))
  BY <1>1 DEF UpToDate, Holding
<1>8. Balanced(sale', plan', debt') /\ \A a \in actions' : a.linked = a.made
  BY <1>2, <1>4 DEF InPeace, rows
<1> QED
  BY <1>4, <1>5, <1>6, <1>7, <1>8, PeaceKeeps

LEMMA ReadsInPeace ==
    ASSUME PlanInv, PlanCalm, NEW r \in Attempts, ReadSale(r) \/ ReadPlan(r)
    PROVE  PlanCalm'
<1> SUFFICES ASSUME calm' PROVE InPeace'
  BY DEF PlanCalm
<1>1. UNCHANGED <<sale, plan, payments, debt, actions, calm>>
  BY DEF ReadSale, ReadPlan, rows
<1>2. InPeace
  BY <1>1 DEF PlanCalm
<1>3. req[r] # Idle
  <2>1. req[r].step # "idle"
    BY DEF ReadSale, ReadPlan
  <2> QED
    BY <2>1 DEF Idle
<1>4. \A s \in Attempts : s # r => req'[s] = req[s]
  BY TypedParts DEF ReadSale, ReadPlan
<1> DEFINE u == req'[r]
<1>5. UpToDate(u, sale, plan, Len(payments))
  <2>1. CASE ReadSale(r)
    <3>1. u = [req[r] EXCEPT !.step = "half", !.sale = sale]
      BY <2>1, TypedParts DEF ReadSale
    <3> HIDE DEF u
    <3>2. u.step = "half" /\ u.sale = sale
      BY <3>1, RequestTyped DEF Request
    <3> QED
      BY <3>2 DEF UpToDate, Holding
  <2>2. CASE ReadPlan(r)
    <3> DEFINE read == IF req[r].op \in {"pay", "collect"} THEN plan ELSE NoPlan
    <3>1. u = [req[r] EXCEPT !.step = "read", !.plan = read]
      BY <2>2, TypedParts DEF ReadPlan
    <3> HIDE DEF u, read
    <3>2. u.step = "read" /\ u.plan = read /\ u.op = req[r].op /\ u.sale = req[r].sale
      BY <3>1, RequestTyped DEF Request
    <3>3. req[r].sale = sale
      BY <1>2, <2>2 DEF ReadPlan, InPeace, UpToDate
    <3>4. /\ Paying(req[r]) => sale.status # "cancelled" /\ read = plan
          /\ req[r].op = "cancel" => sale.status # "cancelled"
          /\ req[r].op = "restore" => sale.status = "cancelled"
      BY <2>2, <3>3 DEF ReadPlan, Allowed, Paying, read
    <3>5. Holding(u) => Paying(req[r])
      BY <3>2 DEF Holding, Paying
    <3> QED
      BY <3>2, <3>3, <3>4, <3>5 DEF UpToDate
  <2> QED
    BY <2>1, <2>2
<1>6. UpToDate(req'[r], sale', plan', Len(payments'))
  BY <1>1, <1>5
<1>7. Balanced(sale', plan', debt') /\ \A a \in actions' : a.linked = a.made
  BY <1>1, <1>2 DEF InPeace
<1> QED
  BY <1>2, <1>3, <1>4, <1>6, <1>7, PeaceKeeps

LEMMA LeavesInPeace ==
    ASSUME PlanInv, PlanCalm, NEW r \in Attempts,
           Abort(r) \/ Answered(r) \/ LinkAction(r) \/ ActionLost(r)
    PROVE  PlanCalm'
<1> SUFFICES ASSUME calm' PROVE InPeace'
  BY DEF PlanCalm
<1>1. /\ UNCHANGED <<sale, plan, payments, debt, calm>>
      /\ req' = [req EXCEPT ![r] = Idle]
  BY DEF Abort, Answered, LinkAction, ActionLost, rows
<1>2. InPeace
  BY <1>1 DEF PlanCalm
<1>3. req[r] # Idle
  <2>1. req[r].step # "idle"
    BY DEF Abort, Answered, LinkAction, ActionLost
  <2> QED
    BY <2>1 DEF Idle
<1>4. req'[r] = Idle /\ \A s \in Attempts : s # r => req'[s] = req[s]
  BY <1>1, TypedParts
<1>5. UpToDate(req'[r], sale', plan', Len(payments'))
  BY <1>4, IdleUpToDate
<1>6. Balanced(sale', plan', debt')
  BY <1>1, <1>2 DEF InPeace
<1>7. \A a \in actions' : a.linked = a.made
  <2>1. CASE LinkAction(r)
    <3> DEFINE new == [made |-> req[r].payment, linked |-> Len(payments)]
    <3>1. actions' = actions \union {new}
      BY <2>1 DEF LinkAction
    <3>2. req[r].payment = Len(payments)
      BY <1>2, <2>1 DEF LinkAction, InPeace, UpToDate
    <3>3. new.linked = new.made
      BY <3>2
    <3> HIDE DEF new
    <3> QED
      BY <1>2, <3>1, <3>3 DEF InPeace
  <2>2. CASE Abort(r) \/ Answered(r) \/ ActionLost(r)
    BY <1>2, <2>2 DEF Abort, Answered, ActionLost, rows, InPeace
  <2> QED
    BY <2>1, <2>2
<1> QED
  BY <1>2, <1>3, <1>4, <1>5, <1>6, <1>7, PeaceKeeps

LEMMA PaymentInPeace ==
    ASSUME PlanInv, PlanCalm, NEW r \in Attempts, CommitPayment(r)
    PROVE  PlanCalm'
<1> SUFFICES ASSUME calm' PROVE InPeace'
  BY DEF PlanCalm
<1> DEFINE t == req[r]
           amount == Least(req[r].amount, req[r].sale.remaining)
           new == [Idle EXCEPT
                !.op = t.op, !.step = "written",
                !.payment = IF t.op = "collect" THEN Len(payments) + 1 ELSE 0]
<1>1. /\ Holding(t) /\ amount \in Nat
      /\ sale.status # "absent"
  BY HeldPlan
<1>2. PICK after \in Allocations(t.plan, amount) : plan' = Overwritten(t.plan, after)
  BY DEF CommitPayment
<1>3. /\ payments' = Append(payments, amount)
      /\ sale' = Paid(t, amount)
      /\ debt' = debt - amount
      /\ req' = [req EXCEPT ![r] = new]
      /\ UNCHANGED <<actions, calm>>
  BY DEF CommitPayment
<1>4. InPeace
  BY <1>3 DEF PlanCalm
<1>5. /\ t.sale = sale /\ t.plan = plan /\ sale.status # "cancelled"
  BY <1>1, <1>4 DEF InPeace, UpToDate, Holding
<1>6. amount <= sale.remaining /\ sale.remaining \in Nat
  <2>1. sale.remaining \in Nat /\ t.amount \in Nat
    BY TypedParts, RequestTyped
  <2>2. amount = Least(t.amount, sale.remaining)
    BY <1>5
  <2> HIDE DEF t, amount
  <2> QED
    BY <2>1, <2>2 DEF Least
<1> HIDE DEF amount
<1>7. plan \in Plan /\ \A i \in Numbers : RowOK(plan[i])
  BY TypedParts DEF PlanInv
<1>8. after \in Allocations(plan, amount) /\ plan' = Overwritten(plan, after)
  BY <1>2, <1>5
<1>9. PICK left \in Nat :
          /\ after \in Plan
          /\ \A i \in Numbers : Follows(plan[i], after[i])
          /\ LeftIn(after) = LeftIn(plan) - amount + left
          /\ PaidIn(after) = PaidIn(plan) + amount - left
          /\ left > 0 => LeftIn(after) = 0
  BY <1>1, <1>7, <1>8, Allocated
<1>10. LeftIn(plan) = sale.remaining /\ debt = sale.remaining
  BY <1>1, <1>4, <1>5 DEF InPeace, Balanced
<1>11. LeftIn(after) = sale.remaining - amount
  BY <1>1, <1>6, <1>9, <1>10
<1>12. plan' = after
  <2>1. \A i \in Numbers : plan'[i] = after[i]
    BY <1>8 DEF Overwritten
  <2>2. plan' = [i \in Numbers |-> plan'[i]] /\ after = [i \in Numbers |-> after[i]]
    BY <1>8, <1>9 DEF Overwritten, Plan
  <2> HIDE DEF t, new
  <2> QED
    BY <2>1, <2>2
<1>13. /\ sale'.remaining = sale.remaining - amount
       /\ sale'.status = IF sale.remaining <= amount THEN "completed" ELSE "pending"
  <2>1. /\ sale'.remaining = Most(0, sale.remaining - amount)
        /\ sale'.status = IF sale.remaining <= amount THEN "completed" ELSE "pending"
    BY <1>1, <1>3, <1>5, PaidSale
  <2>2. Most(0, sale.remaining - amount) = sale.remaining - amount
    BY <1>1, <1>6 DEF Most
  <2> QED
    BY <2>1, <2>2
<1>14. \A i \in Numbers : plan'[i].status # "cancelled"
  <2>1. \A i \in Numbers : plan[i].status # "cancelled"
    BY <1>1, <1>4, <1>5 DEF InPeace, Balanced
  <2> QED
    BY <1>9, <1>12, <2>1 DEF Follows
<1>15. debt' = sale'.remaining
  BY <1>3, <1>10, <1>13
<1>16. /\ sale'.status = "pending" => sale'.remaining > 0
       /\ sale'.status = "completed" => sale'.remaining = 0
       /\ sale'.status \in {"pending", "completed"}
  BY <1>1, <1>6, <1>13
<1>17. Balanced(sale', plan', debt')
  BY <1>11, <1>12, <1>13, <1>14, <1>15, <1>16 DEF Balanced
<1>18. req[r] # Idle
  BY <1>1, IdleKnows
<1>19. req'[r] = new /\ \A s \in Attempts : s # r => req'[s] = req[s]
  BY <1>3, TypedParts
<1>20. UpToDate(new, sale', plan', Len(payments'))
  <2>1. /\ new.op = t.op /\ new.step = "written"
        /\ new.payment = IF t.op = "collect" THEN Len(payments) + 1 ELSE 0
    BY DEF Idle
  <2>2. Len(payments') = Len(payments) + 1
    BY <1>3, TypedParts
  <2> HIDE DEF new, t
  <2> QED
    BY <2>1, <2>2 DEF UpToDate, Holding
<1>21. \A a \in actions' : a.linked = a.made
  BY <1>3, <1>4 DEF InPeace
<1> HIDE DEF new
<1> QED
  BY <1>4, <1>17, <1>18, <1>19, <1>20, <1>21, PeaceKeeps

LEMMA LeftMarked ==
    ASSUME NEW from, NEW to, PlanInv,
           <<from, to>> \in {<<"pending", "cancelled">>, <<"cancelled", "pending">>}
    PROVE  LeftIn(Marked(from, to)) = LeftIn(plan)
<1> DEFINE f == [i \in Numbers |-> Marked(from, to)[i].remaining]
           g == [i \in Numbers |-> plan[i].remaining]
<1>1. \A i \in Numbers : f[i] = g[i]
  BY MarkedRows
<1> HIDE DEF f, g
<1>2. SumOver(f, Numbers) = SumOver(g, Numbers)
  BY <1>1, NumbersFinite, SumSame
<1> QED
  BY <1>2 DEF LeftIn, f, g

LEMMA MarkingInPeace ==
    ASSUME PlanInv, PlanCalm, NEW r \in Attempts, CommitCancel(r) \/ CommitRestore(r)
    PROVE  PlanCalm'
<1> SUFFICES ASSUME calm' PROVE InPeace'
  BY DEF PlanCalm
<1>1. /\ req' = [req EXCEPT ![r] = Idle]
      /\ UNCHANGED <<payments, actions, calm>>
      /\ req[r].step = "read"
  BY DEF CommitCancel, CommitRestore
<1>2. InPeace
  BY <1>1 DEF PlanCalm
<1>3. req[r] # Idle
  BY <1>1 DEF Idle
<1>4. req[r].sale = sale /\ sale.status # "absent"
  BY <1>1, <1>2, RequestTyped DEF InPeace, UpToDate, Knows
<1>5. sale.remaining \in Nat /\ sale \in Sale
  BY TypedParts
<1>6. /\ LeftIn(plan) = sale.remaining
      /\ debt = IF sale.status = "cancelled" THEN 0 ELSE sale.remaining
      /\ sale.status = "cancelled" => \A i \in Numbers : plan[i].status # "pending"
      /\ sale.status # "cancelled" => \A i \in Numbers : plan[i].status # "cancelled"
  BY <1>2, <1>4 DEF InPeace, Balanced
<1>7. Balanced(sale', plan', debt')
  <2>1. CASE CommitCancel(r)
    <3>1. /\ debt' = IF sale.remaining > 0 THEN Most(0, debt - sale.remaining) ELSE debt
          /\ plan' = Marked("pending", "cancelled")
          /\ sale' = [sale EXCEPT !.status = "cancelled"]
          /\ req[r].op = "cancel"
      BY <1>4, <2>1 DEF CommitCancel
    <3>2. sale.status # "cancelled"
      BY <1>1, <1>2, <3>1 DEF InPeace, UpToDate
    <3>3. debt' = 0
      BY <1>5, <1>6, <3>1, <3>2 DEF Most
    <3>4. sale'.status = "cancelled" /\ sale'.remaining = sale.remaining
      BY <1>5, <3>1 DEF Sale
    <3>5. LeftIn(plan') = sale.remaining
      BY <1>6, <3>1, LeftMarked
    <3>6. \A i \in Numbers : plan'[i].status # "pending"
      BY <3>1, MarkedRows
    <3> QED
      BY <3>3, <3>4, <3>5, <3>6 DEF Balanced
  <2>2. CASE CommitRestore(r)
    <3> DEFINE new == IF sale.remaining <= 0 THEN "completed" ELSE "pending"
    <3>1. /\ debt' = debt + sale.remaining
          /\ plan' = Marked("cancelled", "pending")
          /\ sale' = [sale EXCEPT !.status = new]
          /\ req[r].op = "restore"
      BY <1>4, <2>2 DEF CommitRestore
    <3>2. sale.status = "cancelled"
      BY <1>1, <1>2, <3>1 DEF InPeace, UpToDate
    <3>3. debt' = sale.remaining
      BY <1>5, <1>6, <3>1, <3>2
    <3>4. sale'.status = new /\ sale'.remaining = sale.remaining
      BY <1>5, <3>1 DEF Sale
    <3>5. LeftIn(plan') = sale.remaining
      BY <1>6, <3>1, LeftMarked
    <3>6. \A i \in Numbers : plan'[i].status # "cancelled"
      BY <3>1, MarkedRows
    <3>7. /\ new = "pending" => sale.remaining > 0
          /\ new = "completed" => sale.remaining = 0
          /\ new \in {"pending", "completed"}
      BY <1>5
    <3> HIDE DEF new
    <3> QED
      BY <3>3, <3>4, <3>5, <3>6, <3>7 DEF Balanced
  <2> QED
    BY <2>1, <2>2
<1>8. req'[r] = Idle /\ \A s \in Attempts : s # r => req'[s] = req[s]
  BY <1>1, TypedParts
<1>9. UpToDate(req'[r], sale', plan', Len(payments'))
  BY <1>8, IdleUpToDate
<1>10. \A a \in actions' : a.linked = a.made
  BY <1>1, <1>2 DEF InPeace
<1> QED
  BY <1>2, <1>3, <1>7, <1>8, <1>9, <1>10, PeaceKeeps

LEMMA CreateInPeace ==
    ASSUME PlanInv, PlanCalm, Create
    PROVE  PlanCalm'
<1> SUFFICES ASSUME calm' PROVE InPeace'
  BY DEF PlanCalm
<1>1. /\ sale.status = "absent"
      /\ sale'.status \in {"pending", "completed"}
      /\ sale'.status = "pending" <=> sale'.remaining > 0
      /\ sale'.remaining \in Nat
      /\ LeftIn(plan') = sale'.remaining
      /\ \A i \in Numbers : plan'[i].status \in {"none", "pending"}
      /\ debt' = sale'.remaining
      /\ UNCHANGED <<payments, actions, req, calm>>
  BY CreateTyped DEF Sale
<1>2. InPeace
  BY <1>1 DEF PlanCalm
<1>3. \A r \in Attempts : req'[r] = Idle
  BY <1>1, NobodyYet
<1>4. Balanced(sale', plan', debt')
  BY <1>1 DEF Balanced
<1>5. \A r \in Attempts : UpToDate(req'[r], sale', plan', Len(payments'))
  BY <1>3, IdleUpToDate
<1>6. \A a \in actions' : a.linked = a.made
  BY <1>1, <1>2 DEF InPeace
<1> QED
  BY <1>3, <1>4, <1>5, <1>6 DEF InPeace

LEMMA PeaceStart == Init => PlanCalm
<1> SUFFICES ASSUME Init PROVE InPeace
  BY DEF PlanCalm
<1>1. sale.status = "absent" /\ actions = {}
  BY DEF Init, NoSale
<1>2. \A r \in Attempts : req[r] = Idle
  BY DEF Init
<1> QED
  BY <1>1, <1>2, IdleUpToDate DEF InPeace, Balanced

LEMMA PeaceStep == PlanInv /\ PlanCalm /\ [Next]_vars => PlanCalm'
<1> SUFFICES ASSUME PlanInv, PlanCalm, [Next]_vars PROVE PlanCalm'
  OBVIOUS
<1>1. CASE UNCHANGED vars
  BY <1>1 DEF vars, rows, PlanCalm, InPeace
<1>2. CASE Create
  BY <1>2, CreateInPeace
<1>3. ASSUME NEW r \in Attempts, Step(r) PROVE PlanCalm'
  <2>1. CASE AskToPay(r) \/ AskToCollect(r) \/ AskToCancel(r) \/ AskToRestore(r)
    BY <2>1, ArriveInPeace DEF AskToPay, AskToCollect, AskToCancel, AskToRestore
  <2>2. CASE ReadSale(r) \/ ReadPlan(r)
    BY <2>2, ReadsInPeace
  <2>3. CASE CommitPayment(r)
    BY <2>3, PaymentInPeace
  <2>4. CASE Answered(r) \/ LinkAction(r) \/ ActionLost(r) \/ Abort(r)
    BY <2>4, LeavesInPeace
  <2>5. CASE CommitCancel(r) \/ CommitRestore(r)
    BY <2>5, MarkingInPeace
  <2> QED
    BY <1>3, <2>1, <2>2, <2>3, <2>4, <2>5 DEF Step
<1> QED
  BY <1>1, <1>2, <1>3 DEF Next

-----------------------------------------------------------------------------

LEMMA InvAddsUp ==
    PlanInv /\ PlanCalm => PlanAddsUp /\ ActionNamesPayment
BY DEF PlanCalm, InPeace, Balanced, PlanAddsUp, ActionNamesPayment, LeftIn

LEMMA InvReminders == PlanInv /\ PlanCalm => RemindersFollowDebt
<1> SUFFICES ASSUME PlanInv, PlanCalm PROVE NoIdleReminder /\ StillAskedFor
  BY DEF RemindersFollowDebt
<1> DEFINE f == [i \in Numbers |-> plan[i].remaining]
<1>1. \A i \in Numbers : /\ RowOK(plan[i])
                         /\ f[i] = plan[i].remaining /\ f[i] \in Int
                         /\ plan[i].due \in Int
                         /\ plan[i].status \in {"none", "pending", "paid", "cancelled"}
  BY TypedParts, InstallmentsOf, InstallmentFields DEF PlanInv
<1>2. SumOver(f, Numbers) = LeftIn(plan)
  BY DEF LeftIn
<1> HIDE DEF f
<1>3. NoIdleReminder
  <2> SUFFICES ASSUME calm, sale.status \in {"completed", "cancelled"},
                      NEW i \in Numbers, plan[i].status = "pending",
                      \A j \in Numbers : plan[j].status # "none" => plan[j].due > 0
               PROVE  FALSE
    BY <1>1 DEF NoIdleReminder
  <2>1. /\ sale.status # "cancelled"
        /\ LeftIn(plan) = 0
    BY DEF PlanCalm, InPeace, Balanced
  <2>2. \A j \in Numbers : f[j] \in Nat
    <3> SUFFICES ASSUME NEW j \in Numbers PROVE f[j] >= 0
      BY <1>1
    <3>1. CASE plan[j].status = "none"
      BY <1>1, <3>1 DEF RowOK, NoInstallment
    <3>2. CASE plan[j].status # "none"
      <4>1. plan[j].due > 0 /\ plan[j].due \in Int
        BY <1>1, <3>2
      <4>2. plan[j].due >= 0
        BY <4>1
      <4> QED
        BY <1>1, <4>2 DEF RowOK
    <3> QED
      BY <3>1, <3>2
  <2>3. f[i] = 0
    BY <1>2, <2>1, <2>2, NumbersFinite, SumNothing
  <2>4. plan[i].due > 0
    OBVIOUS
  <2>5. plan[i].remaining > 0
    BY <1>1, <2>4 DEF RowOK
  <2> QED
    BY <1>1, <2>3, <2>5
<1>4. StillAskedFor
  <2> SUFFICES ASSUME calm, sale.status = "pending",
                      \A i \in Numbers : ~ (plan[i].status = "pending" /\ plan[i].remaining > 0)
               PROVE  FALSE
    BY DEF StillAskedFor
  <2>1. /\ LeftIn(plan) = sale.remaining /\ sale.remaining > 0
        /\ \A i \in Numbers : plan[i].status # "cancelled"
    BY DEF PlanCalm, InPeace, Balanced
  <2>2. \A i \in Numbers : f[i] <= 0
    <3> SUFFICES ASSUME NEW i \in Numbers PROVE f[i] <= 0
      OBVIOUS
    <3>1. CASE plan[i].status = "none"
      BY <1>1, <3>1 DEF RowOK, NoInstallment
    <3>2. CASE plan[i].status = "paid"
      BY <1>1, <3>2 DEF RowOK
    <3>3. CASE plan[i].status = "pending"
      BY <1>1, <3>3
    <3> QED
      BY <1>1, <2>1, <3>1, <3>2, <3>3
  <2> DEFINE z == [i \in Numbers |-> 0]
  <2>3. \A i \in Numbers : z[i] = 0
    OBVIOUS
  <2> HIDE DEF z
  <2>4. SumOver(z, Numbers) = 0
    BY <2>3, NumbersFinite, SumZero
  <2>5. SumOver(f, Numbers) <= SumOver(z, Numbers)
    <3>1. \A i \in Numbers : f[i] \in Int /\ z[i] \in Int /\ f[i] <= z[i]
      BY <1>1, <2>2, <2>3
    <3> QED
      BY <3>1, NumbersFinite, SumMono
  <2>6. sale.remaining \in Nat
    BY TypedParts
  <2> QED
    BY <1>2, <2>1, <2>4, <2>5, <2>6
<1> QED
  BY <1>3, <1>4

LEMMA PlanInvariant == Spec => [](PlanInv /\ PlanCalm)
<1>1. Init => PlanInv /\ PlanCalm
  BY PlanStart, PeaceStart
<1>2. PlanInv /\ PlanCalm /\ [Next]_vars => PlanInv' /\ PlanCalm'
  BY PlanStep, PeaceStep
<1> QED
  BY <1>1, <1>2, PTL DEF Spec

\* However payments, cancellations and restorations of an installment invoice
\* interleave, the schedule shows no more as paid than the payments collected,
\* unless a share is negative; in the calm what it asks for is what the invoice
\* and the customer's debt say is left, and a collector's action names the
\* payment made with it.
THEOREM InstallmentsAgree == Spec => []CollectionsAgree
<1>1. KeysSpec => []KeysInv
  BY KeysStart, KeysStep, PTL DEF KeysSpec
<1>2. KeysInv /\ PlanInv /\ PlanCalm => CollectionsAgree
  <2>1. KeysInv /\ PlanInv => TypeOK
    BY DEF KeysInv, PlanInv, RowsTyped, TypeOK
  <2> QED
    BY <2>1, InvNoPhantom, InvAddsUp DEF CollectionsAgree
<1> QED
  BY <1>1, <1>2, PlanInvariant, PaymentsUseKeys, PTL

\* In the calm some installment asks for money while some is owed, and none
\* is left pending once the invoice is settled or cancelled, unless a share is
\* zero or negative.
THEOREM RemindersFollow == Spec => []RemindersFollowDebt
BY PlanInvariant, InvReminders, PTL

-----------------------------------------------------------------------------
(* Part 3: Purchases *)

-----------------------------------------------------------------------------
(* The inductive invariants of Purchases *)

\* What holds of one invoice, its movements and its layer at any time.
Explained(row, m, l) ==
    /\ row.status = "absent" => row = NoRow /\ m = 0
    /\ row.status = "received" => m = row.qty - row.returned
    /\ row.status = "received" => row.paid <= row.vouchers
    /\ row.status = "cancelled" => m = -row.returned
    /\ row.status = "cancelled" => l = 0
    /\ l <= row.qty

\* What a request has read and still holds, whatever came in between: the
\* invoice's quantity never changes, its vouchers only grow while it stands.
Snapped(q, bills) ==
    q.op # "idle" =>
        /\ q.invoice \in Invoices
        /\ bills[q.invoice].status # "absent"
        /\ q.snap.qty = bills[q.invoice].qty
        /\ q.op = "return" => 1 <= q.qty
        /\ q.op = "pay" /\ bills[q.invoice].status = "received"
            => q.snap.paid <= bills[q.invoice].vouchers

IInv ==
    /\ PurchaseTypeOK
    /\ \A i \in Invoices : Explained(invoice[i], moved[i], layer[i])
    /\ \A r \in Requests : Snapped(errand[r], invoice)
    /\ LayersWithinStock

\* In the calm what a request has read is what the invoice still is.
Fresh(q, bills) ==
    q.op # "idle" =>
        /\ bills[q.invoice].status = "received"
        /\ q.snap = bills[q.invoice]
        /\ q.op = "pay" => q.qty <= q.snap.rem
        /\ q.op = "cancel" => q.snap.returned = 0
        /\ q.op = "return" => q.qty + q.snap.returned <= q.snap.qty

Settled(row) ==
    /\ row.status = "received" =>
        /\ row.paid = row.vouchers
        /\ row.paid + row.rem = row.total - row.reduced
        /\ row.returned <= row.qty
    /\ row.status = "cancelled" => row.vouchers = 0 /\ row.refunds = 0

\* What an invoice adds to the supplier's debt, and what was never added.
Owes(row) == IF row.status = "received" THEN row.rem ELSE 0
Opened(row) == IF row.opening THEN row.total ELSE 0
Due(bills) == SumOver([i \in Invoices |-> Owes(bills[i])], Invoices)
Preset(bills) == SumOver([i \in Invoices |-> Opened(bills[i])], Invoices)

OneByOne == \A r, s \in Requests : errand[r] # AtRest /\ errand[s] # AtRest => r = s

CInv ==
    orderly =>
        /\ OneByOne
        /\ \A r \in Requests : Fresh(errand[r], invoice)
        /\ \A i \in Invoices : Settled(invoice[i])
        /\ supplierDebt = Due(invoice) - Preset(invoice)

-----------------------------------------------------------------------------
(* Rows, requests and sums *)

LEMMA NoRowTyped == NoRow \in Invoice
BY DEF NoRow, Invoice

LEMMA IdleTyped == AtRest \in PurchaseRequest
BY NoRowTyped DEF AtRest, PurchaseRequest

LEMMA InvoicesFinite ==
    IsFiniteSet(Invoices)
BY PurchasesAssumption DEF PurchasesAssumption

LEMMA LayersFinite ==
    IsFiniteSet(Layers)
BY InvoicesFinite, FS_Singleton, FS_Union DEF Layers

LEMMA OwedTyped ==
    ASSUME NEW row \in Invoice
    PROVE  Owes(row) \in Int /\ Opened(row) \in Int
BY DEF Owes, Opened, Invoice

\* The sums of DebtIsOwed over some invoices are sums over all of them.
LEMMA DueIsSum ==
    ASSUME NEW table \in [Invoices -> Invoice]
    PROVE  /\ SumOver([i \in Invoices |-> table[i].rem],
                      {i \in Invoices : table[i].status = "received"}) = Due(table)
           /\ SumOver([i \in Invoices |-> table[i].total],
                      {i \in Invoices : table[i].opening}) = Preset(table)
<1> DEFINE f == [i \in Invoices |-> table[i].rem]
           g == [i \in Invoices |-> Owes(table[i])]
           T == {i \in Invoices : table[i].status = "received"}
           h == [i \in Invoices |-> table[i].total]
           k == [i \in Invoices |-> Opened(table[i])]
           U == {i \in Invoices : table[i].opening}
<1>1. \A i \in Invoices : f[i] \in Int /\ g[i] = IF i \in T THEN f[i] ELSE 0
  BY DEF Invoice, Owes
<1>2. \A i \in Invoices : h[i] \in Int /\ k[i] = IF i \in U THEN h[i] ELSE 0
  BY DEF Invoice, Opened
<1>3. IsFiniteSet(Invoices) /\ T \in SUBSET Invoices /\ U \in SUBSET Invoices
  BY InvoicesFinite
<1> HIDE DEF f, g, h, k, T, U
<1>4. SumOver(f, T) = SumOver(g, Invoices)
  BY <1>1, <1>3, SumPart
<1>5. SumOver(h, U) = SumOver(k, Invoices)
  BY <1>2, <1>3, SumPart
<1> QED
  BY <1>4, <1>5 DEF f, g, h, k, T, U, Due, Preset

\* A step that writes one invoice changes the sums by that invoice's change.
LEMMA DueChanges ==
    ASSUME NEW table \in [Invoices -> Invoice], NEW i \in Invoices,
           NEW row \in Invoice, NEW after, after = [table EXCEPT ![i] = row]
    PROVE  /\ Due(table) \in Int
           /\ Preset(table) \in Int
           /\ Due(after) = Due(table) + Owes(row) - Owes(table[i])
           /\ Preset(after) = Preset(table) + Opened(row) - Opened(table[i])
<1> DEFINE f == [j \in Invoices |-> Owes(table[j])]
           g == [j \in Invoices |-> Owes(after[j])]
           h == [j \in Invoices |-> Opened(table[j])]
           k == [j \in Invoices |-> Opened(after[j])]
<1>1. after \in [Invoices -> Invoice] /\ after[i] = row
  OBVIOUS
<1>2. \A j \in Invoices : j # i => after[j] = table[j]
  OBVIOUS
<1>3. \A j \in Invoices : /\ f[j] \in Int /\ g[j] \in Int
                          /\ h[j] \in Int /\ k[j] \in Int
  BY <1>1, OwedTyped
<1>4. \A j \in Invoices : j # i => f[j] = g[j] /\ h[j] = k[j]
  BY <1>2
<1>5. /\ f[i] = Owes(table[i]) /\ g[i] = Owes(row)
      /\ h[i] = Opened(table[i]) /\ k[i] = Opened(row)
  BY <1>1
<1> HIDE DEF f, g, h, k
<1>6. IsFiniteSet(Invoices)
  BY InvoicesFinite
<1>7. SumOver(f, Invoices) \in Int /\ SumOver(h, Invoices) \in Int
  BY <1>3, <1>6, SumInt
<1>8. SumOver(g, Invoices) = SumOver(f, Invoices) + g[i] - f[i]
  BY <1>3, <1>4, <1>6, SumChange
<1>9. SumOver(k, Invoices) = SumOver(h, Invoices) + k[i] - h[i]
  BY <1>3, <1>4, <1>6, SumChange
<1> QED
  BY <1>5, <1>7, <1>8, <1>9 DEF Due, Preset, f, g, h, k

\* A smaller layer explains an invoice as well.
LEMMA ExplainedByLess ==
    ASSUME NEW row \in Invoice, NEW m \in Int, NEW l \in Nat, NEW k \in Nat,
           k <= l, Explained(row, m, l)
    PROVE  Explained(row, m, k)
<1>1. row.qty \in Nat
  BY DEF Invoice
<1>2. l <= row.qty
  BY DEF Explained
<1>3. k <= row.qty
  BY <1>1, <1>2
<1>4. row.status = "cancelled" => k = 0
  BY DEF Explained
<1> QED
  BY <1>3, <1>4 DEF Explained

\* A step that leaves the requests alone and writes no invoice a request
\* may hold leaves them what they have read.
LEMMA SnappedStay ==
    ASSUME NEW q, NEW table \in [Invoices -> Invoice], Snapped(q, table),
           NEW i \in Invoices, NEW row \in Invoice,
           \/ table[i].status = "absent"
           \/ /\ row.status # "absent"
              /\ row.qty = table[i].qty
              /\ row.status = "received" =>
                    /\ table[i].status = "received"
                    /\ table[i].vouchers <= row.vouchers,
           q.snap \in Invoice
    PROVE  Snapped(q, [table EXCEPT ![i] = row])
<1> DEFINE after == [table EXCEPT ![i] = row]
<1>1. after[i] = row /\ \A j \in Invoices : j # i => after[j] = table[j]
  OBVIOUS
<1> HIDE DEF after
<1> SUFFICES ASSUME q.op # "idle" PROVE Snapped(q, after)
  BY DEF Snapped, after
<1>2. q.invoice \in Invoices /\ table[q.invoice].status # "absent"
  BY DEF Snapped
<1>3. CASE q.invoice # i
  BY <1>1, <1>2, <1>3 DEF Snapped
<1>4. CASE q.invoice = i
  <2>1. /\ row.status # "absent"
        /\ row.qty = table[i].qty
        /\ row.status = "received" =>
              /\ table[i].status = "received"
              /\ table[i].vouchers <= row.vouchers
    BY <1>2, <1>4
  <2>2. /\ q.snap.paid \in Nat /\ table[i].vouchers \in Nat /\ row.vouchers \in Nat
    BY DEF Invoice
  <2>3. q.op = "pay" /\ row.status = "received" => q.snap.paid <= table[i].vouchers
    BY <1>4, <2>1 DEF Snapped
  <2>4. q.op = "pay" /\ row.status = "received" => q.snap.paid <= row.vouchers
    BY <2>1, <2>2, <2>3
  <2> QED
    BY <1>1, <1>2, <1>4, <2>1, <2>4 DEF Snapped
<1> QED
  BY <1>3, <1>4

-----------------------------------------------------------------------------
(* Steps that start or end a request and write no table *)

LEMMA TypesHold ==
    ASSUME IInv
    PROVE  /\ invoice \in [Invoices -> Invoice]
           /\ moved \in [Invoices -> Int]
           /\ layer \in [Layers -> Nat]
           /\ errand \in [Requests -> PurchaseRequest]
           /\ stock \in Nat /\ supplierDebt \in Int
           /\ trades \in 0..MaxTrades /\ orderly \in BOOLEAN
           /\ \A i \in Invoices : i \in Layers
BY DEF IInv, PurchaseTypeOK, Layers

\* Requests come and go; the tables stay.
LEMMA RequestsChange ==
    ASSUME IInv, NEW r \in Requests, NEW t \in PurchaseRequest, Snapped(t, invoice),
           errand' = [errand EXCEPT ![r] = t], UNCHANGED tables,
           trades' \in 0..MaxTrades, orderly' \in BOOLEAN
    PROVE  IInv'
<1>1. /\ invoice' = invoice /\ moved' = moved /\ layer' = layer
      /\ stock' = stock /\ supplierDebt' = supplierDebt
  BY DEF tables
<1>2. errand \in [Requests -> PurchaseRequest]
  BY TypesHold
<1>3. errand' \in [Requests -> PurchaseRequest]
  BY <1>2
<1>4. \A s \in Requests : errand'[s] = t \/ errand'[s] = errand[s]
  BY <1>2
<1>5. \A s \in Requests : Snapped(errand[s], invoice)
  BY DEF IInv
<1>6. \A s \in Requests : Snapped(errand'[s], invoice')
  BY <1>1, <1>4, <1>5
<1>7. PurchaseTypeOK'
  BY <1>1, <1>3 DEF IInv, PurchaseTypeOK
<1>8. \A i \in Invoices : Explained(invoice'[i], moved'[i], layer'[i])
  BY <1>1 DEF IInv
<1>9. LayersWithinStock'
  BY <1>1 DEF IInv, LayersWithinStock
<1> QED
  BY <1>6, <1>7, <1>8, <1>9 DEF IInv

\* In the calm a request starts only when there is no other.
LEMMA CalmStart ==
    ASSUME IInv, CInv, NEW r \in Requests, NEW t \in PurchaseRequest,
           errand[r] = AtRest, Fresh(t, invoice),
           errand' = [errand EXCEPT ![r] = t], UNCHANGED tables,
           orderly' = (orderly /\ \A other \in Requests \ {r} : errand[other] = AtRest)
    PROVE  CInv'
<1>1. invoice' = invoice /\ supplierDebt' = supplierDebt
  BY DEF tables
<1> SUFFICES ASSUME orderly' PROVE CInv'
  BY DEF CInv
<1>2. orderly /\ \A other \in Requests \ {r} : errand[other] = AtRest
  OBVIOUS
<1>3. \A s \in Requests : s # r => errand'[s] = AtRest
  BY <1>2, TypesHold
<1>4. errand'[r] = t
  BY TypesHold
<1>5. OneByOne'
  BY <1>3 DEF OneByOne
<1>6. \A s \in Requests : Fresh(errand'[s], invoice')
  <2>1. Fresh(AtRest, invoice)
    BY DEF Fresh, AtRest
  <2> QED
    BY <1>1, <1>3, <1>4, <2>1
<1>7. \A i \in Invoices : Settled(invoice'[i])
  BY <1>1, <1>2 DEF CInv
<1>8. supplierDebt = Due(invoice) - Preset(invoice)
  BY <1>2 DEF CInv
<1>9. supplierDebt' = Due(invoice') - Preset(invoice')
  BY <1>1, <1>8
<1>10. OneByOne' /\ (\A s \in Requests : Fresh(errand[s], invoice)')
       /\ (\A i \in Invoices : Settled(invoice[i])')
       /\ (supplierDebt = Due(invoice) - Preset(invoice))'
  BY <1>5, <1>6, <1>7, <1>9
<1> QED
  BY <1>10 DEF CInv

LEMMA AbortKeeps ==
    ASSUME IInv, CInv, NEW r \in Requests, AbortPurchase(r)
    PROVE  IInv' /\ CInv'
<1>1. /\ errand' = [errand EXCEPT ![r] = AtRest]
      /\ UNCHANGED tables /\ trades' = trades /\ orderly' = orderly
  BY DEF AbortPurchase
<1>2. Snapped(AtRest, invoice) /\ Fresh(AtRest, invoice)
  BY DEF Snapped, Fresh, AtRest
<1>3. IInv'
  BY <1>1, <1>2, IdleTyped, TypesHold, RequestsChange
<1>4. CInv'
  <2>1. invoice' = invoice /\ supplierDebt' = supplierDebt
    BY <1>1 DEF tables
  <2> SUFFICES ASSUME orderly' PROVE CInv'
    BY DEF CInv
  <2>2. /\ OneByOne
        /\ \A s \in Requests : Fresh(errand[s], invoice)
        /\ \A i \in Invoices : Settled(invoice[i])
        /\ supplierDebt = Due(invoice) - Preset(invoice)
    BY <1>1 DEF CInv
  <2>3. \A s \in Requests : errand'[s] = AtRest \/ errand'[s] = errand[s]
    BY <1>1, TypesHold
  <2>4. OneByOne'
    BY <2>2, <2>3 DEF OneByOne
  <2>5. \A s \in Requests : Fresh(errand'[s], invoice')
    BY <1>2, <2>1, <2>2, <2>3
  <2>6. supplierDebt' = Due(invoice') - Preset(invoice')
    BY <2>1, <2>2
  <2>7. \A i \in Invoices : Settled(invoice'[i])
    BY <2>1, <2>2
  <2> QED
    BY <2>4, <2>5, <2>6, <2>7 DEF CInv
<1> QED
  BY <1>3, <1>4

\* A request that was let in on a standing invoice.
LEMMA AcceptKeeps ==
    ASSUME IInv, CInv, NEW r \in Requests, NEW op \in {"pay", "cancel", "return"},
           NEW i \in Invoices, NEW q \in Nat, NEW credit \in BOOLEAN,
           Accept(r, op, i, q, credit), Received(i),
           op = "pay" => q <= invoice[i].rem,
           op = "cancel" => invoice[i].returned = 0,
           op = "return" => 1 <= q /\ q <= invoice[i].qty - invoice[i].returned
    PROVE  IInv' /\ CInv'
<1> DEFINE t == [op |-> op, invoice |-> i, snap |-> invoice[i],
                 qty |-> q, credit |-> credit]
<1>1. /\ errand[r] = AtRest /\ trades < MaxTrades /\ trades' = trades + 1
      /\ errand' = [errand EXCEPT ![r] = t] /\ UNCHANGED tables
      /\ orderly' = (orderly /\ \A other \in Requests \ {r} : errand[other] = AtRest)
  BY DEF Accept
<1>2. invoice[i] \in Invoice /\ invoice[i].status = "received"
  BY TypesHold DEF Received
<1>3. t \in PurchaseRequest
  BY <1>2 DEF PurchaseRequest
<1>4. /\ t.op = op /\ t.invoice = i /\ t.snap = invoice[i] /\ t.qty = q
  OBVIOUS
<1>5. invoice[i].paid <= invoice[i].vouchers
  BY <1>2 DEF IInv, Explained
<1> HIDE DEF t
<1>6. Snapped(t, invoice)
  BY <1>2, <1>4, <1>5 DEF Snapped
<1>7. op = "return" => q + invoice[i].returned <= invoice[i].qty
  <2>1. invoice[i].returned \in Nat /\ invoice[i].qty \in Nat
    BY <1>2 DEF Invoice
  <2> QED
    BY <2>1
<1>8. Fresh(t, invoice)
  BY <1>2, <1>4, <1>7 DEF Fresh
<1>9. trades' \in 0..MaxTrades
  BY <1>1, TypesHold, PurchasesAssumption DEF PurchasesAssumption
<1>10. orderly' \in BOOLEAN
  BY <1>1, TypesHold
<1>11. IInv'
  BY <1>1, <1>3, <1>6, <1>9, <1>10, RequestsChange
<1>12. CInv'
  BY <1>1, <1>3, <1>8, CalmStart
<1> QED
  BY <1>11, <1>12

LEMMA BeginKeeps ==
    ASSUME IInv, CInv, NEW r \in Requests,
           BeginPayment(r) \/ BeginCancel(r) \/ BeginReturn(r)
    PROVE  IInv' /\ CInv'
<1>1. CASE BeginPayment(r)
  <2>1. PICK i \in Invoices : \E a \in 1..invoice[i].rem :
            Received(i) /\ Accept(r, "pay", i, a, FALSE)
    BY <1>1 DEF BeginPayment
  <2>2. PICK a \in 1..invoice[i].rem : Received(i) /\ Accept(r, "pay", i, a, FALSE)
    BY <2>1
  <2>3. invoice[i].rem \in Int
    BY TypesHold DEF Invoice
  <2>4. a \in Nat /\ a <= invoice[i].rem
    BY <2>3
  <2> QED
    BY <2>2, <2>4, AcceptKeeps
<1>2. CASE BeginCancel(r)
  <2>1. PICK i \in Invoices : /\ Received(i)
                              /\ invoice[i].returned = 0
                              /\ Accept(r, "cancel", i, 0, FALSE)
    BY <1>2 DEF BeginCancel
  <2>2. "cancel" # "pay" /\ "cancel" # "return" /\ 0 \in Nat
    OBVIOUS
  <2>3. Accept(r, "cancel", i, 0, FALSE) /\ FALSE \in BOOLEAN
    BY <2>1
  <2> QED
    BY <2>1, <2>2, <2>3, AcceptKeeps, Zenon
<1>3. CASE BeginReturn(r)
  <2>1. PICK i \in Invoices, q \in Quantities, credit \in BOOLEAN :
            /\ Received(i)
            /\ q <= invoice[i].qty - invoice[i].returned
            /\ Accept(r, "return", i, q, credit)
    BY <1>3 DEF BeginReturn
  <2>2. q \in Nat /\ 1 <= q
    BY PurchasesAssumption DEF PurchasesAssumption
  <2> QED
    BY <2>1, <2>2, AcceptKeeps
<1> QED
  BY <1>1, <1>2, <1>3

-----------------------------------------------------------------------------
(* Transactions that write one invoice *)

\* What a transaction has to show of the row it writes and of the goods it
\* moves; all other invoices keep theirs, save what their layers give.
LEMMA WriteKeeps ==
    ASSUME IInv, NEW i \in Invoices, NEW row \in Invoice,
           invoice' = [invoice EXCEPT ![i] = row],
           \/ invoice[i].status = "absent"
           \/ /\ row.status # "absent"
              /\ row.qty = invoice[i].qty
              /\ row.status = "received" =>
                    /\ invoice[i].status = "received"
                    /\ invoice[i].vouchers <= row.vouchers,
           layer' \in [Layers -> Nat],
           \A x \in Layers : x # i => layer'[x] <= layer[x],
           moved' \in [Invoices -> Int],
           \A j \in Invoices : j # i => moved'[j] = moved[j],
           Explained(row, moved'[i], layer'[i]),
           stock' \in Nat, SumOver(layer', Layers) <= stock', supplierDebt' \in Int,
           trades' \in 0..MaxTrades, orderly' \in BOOLEAN,
           errand' \in [Requests -> PurchaseRequest],
           \A s \in Requests : errand'[s] = errand[s] \/ errand'[s] = AtRest
    PROVE  IInv'
<1>1. invoice' \in [Invoices -> Invoice] /\ invoice'[i] = row
  BY TypesHold
<1>2. \A j \in Invoices : j # i => invoice'[j] = invoice[j]
  BY TypesHold
<1>3. PurchaseTypeOK'
  BY <1>1 DEF PurchaseTypeOK
<1>4. ASSUME NEW j \in Invoices
      PROVE  Explained(invoice'[j], moved'[j], layer'[j])
  <2>1. CASE j = i
    BY <1>1, <2>1
  <2>2. CASE j # i
    <3>1. Explained(invoice[j], moved[j], layer[j])
      BY DEF IInv
    <3>2. /\ invoice[j] \in Invoice /\ moved[j] \in Int
          /\ layer[j] \in Nat /\ layer'[j] \in Nat /\ layer'[j] <= layer[j]
      BY TypesHold, <2>2
    <3>3. Explained(invoice[j], moved[j], layer'[j])
      BY <3>1, <3>2, ExplainedByLess
    <3> QED
      BY <1>2, <2>2, <3>3
  <2> QED
    BY <2>1, <2>2
<1>5. ASSUME NEW s \in Requests
      PROVE  Snapped(errand'[s], invoice')
  <2>1. CASE errand'[s] = AtRest
    BY <2>1 DEF Snapped, AtRest
  <2>2. CASE errand'[s] = errand[s]
    <3>1. Snapped(errand[s], invoice)
      BY DEF IInv
    <3>2. errand[s].snap \in Invoice /\ invoice \in [Invoices -> Invoice]
      BY TypesHold DEF PurchaseRequest
    <3>3. Snapped(errand[s], [invoice EXCEPT ![i] = row])
      BY <3>1, <3>2, SnappedStay
    <3> QED
      BY <2>2, <3>3
  <2> QED
    BY <2>1, <2>2
<1>6. LayersWithinStock'
  BY DEF LayersWithinStock
<1> QED
  BY <1>3, <1>4, <1>5, <1>6 DEF IInv

\* The money of the row it writes, with the supplier's debt following.
LEMMA WriteSettles ==
    ASSUME IInv, CInv, NEW i \in Invoices, NEW row \in Invoice,
           invoice' = [invoice EXCEPT ![i] = row],
           orderly' => orderly,
           orderly => Settled(row),
           orderly => supplierDebt' = supplierDebt + (Owes(row) - Owes(invoice[i]))
                                - (Opened(row) - Opened(invoice[i])),
           \/ \E r \in Requests : /\ errand[r] # AtRest
                                  /\ errand' = [errand EXCEPT ![r] = AtRest]
           \/ /\ invoice[i].status = "absent"
              /\ errand' = errand
    PROVE  CInv'
<1> SUFFICES ASSUME orderly' PROVE CInv'
  BY DEF CInv
<1>0. orderly
  OBVIOUS
<1>1. /\ OneByOne
      /\ \A s \in Requests : Fresh(errand[s], invoice)
      /\ \A j \in Invoices : Settled(invoice[j])
      /\ supplierDebt = Due(invoice) - Preset(invoice)
  BY <1>0 DEF CInv
<1>2. invoice' \in [Invoices -> Invoice] /\ invoice'[i] = row
      /\ \A j \in Invoices : j # i => invoice'[j] = invoice[j]
  BY TypesHold
<1>3. \A j \in Invoices : Settled(invoice'[j])
  BY <1>0, <1>1, <1>2
<1>4. supplierDebt' = Due(invoice') - Preset(invoice')
  <2>1. /\ Due(invoice) \in Int /\ Preset(invoice) \in Int
        /\ Due(invoice') = Due(invoice) + Owes(row) - Owes(invoice[i])
        /\ Preset(invoice') = Preset(invoice) + Opened(row) - Opened(invoice[i])
    BY TypesHold, DueChanges
  <2>2. /\ Owes(row) \in Int /\ Owes(invoice[i]) \in Int
        /\ Opened(row) \in Int /\ Opened(invoice[i]) \in Int
    BY TypesHold, OwedTyped
  <2>3. supplierDebt' = supplierDebt + (Owes(row) - Owes(invoice[i]))
                     - (Opened(row) - Opened(invoice[i]))
    BY <1>0
  <2> QED
    BY <1>1, <2>1, <2>2, <2>3
<1>5. OneByOne' /\ \A s \in Requests : Fresh(errand'[s], invoice')
  <2>1. CASE \E r \in Requests : errand[r] # AtRest /\ errand' = [errand EXCEPT ![r] = AtRest]
    <3>1. PICK r \in Requests : errand[r] # AtRest /\ errand' = [errand EXCEPT ![r] = AtRest]
      BY <2>1
    <3>2. \A s \in Requests : errand'[s] = AtRest
      BY <1>1, <3>1, TypesHold DEF OneByOne
    <3>3. OneByOne'
      BY <3>2 DEF OneByOne
    <3>4. AtRest.op = "idle"
      BY DEF AtRest
    <3>5. \A s \in Requests : Fresh(errand'[s], invoice')
      BY <3>2, <3>4 DEF Fresh
    <3> QED
      BY <3>3, <3>5
  <2>2. CASE invoice[i].status = "absent" /\ errand' = errand
    <3>1. OneByOne'
      BY <1>1, <2>2 DEF OneByOne
    <3>2. ASSUME NEW s \in Requests PROVE Fresh(errand[s], invoice')
      <4> SUFFICES ASSUME errand[s].op # "idle" PROVE Fresh(errand[s], invoice')
        BY DEF Fresh
      <4>1. Fresh(errand[s], invoice) /\ Snapped(errand[s], invoice)
        BY <1>1 DEF IInv
      <4>2. errand[s].invoice \in Invoices /\ errand[s].invoice # i
        BY <2>2, <4>1 DEF Snapped
      <4>3. invoice'[errand[s].invoice] = invoice[errand[s].invoice]
        BY <1>2, <4>2
      <4> QED
        BY <4>1, <4>3 DEF Fresh
    <3> QED
      BY <2>2, <3>1, <3>2
  <2> QED
    BY <2>1, <2>2
<1> QED
  BY <1>3, <1>4, <1>5 DEF CInv

-----------------------------------------------------------------------------
(* Purchases and sales, each at once *)

\* A transaction of its own.
LEMMA AtOnceTyped ==
    ASSUME IInv, AtOnce
    PROVE  /\ trades' \in 0..MaxTrades /\ orderly' \in BOOLEAN
           /\ errand' \in [Requests -> PurchaseRequest]
           /\ \A s \in Requests : errand'[s] = errand[s] \/ errand'[s] = AtRest
           /\ errand' = errand /\ orderly' = orderly
BY TypesHold, PurchasesAssumption DEF AtOnce, PurchasesAssumption

\* The layers whose sum is bounded stay so when one of them is changed.
LEMMA LayerChanges ==
    ASSUME NEW units \in [Layers -> Nat], NEW after \in [Layers -> Nat],
           NEW x \in Layers, \A y \in Layers : y # x => after[y] = units[y]
    PROVE  /\ SumOver(units, Layers) \in Nat
           /\ SumOver(after, Layers) = SumOver(units, Layers) + after[x] - units[x]
<1> DEFINE f == units
           g == after
<1>1. SumOver(f, Layers) \in Nat
  BY LayersFinite, SumNat
<1>2. \A y \in Layers : f[y] \in Int /\ g[y] \in Int
  OBVIOUS
<1>3. \A y \in Layers : y # x => f[y] = g[y]
  OBVIOUS
<1> HIDE DEF f, g
<1>4. SumOver(g, Layers) = SumOver(f, Layers) + g[x] - f[x]
  BY <1>2, <1>3, LayersFinite, SumChange
<1> QED
  BY <1>1, <1>4 DEF f, g

LEMMA AbsentIsEmpty ==
    ASSUME IInv, NEW i \in Invoices, invoice[i].status = "absent"
    PROVE  /\ invoice[i] = NoRow /\ moved[i] = 0 /\ layer[i] = 0
           /\ Owes(invoice[i]) = 0 /\ Opened(invoice[i]) = 0
<1>1. invoice[i] = NoRow /\ moved[i] = 0 /\ layer[i] <= invoice[i].qty
  BY DEF IInv, Explained
<1>2. NoRow.qty = 0 /\ layer[i] \in Nat
  BY TypesHold DEF NoRow
<1>3. layer[i] = 0
  BY <1>1, <1>2
<1> QED
  BY <1>1, <1>3 DEF Owes, Opened, NoRow

LEMMA InvoiceKeeps ==
    ASSUME IInv, CInv, CreatePurchase
    PROVE  IInv' /\ CInv'
<1>1. PICK i \in Invoices, q \in Quantities, d \in Discounts :
        \E p \in 0..AtLeastZero(q - d) :
          LET total == AtLeastZero(q - d)
          IN  /\ AtOnce
              /\ invoice[i].status = "absent"
              /\ invoice' = [invoice EXCEPT ![i] =
                    [NoRow EXCEPT !.status = "received", !.qty = q, !.total = total,
                                  !.paid = p, !.rem = total - p, !.vouchers = p]]
              /\ AddGoods(i, q)
              /\ supplierDebt' = supplierDebt + (total - p)
  BY DEF CreatePurchase
<1> DEFINE total == AtLeastZero(q - d)
<1>2. q \in Nat /\ d \in Nat
  BY PurchasesAssumption DEF PurchasesAssumption
<1>3. total \in Nat
  BY <1>2 DEF AtLeastZero
<1>4. PICK p \in 0..total :
              /\ AtOnce
              /\ invoice[i].status = "absent"
              /\ invoice' = [invoice EXCEPT ![i] =
                    [NoRow EXCEPT !.status = "received", !.qty = q, !.total = total,
                                  !.paid = p, !.rem = total - p, !.vouchers = p]]
              /\ AddGoods(i, q)
              /\ supplierDebt' = supplierDebt + (total - p)
  BY <1>1
<1> HIDE DEF total
<1> DEFINE row == [NoRow EXCEPT !.status = "received", !.qty = q, !.total = total,
                                !.paid = p, !.rem = total - p, !.vouchers = p]
<1>5. p \in Nat /\ total - p \in Int
  BY <1>3
<1>7. row \in Invoice
  BY <1>2, <1>3, <1>5, NoRowTyped DEF Invoice
<1>8. /\ row.status = "received" /\ row.opening = FALSE /\ row.qty = q
      /\ row.total = total /\ row.paid = p /\ row.rem = total - p
      /\ row.vouchers = p /\ row.returned = 0 /\ row.reduced = 0
  BY DEF NoRow
<1>9. invoice' = [invoice EXCEPT ![i] = row]
  BY <1>4
<1> HIDE DEF row
<1>10. /\ moved[i] = 0 /\ layer[i] = 0
       /\ Owes(invoice[i]) = 0 /\ Opened(invoice[i]) = 0
  BY <1>4, AbsentIsEmpty
<1>11. /\ layer' = [layer EXCEPT ![i] = q] /\ stock' = stock + q
       /\ moved' = [moved EXCEPT ![i] = moved[i] + q]
  BY <1>4 DEF AddGoods
<1>12. /\ layer' \in [Layers -> Nat] /\ layer'[i] = q
       /\ \A y \in Layers : y # i => layer'[y] = layer[y]
       /\ SumOver(layer, Layers) \in Nat
       /\ SumOver(layer', Layers) = SumOver(layer, Layers) + q - layer[i]
  <2>1. /\ layer' \in [Layers -> Nat] /\ layer'[i] = q
        /\ \A y \in Layers : y # i => layer'[y] = layer[y]
    BY <1>2, <1>11, TypesHold
  <2> QED
    BY <2>1, TypesHold, LayerChanges
<1>13. stock' \in Nat /\ SumOver(layer', Layers) <= stock'
  <2>1. SumOver(layer, Layers) <= stock /\ stock \in Nat
    BY TypesHold DEF IInv, LayersWithinStock
  <2> QED
    BY <1>2, <1>10, <1>11, <1>12, <2>1
<1>14. moved' \in [Invoices -> Int] /\ moved'[i] = q
       /\ \A j \in Invoices : j # i => moved'[j] = moved[j]
  BY <1>2, <1>10, <1>11, TypesHold
<1>15. Explained(row, moved'[i], layer'[i])
  BY <1>2, <1>3, <1>5, <1>8, <1>12, <1>14 DEF Explained
<1>16. supplierDebt' \in Int
  BY <1>4, <1>5, TypesHold
<1>17. \A x \in Layers : x # i => layer'[x] <= layer[x]
  BY <1>12, TypesHold
<1>18. IInv'
  BY <1>4, <1>7, <1>9, <1>12, <1>13, <1>14, <1>15, <1>16, <1>17, AtOnceTyped, WriteKeeps
<1>19. Settled(row)
  BY <1>2, <1>3, <1>5, <1>8 DEF Settled
<1>20. supplierDebt' = supplierDebt + (Owes(row) - Owes(invoice[i])) - (Opened(row) - Opened(invoice[i]))
  <2>1. Owes(row) = total - p /\ Opened(row) = 0
    BY <1>8 DEF Owes, Opened
  <2> QED
    BY <1>4, <1>5, <1>10, <2>1, TypesHold
<1>21. CInv'
  <2>1. errand' = errand /\ orderly' = orderly /\ invoice[i].status = "absent"
    BY <1>4, AtOnceTyped
  <2> QED
    BY <1>7, <1>9, <1>19, <1>20, <2>1, WriteSettles
<1> QED
  BY <1>18, <1>21

LEMMA OpeningKeeps ==
    ASSUME IInv, CInv, CreateOpening
    PROVE  IInv' /\ CInv'
<1>1. PICK i \in Invoices, a \in Quantities :
        /\ AtOnce
        /\ invoice[i].status = "absent"
        /\ invoice' = [invoice EXCEPT ![i] =
                [NoRow EXCEPT !.status = "received", !.opening = TRUE,
                              !.total = a, !.rem = a]]
        /\ UNCHANGED <<moved, layer, stock, supplierDebt>>
  BY DEF CreateOpening
<1> DEFINE row == [NoRow EXCEPT !.status = "received", !.opening = TRUE,
                                !.total = a, !.rem = a]
<1>2. a \in Nat
  BY PurchasesAssumption DEF PurchasesAssumption
<1>3. a \in Int
  BY <1>2
<1>4. row \in Invoice
  BY <1>2, <1>3, NoRowTyped, Zenon DEF Invoice
<1>5. /\ row.status = "received" /\ row.opening = TRUE /\ row.qty = 0
      /\ row.total = a /\ row.paid = 0 /\ row.rem = a
      /\ row.vouchers = 0 /\ row.returned = 0 /\ row.reduced = 0
  BY DEF NoRow
<1>6. invoice' = [invoice EXCEPT ![i] = row]
  BY <1>1
<1> HIDE DEF row
<1>7. /\ moved[i] = 0 /\ layer[i] = 0
      /\ Owes(invoice[i]) = 0 /\ Opened(invoice[i]) = 0
  BY <1>1, AbsentIsEmpty
<1>8. moved' = moved /\ layer' = layer /\ stock' = stock /\ supplierDebt' = supplierDebt
  BY <1>1
<1>9. SumOver(layer', Layers) <= stock'
  BY <1>8 DEF IInv, LayersWithinStock
<1>10. Explained(row, moved'[i], layer'[i])
  BY <1>5, <1>7, <1>8 DEF Explained
<1>11. /\ layer' \in [Layers -> Nat] /\ moved' \in [Invoices -> Int]
       /\ stock' \in Nat /\ supplierDebt' \in Int
       /\ \A x \in Layers : x # i => layer'[x] <= layer[x]
       /\ \A j \in Invoices : j # i => moved'[j] = moved[j]
  BY <1>8, TypesHold
<1>12. IInv'
  BY <1>1, <1>4, <1>6, <1>9, <1>10, <1>11, AtOnceTyped, WriteKeeps
<1>13. Settled(row)
  BY <1>2, <1>5 DEF Settled
<1>14. supplierDebt' = supplierDebt + (Owes(row) - Owes(invoice[i])) - (Opened(row) - Opened(invoice[i]))
  <2>1. Owes(row) = a /\ Opened(row) = a
    BY <1>5 DEF Owes, Opened
  <2> QED
    BY <1>2, <1>7, <1>8, <2>1, TypesHold
<1>15. CInv'
  <2>1. errand' = errand /\ orderly' = orderly /\ invoice[i].status = "absent"
    BY <1>1, AtOnceTyped
  <2> QED
    BY <1>4, <1>6, <1>13, <1>14, <2>1, WriteSettles
<1> QED
  BY <1>12, <1>15

\* Sales and what they bring back touch the goods only.
LEMMA GoodsOnly ==
    ASSUME IInv, CInv, AtOnce, UNCHANGED <<invoice, moved, supplierDebt>>,
           layer' \in [Layers -> Nat],
           \A i \in Invoices : layer'[i] <= layer[i],
           stock' \in Nat, SumOver(layer', Layers) <= stock'
    PROVE  IInv' /\ CInv'
<1>1. invoice' = invoice /\ moved' = moved /\ supplierDebt' = supplierDebt
  OBVIOUS
<1>2. /\ trades' \in 0..MaxTrades /\ errand' = errand /\ orderly' = orderly
  BY AtOnceTyped
<1>3. PurchaseTypeOK'
  BY <1>1, <1>2 DEF IInv, PurchaseTypeOK
<1>4. ASSUME NEW j \in Invoices PROVE Explained(invoice'[j], moved'[j], layer'[j])
  <2>1. Explained(invoice[j], moved[j], layer[j])
    BY DEF IInv
  <2>2. /\ invoice[j] \in Invoice /\ moved[j] \in Int
        /\ layer[j] \in Nat /\ layer'[j] \in Nat /\ layer'[j] <= layer[j]
    BY TypesHold
  <2>3. Explained(invoice[j], moved[j], layer'[j])
    BY <2>1, <2>2, ExplainedByLess
  <2> QED
    BY <1>1, <2>3
<1>5. \A s \in Requests : Snapped(errand'[s], invoice')
  BY <1>1, <1>2 DEF IInv
<1>6. IInv'
  BY <1>3, <1>4, <1>5 DEF IInv, LayersWithinStock
<1>7. CInv'
  BY <1>1, <1>2 DEF CInv, OneByOne
<1> QED
  BY <1>6, <1>7

LEMMA SellKeeps ==
    ASSUME IInv, CInv, Sell
    PROVE  IInv' /\ CInv'
<1>1. /\ AtOnce /\ stock > 0 /\ stock' = stock - 1
      /\ UNCHANGED <<invoice, moved, supplierDebt>>
  BY DEF Sell
<1>2. stock \in Nat /\ SumOver(layer, Layers) <= stock
  BY TypesHold DEF IInv, LayersWithinStock
<1>3. stock' \in Nat
  BY <1>1, <1>2
<1>4. layer' \in [Layers -> Nat] /\ (\A i \in Invoices : layer'[i] <= layer[i])
      /\ SumOver(layer', Layers) <= stock'
  <2>1. CASE \E x \in Layers : layer[x] > 0 /\ layer' = [layer EXCEPT ![x] = @ - 1]
    <3>1. PICK x \in Layers : layer[x] > 0 /\ layer' = [layer EXCEPT ![x] = layer[x] - 1]
      BY <2>1
    <3>2. layer[x] \in Nat /\ layer[x] - 1 \in Nat
      BY <3>1, TypesHold
    <3>3. /\ layer' \in [Layers -> Nat] /\ layer'[x] = layer[x] - 1
          /\ \A y \in Layers : y # x => layer'[y] = layer[y]
          /\ SumOver(layer, Layers) \in Nat
          /\ SumOver(layer', Layers)
                = SumOver(layer, Layers) + (layer[x] - 1) - layer[x]
      <4>1. /\ layer' \in [Layers -> Nat] /\ layer'[x] = layer[x] - 1
            /\ \A y \in Layers : y # x => layer'[y] = layer[y]
        BY <3>1, <3>2, TypesHold
      <4> QED
        BY <4>1, TypesHold, LayerChanges
    <3>4. \A y \in Layers : layer'[y] <= layer[y]
      BY <3>2, <3>3, TypesHold
    <3>5. SumOver(layer', Layers) <= stock'
      BY <1>1, <1>2, <3>2, <3>3
    <3> QED
      BY <3>3, <3>4, <3>5, TypesHold
  <2>2. CASE /\ \A x \in Layers : layer[x] = 0
             /\ layer' = [layer EXCEPT ![Loose] = stock - 1]
    <3>1. Loose \in Layers /\ Loose \notin Invoices
      BY PurchasesAssumption DEF Layers, PurchasesAssumption
    <3>2. stock - 1 \in Nat
      BY <1>1, <1>2
    <3>3. /\ layer' \in [Layers -> Nat] /\ layer'[Loose] = stock - 1
          /\ \A y \in Layers : y # Loose => layer'[y] = layer[y]
          /\ SumOver(layer', Layers)
                = SumOver(layer, Layers) + (stock - 1) - layer[Loose]
      <4>1. /\ layer' \in [Layers -> Nat] /\ layer'[Loose] = stock - 1
            /\ \A y \in Layers : y # Loose => layer'[y] = layer[y]
        BY <2>2, <3>1, <3>2, TypesHold
      <4> QED
        BY <3>1, <4>1, TypesHold, LayerChanges
    <3>4. SumOver(layer, Layers) = 0
      BY <2>2, LayersFinite, SumZero
    <3>5. layer[Loose] = 0
      BY <2>2, <3>1
    <3>6. SumOver(layer', Layers) <= stock'
      BY <1>1, <1>2, <3>3, <3>4, <3>5
    <3>7. \A i \in Invoices : layer'[i] <= layer[i]
      BY <3>1, <3>3, TypesHold
    <3> QED
      BY <3>3, <3>6, <3>7
  <2> QED
    BY <2>1, <2>2 DEF Sell
<1> QED
  BY <1>1, <1>3, <1>4, GoodsOnly

LEMMA GiveBackKeeps ==
    ASSUME IInv, CInv, GiveBack
    PROVE  IInv' /\ CInv'
<1>1. /\ AtOnce /\ stock' = stock + 1 /\ layer' = layer
      /\ UNCHANGED <<invoice, moved, supplierDebt>>
  BY DEF GiveBack
<1>2. /\ stock \in Nat /\ layer \in [Layers -> Nat]
      /\ SumOver(layer, Layers) <= stock /\ SumOver(layer, Layers) \in Nat
  BY TypesHold, LayersFinite, SumNat DEF IInv, LayersWithinStock
<1>3. stock' \in Nat /\ SumOver(layer', Layers) <= stock'
  BY <1>1, <1>2
<1>4. layer' \in [Layers -> Nat] /\ \A i \in Invoices : layer'[i] <= layer[i]
  BY <1>1, <1>2, TypesHold
<1> QED
  BY <1>1, <1>3, <1>4, GoodsOnly

-----------------------------------------------------------------------------
(* The transactions of payments, cancellations and returns *)

\* What a transaction finds of the invoice its request has read.
LEMMA Held ==
    ASSUME IInv, NEW r \in Requests, NEW op \in {"pay", "cancel", "return"},
           Finish(r, op)
    PROVE  /\ errand[r].op = op /\ errand[r].op # "idle" /\ errand[r] # AtRest
           /\ errand[r].invoice \in Invoices
           /\ errand[r].snap \in Invoice /\ errand[r].qty \in Nat
           /\ invoice[errand[r].invoice] \in Invoice
           /\ invoice[errand[r].invoice].status # "absent"
           /\ errand[r].snap.qty = invoice[errand[r].invoice].qty
           /\ trades' = trades /\ orderly' = orderly
           /\ errand' \in [Requests -> PurchaseRequest]
           /\ errand' = [errand EXCEPT ![r] = AtRest]
           /\ \A s \in Requests : errand'[s] = errand[s] \/ errand'[s] = AtRest
<1>1. /\ errand[r].op = op /\ errand' = [errand EXCEPT ![r] = AtRest]
      /\ trades' = trades /\ orderly' = orderly
  BY DEF Finish
<1>2. errand[r].op # "idle" /\ errand[r] # AtRest
  BY <1>1 DEF AtRest
<1>3. Snapped(errand[r], invoice)
  BY DEF IInv
<1>4. /\ errand[r].invoice \in Invoices
      /\ invoice[errand[r].invoice].status # "absent"
      /\ errand[r].snap.qty = invoice[errand[r].invoice].qty
  BY <1>2, <1>3 DEF Snapped
<1>5. errand[r] \in PurchaseRequest
  BY TypesHold
<1>6. errand[r].snap \in Invoice /\ errand[r].qty \in Nat
  BY <1>5 DEF PurchaseRequest
<1>7. invoice[errand[r].invoice] \in Invoice
  BY <1>4, TypesHold
<1>8. errand' \in [Requests -> PurchaseRequest]
      /\ \A s \in Requests : errand'[s] = errand[s] \/ errand'[s] = AtRest
  BY <1>1, IdleTyped, TypesHold
<1> QED
  BY <1>1, <1>2, <1>4, <1>6, <1>7, <1>8

LEMMA CalmFresh ==
    ASSUME IInv, CInv, orderly, NEW r \in Requests, errand[r].op # "idle"
    PROVE  /\ invoice[errand[r].invoice].status = "received"
           /\ errand[r].snap = invoice[errand[r].invoice]
           /\ errand[r].op = "pay" => errand[r].qty <= errand[r].snap.rem
           /\ errand[r].op = "return"
                => errand[r].qty + errand[r].snap.returned <= errand[r].snap.qty
           /\ errand[r].invoice \in Invoices => Settled(invoice[errand[r].invoice])
<1>1. Fresh(errand[r], invoice) /\ \A i \in Invoices : Settled(invoice[i])
  BY DEF CInv
<1> QED
  BY <1>1 DEF Fresh

LEMMA PaidRow ==
    ASSUME NEW row \in Invoice, NEW snap \in Invoice, NEW a, a \in Nat,
           NEW new, new = WithPayment(row, snap, a)
    PROVE  /\ new \in Invoice
           /\ new.status = row.status /\ new.opening = row.opening
           /\ new.qty = row.qty /\ new.total = row.total
           /\ new.paid = snap.paid + a /\ new.rem = AtLeastZero(snap.rem - a)
           /\ new.vouchers = row.vouchers + a
           /\ new.refunds = row.refunds
           /\ new.returned = row.returned /\ new.reduced = row.reduced
<1> DEFINE p == snap.paid + a
           m == AtLeastZero(snap.rem - a)
           v == row.vouchers + a
<1>1. p \in Nat /\ m \in Int /\ v \in Nat
  BY DEF Invoice, AtLeastZero
<1>2. new = [row EXCEPT !.paid = p, !.rem = m, !.vouchers = v]
  BY DEF WithPayment
<1> HIDE DEF p, m, v
<1>3. new \in Invoice
  BY <1>1, <1>2 DEF Invoice
<1>4. /\ new.status = row.status /\ new.opening = row.opening
      /\ new.qty = row.qty /\ new.total = row.total
      /\ new.paid = p /\ new.rem = m /\ new.vouchers = v
      /\ new.refunds = row.refunds
      /\ new.returned = row.returned /\ new.reduced = row.reduced
  BY <1>2 DEF Invoice
<1> QED
  BY <1>3, <1>4 DEF p, m, v

LEMMA PaymentKeeps ==
    ASSUME IInv, CInv, NEW r \in Requests, PaySupplier(r)
    PROVE  IInv' /\ CInv'
<1> DEFINE i == errand[r].invoice
           a == errand[r].qty
           snap == errand[r].snap
           old == invoice[i]
           row == WithPayment(old, snap, a)
<1>1. /\ Finish(r, "pay") /\ invoice' = [invoice EXCEPT ![i] = row]
      /\ supplierDebt' = supplierDebt - a /\ UNCHANGED <<moved, layer, stock>>
  BY DEF PaySupplier
<1>2. /\ errand[r].op = "pay" /\ errand[r] # AtRest
      /\ i \in Invoices /\ snap \in Invoice /\ a \in Nat
      /\ old \in Invoice /\ old.status # "absent"
      /\ trades' = trades /\ orderly' = orderly
      /\ errand' \in [Requests -> PurchaseRequest]
      /\ errand' = [errand EXCEPT ![r] = AtRest]
      /\ \A s \in Requests : errand'[s] = errand[s] \/ errand'[s] = AtRest
  <2>1. "pay" \in {"pay", "cancel", "return"}
    OBVIOUS
  <2> QED
    BY <1>1, <2>1, Held
<1>3. old.status = "received" => snap.paid <= old.vouchers
  <2>1. Snapped(errand[r], invoice)
    BY DEF IInv
  <2> QED
    BY <1>2, <2>1 DEF Snapped
<1>4. orderly => snap = old /\ old.status = "received" /\ Settled(old) /\ a <= snap.rem
  <2>1. errand[r].op # "idle"
    BY <1>2
  <2> QED
    BY <1>2, <2>1, CalmFresh
<1>5. Explained(old, moved[i], layer[i])
  BY <1>2 DEF IInv
<1> HIDE DEF old, i, a, snap
<1>6. /\ row \in Invoice
      /\ row.status = old.status /\ row.opening = old.opening
      /\ row.qty = old.qty /\ row.total = old.total
      /\ row.paid = snap.paid + a /\ row.rem = AtLeastZero(snap.rem - a)
      /\ row.vouchers = old.vouchers + a /\ row.refunds = old.refunds
      /\ row.returned = old.returned /\ row.reduced = old.reduced
  BY <1>2, PaidRow
<1> HIDE DEF row
<1>7. /\ old.vouchers \in Nat /\ old.paid \in Nat /\ old.rem \in Int
      /\ old.total \in Nat /\ old.reduced \in Nat /\ snap.paid \in Nat
      /\ old.qty \in Nat /\ old.returned \in Nat
  BY <1>2 DEF Invoice
<1>8. Explained(row, moved[i], layer[i])
  <2>1. row.status = "received" => row.paid <= row.vouchers
    BY <1>2, <1>3, <1>6, <1>7
  <2> QED
    BY <1>2, <1>5, <1>6, <2>1 DEF Explained
<1>9. old.vouchers <= row.vouchers
  BY <1>2, <1>6, <1>7
<1>10. /\ moved' = moved /\ layer' = layer /\ stock' = stock
  BY <1>1
<1>11. supplierDebt' \in Int
  BY <1>1, <1>2, TypesHold
<1>12. /\ layer' \in [Layers -> Nat] /\ moved' \in [Invoices -> Int]
       /\ stock' \in Nat
       /\ \A x \in Layers : x # i => layer'[x] <= layer[x]
       /\ \A j \in Invoices : j # i => moved'[j] = moved[j]
       /\ trades' \in 0..MaxTrades /\ orderly' \in BOOLEAN
  BY <1>2, <1>10, TypesHold
<1>13. SumOver(layer', Layers) <= stock'
  BY <1>10 DEF IInv, LayersWithinStock
<1>14. Explained(row, moved'[i], layer'[i])
  BY <1>8, <1>10
<1>15. /\ row.status # "absent" /\ row.qty = invoice[i].qty
       /\ row.status = "received" => /\ invoice[i].status = "received"
                                     /\ invoice[i].vouchers <= row.vouchers
  BY <1>2, <1>6, <1>9 DEF old
<1>16. IInv'
  BY <1>1, <1>2, <1>6, <1>11, <1>12, <1>13, <1>14, <1>15, WriteKeeps
<1>17. orderly => Settled(row)
  <2> SUFFICES ASSUME orderly PROVE Settled(row)
    OBVIOUS
  <2>1. /\ old.paid = old.vouchers
        /\ old.paid + old.rem = old.total - old.reduced
        /\ old.returned <= old.qty
    BY <1>4 DEF Settled
  <2>2. row.rem = old.rem - a
    BY <1>2, <1>4, <1>6, <1>7 DEF AtLeastZero
  <2>3. row.paid = row.vouchers /\ row.paid + row.rem = row.total - row.reduced
        /\ row.returned <= row.qty
    BY <1>2, <1>4, <1>6, <1>7, <2>1, <2>2
  <2>4. row.status = "received"
    BY <1>4, <1>6
  <2> QED
    BY <2>3, <2>4 DEF Settled
<1>18. orderly => supplierDebt' = supplierDebt + (Owes(row) - Owes(invoice[i]))
                            - (Opened(row) - Opened(invoice[i]))
  <2> SUFFICES ASSUME orderly
               PROVE  supplierDebt' = supplierDebt + (Owes(row) - Owes(old)) - (Opened(row) - Opened(old))
    BY DEF old
  <2>1. row.rem = old.rem - a
    BY <1>2, <1>4, <1>6, <1>7 DEF AtLeastZero
  <2>2. Owes(row) = old.rem - a /\ Owes(old) = old.rem
    BY <1>4, <1>6, <2>1 DEF Owes
  <2>3. Opened(row) = Opened(old) /\ Opened(old) \in Int
    BY <1>2, <1>6, OwedTyped DEF Opened
  <2> QED
    BY <1>1, <1>2, <1>7, <2>2, <2>3, TypesHold
<1>19. CInv'
  BY <1>1, <1>2, <1>6, <1>17, <1>18, WriteSettles
<1> QED
  BY <1>16, <1>19

LEMMA CancelledRow ==
    ASSUME NEW row \in Invoice, NEW new, new = Cancelled(row)
    PROVE  /\ new \in Invoice
           /\ new.status = "cancelled" /\ new.opening = row.opening
           /\ new.qty = row.qty /\ new.total = row.total
           /\ new.vouchers = 0 /\ new.refunds = 0
           /\ new.returned = row.returned
<1>1. new \in Invoice
  BY DEF Cancelled, Invoice
<1>2. /\ new.status = "cancelled" /\ new.opening = row.opening
      /\ new.qty = row.qty /\ new.total = row.total
      /\ new.vouchers = 0 /\ new.refunds = 0
      /\ new.returned = row.returned
  BY DEF Cancelled, Invoice
<1> QED
  BY <1>1, <1>2

LEMMA CancelKeeps ==
    ASSUME IInv, CInv, NEW r \in Requests, CancelPurchase(r)
    PROVE  IInv' /\ CInv'
<1> DEFINE i == errand[r].invoice
           snap == errand[r].snap
           old == invoice[i]
           q == snap.qty
           row == Cancelled(old)
<1>1. /\ Finish(r, "cancel") /\ TakeBack(i, q)
      /\ invoice' = [invoice EXCEPT ![i] = row] /\ supplierDebt' = supplierDebt - snap.rem
  BY DEF CancelPurchase
<1>2. /\ errand[r].op = "cancel" /\ errand[r] # AtRest
      /\ i \in Invoices /\ snap \in Invoice
      /\ old \in Invoice /\ old.status # "absent" /\ q = old.qty
      /\ trades' = trades /\ orderly' = orderly
      /\ errand' \in [Requests -> PurchaseRequest]
      /\ errand' = [errand EXCEPT ![r] = AtRest]
      /\ \A s \in Requests : errand'[s] = errand[s] \/ errand'[s] = AtRest
  <2>1. "cancel" \in {"pay", "cancel", "return"}
    OBVIOUS
  <2> QED
    BY <1>1, <2>1, Held
<1>3. orderly => snap = old /\ old.status = "received"
  <2>1. errand[r].op # "idle"
    BY <1>2
  <2> QED
    BY <1>2, <2>1, CalmFresh
<1>4. Explained(old, moved[i], layer[i])
  BY <1>2 DEF IInv
<1>5. snap.rem \in Int /\ q \in Nat /\ old.returned \in Nat
  BY <1>2 DEF Invoice
<1> HIDE DEF old, i, snap, q
<1>6. /\ row \in Invoice
      /\ row.status = "cancelled" /\ row.opening = old.opening
      /\ row.qty = old.qty /\ row.total = old.total
      /\ row.vouchers = 0 /\ row.refunds = 0
      /\ row.returned = old.returned
  BY <1>2, CancelledRow
<1> HIDE DEF row
<1>7. /\ layer[i] >= q /\ stock >= q /\ stock' = stock - q
      /\ layer' = [layer EXCEPT ![i] = layer[i] - q]
      /\ moved' = [moved EXCEPT ![i] = moved[i] - q]
  BY <1>1 DEF TakeBack
<1>8. /\ i \in Layers /\ layer[i] \in Nat /\ moved[i] \in Int
      /\ stock \in Nat /\ supplierDebt \in Int
      /\ layer \in [Layers -> Nat] /\ moved \in [Invoices -> Int]
  BY <1>2, TypesHold
<1>9. layer[i] - q \in Nat /\ moved[i] - q \in Int
      /\ stock' \in Nat /\ supplierDebt' \in Int
  BY <1>1, <1>5, <1>7, <1>8
<1>10. /\ layer' \in [Layers -> Nat] /\ layer'[i] = layer[i] - q
       /\ \A y \in Layers : y # i => layer'[y] = layer[y]
  BY <1>7, <1>8, <1>9
<1>11. /\ moved' \in [Invoices -> Int] /\ moved'[i] = moved[i] - q
       /\ \A j \in Invoices : j # i => moved'[j] = moved[j]
  BY <1>2, <1>7, <1>8, <1>9
<1>12. /\ SumOver(layer, Layers) \in Nat
       /\ SumOver(layer', Layers) = SumOver(layer, Layers) + layer'[i] - layer[i]
  BY <1>8, <1>10, LayerChanges
<1>13. SumOver(layer', Layers) <= stock'
  <2>1. SumOver(layer, Layers) <= stock
    BY DEF IInv, LayersWithinStock
  <2> QED
    BY <1>5, <1>7, <1>8, <1>10, <1>12, <2>1
<1>14. layer[i] <= q
  BY <1>2, <1>4 DEF Explained
<1>15. layer[i] = q
  BY <1>5, <1>7, <1>8, <1>14
<1>16. moved[i] - q = -old.returned
  <2>1. CASE old.status = "received"
    <3>1. moved[i] = q - old.returned
      BY <1>2, <1>4, <2>1 DEF Explained
    <3> QED
      BY <1>5, <3>1
  <2>2. CASE old.status = "cancelled"
    <3>1. moved[i] = -old.returned /\ layer[i] = 0
      BY <1>4, <2>2 DEF Explained
    <3> QED
      BY <1>5, <1>15, <3>1
  <2> QED
    BY <1>2, <2>1, <2>2 DEF Invoice
<1>17. layer'[i] = 0 /\ moved'[i] = -row.returned
  BY <1>5, <1>6, <1>10, <1>11, <1>15, <1>16
<1>18. layer'[i] <= row.qty
  BY <1>2, <1>5, <1>6, <1>17
<1>19. Explained(row, moved'[i], layer'[i])
  BY <1>6, <1>17, <1>18 DEF Explained
<1>20. /\ trades' \in 0..MaxTrades /\ orderly' \in BOOLEAN
       /\ \A x \in Layers : x # i => layer'[x] <= layer[x]
  BY <1>2, <1>8, <1>10, TypesHold
<1>21. row.status # "absent" /\ row.status # "received" /\ row.qty = invoice[i].qty
  BY <1>6 DEF old
<1>22. IInv'
  BY <1>1, <1>2, <1>6, <1>9, <1>10, <1>11, <1>13, <1>19, <1>20, <1>21, WriteKeeps
<1>23. Settled(row)
  BY <1>6 DEF Settled
<1>24. orderly => supplierDebt' = supplierDebt + (Owes(row) - Owes(invoice[i]))
                            - (Opened(row) - Opened(invoice[i]))
  <2> SUFFICES ASSUME orderly
               PROVE  supplierDebt' = supplierDebt + (Owes(row) - Owes(old)) - (Opened(row) - Opened(old))
    BY DEF old
  <2>1. Owes(row) = 0 /\ Owes(old) = snap.rem
    BY <1>3, <1>6 DEF Owes
  <2>2. Opened(row) = Opened(old) /\ Opened(old) \in Int
    BY <1>2, <1>6, OwedTyped DEF Opened
  <2> QED
    BY <1>1, <1>5, <1>8, <2>1, <2>2
<1>25. CInv'
  BY <1>1, <1>2, <1>6, <1>23, <1>24, WriteSettles
<1> QED
  BY <1>22, <1>25

\* A return writes off no more than what was left, and refunds no less than
\* nothing.
LEMMA ReturnAmounts ==
    ASSUME NEW t \in PurchaseRequest
    PROVE  /\ WrittenOff(t) \in Nat /\ RefundAmount(t) \in Nat
           /\ t.snap.rem \in Int /\ t.qty \in Nat
<1>1. t.qty \in Nat /\ t.snap \in Invoice
  BY DEF PurchaseRequest
<1>2. t.snap.rem \in Int
  BY <1>1 DEF Invoice
<1>3. DebtReduction(t) \in Int /\ DebtReduction(t) <= t.qty
  BY <1>1, <1>2 DEF DebtReduction, Lesser
<1>4. WrittenOff(t) \in Nat
  BY <1>3 DEF WrittenOff, AtLeastZero
<1>5. t.qty - DebtReduction(t) \in Nat
  BY <1>1, <1>3
<1>6. RefundAmount(t) \in Nat
  <2>1. CASE t.credit
    BY <2>1 DEF RefundAmount
  <2>2. CASE ~t.credit
    BY <1>5, <2>2 DEF RefundAmount
  <2> QED
    BY <2>1, <2>2
<1> QED
  BY <1>1, <1>2, <1>4, <1>6

LEMMA ReturnedRow ==
    ASSUME NEW row \in Invoice, NEW t \in PurchaseRequest,
           NEW new, new = Returned(row, t)
    PROVE  /\ new \in Invoice
           /\ new.status = row.status /\ new.opening = row.opening
           /\ new.qty = row.qty /\ new.total = row.total
           /\ new.paid = row.paid /\ new.vouchers = row.vouchers
           /\ new.rem = row.rem - WrittenOff(t)
           /\ new.reduced = row.reduced + WrittenOff(t)
           /\ new.refunds = row.refunds + RefundAmount(t)
           /\ new.returned = row.returned + t.qty
<1> DEFINE m == row.rem - WrittenOff(t)
           d == row.reduced + WrittenOff(t)
           f == row.refunds + RefundAmount(t)
           n == row.returned + t.qty
<1>1. WrittenOff(t) \in Nat /\ RefundAmount(t) \in Nat /\ t.qty \in Nat
  BY ReturnAmounts
<1>2. m \in Int /\ d \in Nat /\ f \in Nat /\ n \in Nat
  BY <1>1 DEF Invoice
<1>3. new = [row EXCEPT !.rem = m, !.reduced = d, !.refunds = f, !.returned = n]
  BY DEF Returned
<1> HIDE DEF m, d, f, n
<1>4. new \in Invoice
  BY <1>2, <1>3 DEF Invoice
<1>5. /\ new.status = row.status /\ new.opening = row.opening
      /\ new.qty = row.qty /\ new.total = row.total
      /\ new.paid = row.paid /\ new.vouchers = row.vouchers
      /\ new.rem = m /\ new.reduced = d /\ new.refunds = f /\ new.returned = n
  BY <1>3 DEF Invoice
<1> QED
  BY <1>4, <1>5 DEF m, d, f, n

\* What the draws of a return take from the layers is what it returns.
LEMMA DrawsTake ==
    ASSUME IInv, NEW i \in Invoices, NEW q, q \in Nat, NEW d \in Draws(i, q),
           layer' = [x \in Layers |-> layer[x] - d[x]]
    PROVE  /\ layer' \in [Layers -> Nat]
           /\ \A x \in Layers : layer'[x] <= layer[x]
           /\ SumOver(layer, Layers) = SumOver(layer', Layers) + q
           /\ SumOver(layer', Layers) \in Nat
<1>1. /\ d \in [Layers -> 0..q] /\ SumOver(d, Layers) = q
      /\ \A x \in Layers : d[x] <= layer[x]
  BY DEF Draws
<1>2. \A x \in Layers : layer[x] \in Nat /\ d[x] \in Nat /\ layer'[x] = layer[x] - d[x]
  BY <1>1, TypesHold
<1>3. \A x \in Layers : /\ layer'[x] \in Nat
                        /\ layer'[x] <= layer[x]
                        /\ layer[x] = layer'[x] + d[x]
  BY <1>1, <1>2
<1>4. layer' \in [Layers -> Nat]
  BY <1>3
<1> DEFINE f == layer
           g == layer'
<1>5. \A x \in Layers : g[x] \in Int /\ d[x] \in Int /\ f[x] = g[x] + d[x]
  BY <1>2, <1>3
<1>6. \A x \in Layers : g[x] \in Nat
  BY <1>3
<1> HIDE DEF f, g
<1>7. SumOver(f, Layers) = SumOver(g, Layers) + SumOver(d, Layers)
  BY <1>5, LayersFinite, SumParts
<1>8. SumOver(g, Layers) \in Nat
  BY <1>6, LayersFinite, SumNat
<1> QED
  BY <1>1, <1>3, <1>4, <1>7, <1>8 DEF f, g

LEMMA ReturnKeeps ==
    ASSUME IInv, CInv, NEW r \in Requests, CommitReturn(r)
    PROVE  IInv' /\ CInv'
<1> DEFINE t == errand[r]
           i == t.invoice
           q == t.qty
           snap == t.snap
           old == invoice[i]
           row == Returned(old, t)
<1>1. /\ Finish(r, "return") /\ stock >= q /\ stock' = stock - q
      /\ \E d \in Draws(i, q) : layer' = [x \in Layers |-> layer[x] - d[x]]
      /\ moved' = [moved EXCEPT ![i] = moved[i] - q]
      /\ invoice' = [invoice EXCEPT ![i] = row] /\ supplierDebt' = supplierDebt - WrittenOff(t)
  BY DEF CommitReturn
<1>2. /\ errand[r].op = "return" /\ errand[r] # AtRest
      /\ i \in Invoices /\ snap \in Invoice /\ q \in Nat
      /\ old \in Invoice /\ old.status # "absent" /\ snap.qty = old.qty
      /\ trades' = trades /\ orderly' = orderly
      /\ errand' \in [Requests -> PurchaseRequest]
      /\ errand' = [errand EXCEPT ![r] = AtRest]
      /\ \A s \in Requests : errand'[s] = errand[s] \/ errand'[s] = AtRest
  <2>1. "return" \in {"pay", "cancel", "return"}
    OBVIOUS
  <2> QED
    BY <1>1, <2>1, Held
<1>3. orderly => /\ snap = old /\ old.status = "received" /\ Settled(old)
              /\ q + snap.returned <= snap.qty
  <2>1. errand[r].op # "idle"
    BY <1>2
  <2> QED
    BY <1>2, <2>1, CalmFresh
<1>4. Explained(old, moved[i], layer[i]) /\ t \in PurchaseRequest
  BY <1>2, TypesHold DEF IInv
<1>5. WrittenOff(t) \in Nat
  BY <1>4, ReturnAmounts
<1>6. /\ old.rem \in Int /\ old.paid \in Nat /\ old.vouchers \in Nat
      /\ old.total \in Nat /\ old.reduced \in Nat
      /\ old.qty \in Nat /\ old.returned \in Nat
  BY <1>2 DEF Invoice
<1>7. PICK d \in Draws(i, q) : layer' = [x \in Layers |-> layer[x] - d[x]]
  BY <1>1
<1>8. /\ layer' \in [Layers -> Nat]
      /\ \A x \in Layers : layer'[x] <= layer[x]
      /\ SumOver(layer, Layers) = SumOver(layer', Layers) + q
      /\ SumOver(layer', Layers) \in Nat
  BY <1>2, <1>7, DrawsTake
<1> HIDE DEF old, i, q, snap, t
<1>9. /\ row \in Invoice
      /\ row.status = old.status /\ row.opening = old.opening
      /\ row.qty = old.qty /\ row.total = old.total
      /\ row.paid = old.paid /\ row.vouchers = old.vouchers
      /\ row.rem = old.rem - WrittenOff(t)
      /\ row.reduced = old.reduced + WrittenOff(t)
      /\ row.returned = old.returned + q
  BY <1>2, <1>4, ReturnedRow DEF q
<1> HIDE DEF row
<1>10. /\ i \in Layers /\ layer[i] \in Nat /\ layer'[i] \in Nat /\ moved[i] \in Int
       /\ layer'[i] <= layer[i]
       /\ stock \in Nat /\ supplierDebt \in Int /\ moved \in [Invoices -> Int]
  BY <1>2, <1>8, TypesHold
<1>11. moved[i] - q \in Int /\ stock' \in Nat /\ supplierDebt' \in Int
  BY <1>1, <1>2, <1>5, <1>10
<1>12. /\ moved' \in [Invoices -> Int] /\ moved'[i] = moved[i] - q
       /\ \A j \in Invoices : j # i => moved'[j] = moved[j]
  BY <1>1, <1>2, <1>10, <1>11
<1>13. SumOver(layer', Layers) <= stock'
  <2>1. SumOver(layer, Layers) <= stock
    BY DEF IInv, LayersWithinStock
  <2> QED
    BY <1>1, <1>2, <1>8, <1>10, <2>1
<1>14. Explained(row, moved'[i], layer'[i])
  <2>1. row.status = "received" => moved'[i] = row.qty - row.returned
    <3>1. old.status = "received" => moved[i] = old.qty - old.returned
      BY <1>4 DEF Explained
    <3> QED
      BY <1>2, <1>6, <1>9, <1>10, <1>12, <3>1
  <2>2. row.status = "cancelled" => moved'[i] = -row.returned
    <3>1. old.status = "cancelled" => moved[i] = -old.returned
      BY <1>4 DEF Explained
    <3> QED
      BY <1>2, <1>6, <1>9, <1>10, <1>12, <3>1
  <2>3. row.status = "cancelled" => layer'[i] = 0
    <3>1. old.status = "cancelled" => layer[i] = 0
      BY <1>4 DEF Explained
    <3> QED
      BY <1>9, <1>10, <3>1
  <2>4. layer'[i] <= row.qty
    <3>1. layer[i] <= old.qty
      BY <1>4 DEF Explained
    <3> QED
      BY <1>6, <1>9, <1>10, <3>1
  <2>5. row.status = "received" => row.paid <= row.vouchers
    BY <1>4, <1>9 DEF Explained
  <2>6. row.status # "absent"
    BY <1>2, <1>9
  <2> QED
    BY <2>1, <2>2, <2>3, <2>4, <2>5, <2>6 DEF Explained
<1>15. /\ trades' \in 0..MaxTrades /\ orderly' \in BOOLEAN
       /\ \A x \in Layers : x # i => layer'[x] <= layer[x]
  BY <1>2, <1>8, TypesHold
<1>16. /\ row.status # "absent" /\ row.qty = invoice[i].qty
       /\ row.status = "received" => /\ invoice[i].status = "received"
                                     /\ invoice[i].vouchers <= row.vouchers
  BY <1>2, <1>6, <1>9 DEF old
<1>17. IInv'
  BY <1>1, <1>2, <1>8, <1>9, <1>11, <1>12, <1>13, <1>14, <1>15, <1>16, WriteKeeps
<1>18. orderly => Settled(row)
  <2> SUFFICES ASSUME orderly PROVE Settled(row)
    OBVIOUS
  <2>1. /\ old.paid = old.vouchers
        /\ old.paid + old.rem = old.total - old.reduced
    BY <1>3 DEF Settled
  <2>2. row.paid = row.vouchers
    BY <1>9, <2>1
  <2>3. row.paid + row.rem = row.total - row.reduced
    BY <1>5, <1>6, <1>9, <2>1
  <2>4. row.returned <= row.qty
    BY <1>2, <1>3, <1>6, <1>9
  <2>5. row.status = "received"
    BY <1>3, <1>9
  <2> QED
    BY <2>2, <2>3, <2>4, <2>5 DEF Settled
<1>19. orderly => supplierDebt' = supplierDebt + (Owes(row) - Owes(invoice[i]))
                            - (Opened(row) - Opened(invoice[i]))
  <2> SUFFICES ASSUME orderly
               PROVE  supplierDebt' = supplierDebt + (Owes(row) - Owes(old)) - (Opened(row) - Opened(old))
    BY DEF old
  <2>1. Owes(row) = old.rem - WrittenOff(t) /\ Owes(old) = old.rem
    BY <1>3, <1>9 DEF Owes
  <2>2. Opened(row) = Opened(old) /\ Opened(old) \in Int
    BY <1>2, <1>9, OwedTyped DEF Opened
  <2> QED
    BY <1>1, <1>5, <1>6, <1>10, <2>1, <2>2
<1>20. CInv'
  BY <1>1, <1>2, <1>9, <1>18, <1>19, WriteSettles
<1> QED
  BY <1>17, <1>20

-----------------------------------------------------------------------------
(* Every step, and the theorems *)

LEMMA PurchasesStart ==
    ASSUME PurchaseInit PROVE IInv /\ CInv
<1>1. \A i \in Invoices : invoice[i] = NoRow /\ moved[i] = 0 /\ layer[i] = 0
  BY DEF PurchaseInit, Layers
<1>2. \A r \in Requests : errand[r] = AtRest
  BY DEF PurchaseInit
<1>3. PurchaseTypeOK
  <2>1. invoice \in [Invoices -> Invoice] /\ errand \in [Requests -> PurchaseRequest]
    BY NoRowTyped, IdleTyped DEF PurchaseInit
  <2> QED
    BY <2>1, PurchasesAssumption DEF PurchaseInit, PurchaseTypeOK, PurchasesAssumption
<1>4. Explained(NoRow, 0, 0) /\ Settled(NoRow)
  BY DEF Explained, Settled, NoRow
<1>5. Snapped(AtRest, invoice) /\ Fresh(AtRest, invoice)
  BY DEF Snapped, Fresh, AtRest
<1>6. SumOver(layer, Layers) = 0
  <2> DEFINE f == layer
  <2>1. \A x \in Layers : f[x] = 0
    BY DEF PurchaseInit
  <2> HIDE DEF f
  <2>2. SumOver(f, Layers) = 0
    BY <2>1, LayersFinite, SumZero
  <2> QED
    BY <2>2 DEF f
<1>7. LayersWithinStock
  BY <1>3, <1>6 DEF LayersWithinStock, PurchaseTypeOK
<1>8. IInv
  BY <1>1, <1>2, <1>3, <1>4, <1>5, <1>7 DEF IInv
<1>9. Due(invoice) = 0 /\ Preset(invoice) = 0
  <2> DEFINE f == [i \in Invoices |-> Owes(invoice[i])]
             g == [i \in Invoices |-> Opened(invoice[i])]
  <2>1. Owes(NoRow) = 0 /\ Opened(NoRow) = 0
    BY DEF Owes, Opened, NoRow
  <2>2. \A i \in Invoices : f[i] = 0 /\ g[i] = 0
    BY <1>1, <2>1
  <2> HIDE DEF f, g
  <2>3. SumOver(f, Invoices) = 0 /\ SumOver(g, Invoices) = 0
    BY <2>2, InvoicesFinite, SumZero
  <2> QED
    BY <2>3 DEF f, g, Due, Preset
<1>10. supplierDebt = Due(invoice) - Preset(invoice)
  BY <1>9 DEF PurchaseInit
<1>11. OneByOne
  BY <1>2 DEF OneByOne
<1>12. CInv
  BY <1>1, <1>2, <1>4, <1>5, <1>10, <1>11 DEF CInv
<1> QED
  BY <1>8, <1>12

LEMMA PurchasesStep ==
    ASSUME IInv, CInv, [PurchaseNext]_purchaseVars
    PROVE  IInv' /\ CInv'
<1>1. CASE UNCHANGED purchaseVars
  <2>1. /\ invoice' = invoice /\ moved' = moved /\ layer' = layer
        /\ stock' = stock /\ supplierDebt' = supplierDebt /\ errand' = errand
        /\ trades' = trades /\ orderly' = orderly
    BY <1>1 DEF purchaseVars
  <2>2. IInv'
    BY <2>1 DEF IInv, PurchaseTypeOK, LayersWithinStock
  <2>3. CInv'
    BY <2>1 DEF CInv, OneByOne
  <2> QED
    BY <2>2, <2>3
<1>2. CASE CreatePurchase
  BY <1>2, InvoiceKeeps
<1>3. CASE CreateOpening
  BY <1>3, OpeningKeeps
<1>4. CASE Sell
  BY <1>4, SellKeeps
<1>5. CASE GiveBack
  BY <1>5, GiveBackKeeps
<1>6. ASSUME NEW r \in Requests, PurchaseStep(r) PROVE IInv' /\ CInv'
  <2>1. CASE BeginPayment(r) \/ BeginCancel(r) \/ BeginReturn(r)
    BY <2>1, BeginKeeps
  <2>2. CASE PaySupplier(r)
    BY <2>2, PaymentKeeps
  <2>3. CASE CancelPurchase(r)
    BY <2>3, CancelKeeps
  <2>4. CASE CommitReturn(r)
    BY <2>4, ReturnKeeps
  <2>5. CASE AbortPurchase(r)
    BY <2>5, AbortKeeps
  <2> QED
    BY <1>6, <2>1, <2>2, <2>3, <2>4, <2>5 DEF PurchaseStep
<1> QED
  BY <1>1, <1>2, <1>3, <1>4, <1>5, <1>6 DEF PurchaseNext

LEMMA InvGoods == IInv => GoodsExplained /\ NoPhantomPayment
<1> SUFFICES ASSUME IInv PROVE GoodsExplained /\ NoPhantomPayment
  OBVIOUS
<1>1. PurchaseTypeOK /\ LayersWithinStock
  BY DEF IInv
<1>2. \A i \in Invoices : Explained(invoice[i], moved[i], layer[i])
  BY DEF IInv
<1>3. GoodsAccounted
  BY <1>2 DEF GoodsAccounted, Explained, Received
<1>4. NoPhantomPayment
  BY <1>2 DEF NoPhantomPayment, Explained, Received
<1> QED
  BY <1>1, <1>3, <1>4 DEF GoodsExplained

LEMMA InvMoney ==
    ASSUME IInv, CInv PROVE MoneyExplained
<1> SUFFICES ASSUME orderly PROVE MoneyExplained
  BY DEF MoneyExplained, AmountsAgree, CancelledIsPaidBack, DebtIsOwed
<1>1. \A i \in Invoices : Settled(invoice[i])
  BY DEF CInv
<1>2. AmountsAgree
  BY <1>1 DEF AmountsAgree, Settled, Received
<1>3. CancelledIsPaidBack
  BY <1>1 DEF CancelledIsPaidBack, Settled
<1>4. supplierDebt = Due(invoice) - Preset(invoice)
  BY DEF CInv
<1>5. DebtIsOwed
  BY <1>4, DueIsSum, TypesHold DEF DebtIsOwed, Received
<1> QED
  BY <1>2, <1>3, <1>5 DEF MoneyExplained

LEMMA PurchasesInvariant ==
    PurchaseSpec => [](IInv /\ CInv)
<1>1. PurchaseInit => IInv /\ CInv
  BY PurchasesStart
<1>2. (IInv /\ CInv) /\ [PurchaseNext]_purchaseVars => (IInv /\ CInv)'
  BY PurchasesStep
<1> QED
  BY <1>1, <1>2, PTL DEF PurchaseSpec

\* Whatever overlaps, the goods a standing invoice brought are what was
\* bought less what was returned, a cancelled one brought none, and the
\* layers never promise more than the warehouse holds.
THEOREM GoodsStayExplained ==
    PurchaseSpec => []GoodsExplained
<1>1. PurchaseSpec => [](IInv /\ CInv)
  BY PurchasesInvariant
<1> QED
  BY <1>1, InvGoods, PTL

\* Whatever overlaps, a standing purchase invoice never shows more paid
\* than its vouchers paid out.
THEOREM PaidHasVouchers ==
    PurchaseSpec => []NoPhantomPayment
<1>1. PurchaseSpec => [](IInv /\ CInv)
  BY PurchasesInvariant
<1> QED
  BY <1>1, InvGoods, PTL

\* As long as no two requests have overlapped, paid and remaining make up
\* the total less what was written off, a cancelled invoice leaves no money
\* behind, and the supplier's debt is what the standing invoices owe, short
\* of the opening balances.
THEOREM MoneyStaysExplained ==
    PurchaseSpec => []MoneyExplained
<1>1. PurchaseSpec => [](IInv /\ CInv)
  BY PurchasesInvariant
<1>2. IInv /\ CInv => MoneyExplained
  BY InvMoney
<1> QED
  BY <1>1, <1>2, PTL
=============================================================================
