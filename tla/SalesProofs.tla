---------------------------- MODULE SalesProofs ----------------------------
(***************************************************************************)
(* Theorems about Sales, for every value of the constants.  For every      *)
(* interleaving of the requests: type correctness, a stock that never goes *)
(* negative and never diverges from its movement log, unique invoice       *)
(* numbers, and no invoice that shows money its payments rows do not       *)
(* account for.  For requests that do not overlap (OneRequest): goods,     *)
(* money and debt that agree, and the credit ceiling.                      *)
(***************************************************************************)
EXTENDS Sales, SumTheorems

-----------------------------------------------------------------------------
(* The data *)

LEMMA RowTypes ==
    /\ NoRow \in SaleRow
    /\ Idle \in Request
BY DEF NoRow, SaleRow, Idle, Request, Statuses, Issued, OpNames

LEMMA Clamped ==
    ASSUME NEW a \in Int
    PROVE  AtLeastZero(a) \in Nat
BY DEF AtLeastZero

LEMMA LesserNat ==
    ASSUME NEW a \in Nat, NEW b \in Nat
    PROVE  /\ Lesser(a, b) \in Nat
           /\ Lesser(a, b) <= a
           /\ Lesser(a, b) <= b
BY DEF Lesser

LEMMA NetPrice ==
    ASSUME NEW q \in Nat
    PROVE  Price * q \in Nat
BY SalesAssumption

LEMMA PaidStatusType ==
    ASSUME NEW x
    PROVE  PaidStatus(x) \in Issued
BY DEF PaidStatus, Issued

\* The amounts of a return are amounts of money, and add up to its value.
LEMMA ReturnAmounts ==
    ASSUME NEW t \in Request
    PROVE  /\ ReturnedValue(t) \in Nat
           /\ DebtReduction(t) \in Nat
           /\ DebtReduction(t) <= t.snap.rem
           /\ RefundAmount(t) \in Nat
           /\ RefundAmount(t) + DebtReduction(t) = ReturnedValue(t)
<1> DEFINE left == AtLeastZero(t.snap.total - t.priorVal)
           kept == Lesser(t.amount, Lesser(ReturnedValue(t), t.snap.paid))
<1>1. /\ t.qty \in Nat /\ t.amount \in Nat /\ t.priorVal \in Nat
      /\ t.snap.total \in Nat /\ t.snap.paid \in Nat /\ t.snap.rem \in Nat
  BY DEF Request, SaleRow
<1>2. left \in Nat
  BY <1>1, Clamped
<1>3. ReturnedValue(t) \in Nat
  BY <1>1, <1>2, NetPrice, LesserNat DEF ReturnedValue
<1>4. Lesser(ReturnedValue(t), t.snap.paid) \in Nat
      /\ Lesser(ReturnedValue(t), t.snap.paid) <= ReturnedValue(t)
  BY <1>1, <1>3, LesserNat
<1>5. kept \in Nat /\ kept <= ReturnedValue(t)
  <2>1. /\ kept \in Nat
        /\ kept <= Lesser(ReturnedValue(t), t.snap.paid)
    BY <1>1, <1>4, LesserNat
  <2> QED
    BY <1>3, <1>4, <2>1
<1>6. Unrefunded(t) \in Nat /\ Unrefunded(t) <= ReturnedValue(t)
  <2>1. Unrefunded(t) = ReturnedValue(t) - kept
    BY DEF Unrefunded
  <2> HIDE DEF kept
  <2> QED
    BY <1>3, <1>5, <2>1
<1>7. DebtReduction(t) \in Nat /\ DebtReduction(t) <= Unrefunded(t)
      /\ DebtReduction(t) <= t.snap.rem
  BY <1>1, <1>6, LesserNat DEF DebtReduction
<1>8. RefundAmount(t) = ReturnedValue(t) - DebtReduction(t)
  BY DEF RefundAmount
<1> QED
  BY <1>3, <1>6, <1>7, <1>8

-----------------------------------------------------------------------------
(* Rows stay rows *)

LEMMA StatusRow ==
    ASSUME NEW row \in SaleRow, NEW st \in Statuses
    PROVE  [row EXCEPT !.status = st] \in SaleRow
BY DEF SaleRow

LEMMA QtyRow ==
    ASSUME NEW row \in SaleRow, NEW q \in Nat
    PROVE  [row EXCEPT !.qty = q] \in SaleRow
BY DEF SaleRow

LEMMA MoneyRow ==
    ASSUME NEW row \in SaleRow, NEW st \in Statuses,
           NEW p \in Nat, NEW m \in Nat, NEW y \in Nat
    PROVE  [row EXCEPT !.paid = p, !.rem = m, !.status = st, !.payRows = y]
             \in SaleRow
BY DEF SaleRow

LEMMA IssueRow ==
    ASSUME NEW row \in SaleRow, NEW q \in Nat, NEW p \in Nat,
           p <= Price * q, nextValue \in Nat
    PROVE  Issue(row, q, p) \in SaleRow
<1> DEFINE tot == Price * q
           due == tot - p
           st == PaidStatus(due)
           y == row.payRows + p
<1>1. tot \in Nat /\ p <= tot
  BY NetPrice
<1>2. due \in Nat
  <2> HIDE DEF tot
  <2> QED
    BY <1>1
<1>3. st \in Statuses
  BY PaidStatusType DEF Statuses
<1>4. y \in Nat
  BY DEF SaleRow
<1>5. Issue(row, q, p) =
        [row EXCEPT !.status = st, !.number = nextValue, !.wh = TRUE, !.qty = q,
                    !.total = tot, !.paid = p, !.rem = due, !.payRows = y]
  BY DEF Issue
<1> HIDE DEF tot, due, st, y
<1>6. [row EXCEPT !.status = st, !.number = nextValue, !.wh = TRUE, !.qty = q,
                  !.total = tot, !.paid = p, !.rem = due, !.payRows = y] \in SaleRow
  BY <1>1, <1>2, <1>3, <1>4 DEF SaleRow
<1> QED
  BY <1>5, <1>6

LEMMA DraftRow ==
    ASSUME NEW w \in BOOLEAN, NEW tot \in Nat
    PROVE  [NoRow EXCEPT !.status = "draft", !.wh = w, !.total = tot,
                         !.rem = tot] \in SaleRow
BY DEF NoRow, SaleRow, Statuses, Issued

LEMMA RemovedRow ==
    ASSUME TypeOK, NEW s \in Sales
    PROVE  Removed(s) \in SaleRow
<1>1. sale[s].number \in Nat
  BY DEF TypeOK, SaleRow
<1> QED
  BY <1>1 DEF Removed, NoRow, SaleRow, Statuses, Issued

LEMMA PaidRow ==
    ASSUME NEW row \in SaleRow, NEW snap \in SaleRow, NEW a \in Nat
    PROVE  Paid(row, snap, a) \in SaleRow
<1>1. /\ snap.rem - a \in Int
      /\ snap.paid + a \in Nat
      /\ row.payRows + a \in Nat
  BY DEF SaleRow
<1>2. AtLeastZero(snap.rem - a) \in Nat
  BY <1>1, Clamped
<1>3. PaidStatus(AtLeastZero(snap.rem - a)) \in Statuses
  BY PaidStatusType DEF Statuses
<1> QED
  BY <1>1, <1>2, <1>3, MoneyRow DEF Paid

LEMMA ReturnedRow ==
    ASSUME NEW row \in SaleRow, NEW t \in Request
    PROVE  Returned(row, t) \in SaleRow
<1> DEFINE st == IF t.priorVal + ReturnedValue(t) >= t.snap.total - Tolerance
                   THEN "returned" ELSE "partially_returned"
           p == AtLeastZero(t.snap.paid - RefundAmount(t))
           m == AtLeastZero(t.snap.rem - DebtReduction(t))
           b == row.returned + t.qty
           v == row.retVal + ReturnedValue(t)
           f == row.refunds + RefundAmount(t)
<1>1. /\ ReturnedValue(t) \in Nat
      /\ RefundAmount(t) \in Nat
      /\ DebtReduction(t) \in Nat
  BY ReturnAmounts
<1>2. /\ t.snap \in SaleRow
      /\ t.qty \in Nat
  BY DEF Request
<1>3. /\ t.snap.paid - RefundAmount(t) \in Int
      /\ t.snap.rem - DebtReduction(t) \in Int
  BY <1>1, <1>2 DEF SaleRow
<1>4. p \in Nat /\ m \in Nat
  BY <1>3, Clamped
<1>5. st \in Statuses
  BY DEF Statuses, Issued
<1>6. b \in Nat /\ v \in Nat /\ f \in Nat
  BY <1>1, <1>2 DEF SaleRow
<1>7. Returned(row, t) =
        [row EXCEPT !.paid = p, !.rem = m, !.status = st, !.returned = b,
                    !.retVal = v, !.refunds = f]
  BY DEF Returned
<1> HIDE DEF st, p, m, b, v, f
<1>8. [row EXCEPT !.paid = p, !.rem = m, !.status = st, !.returned = b,
                  !.retVal = v, !.refunds = f] \in SaleRow
  BY <1>4, <1>5, <1>6 DEF SaleRow
<1> QED
  BY <1>7, <1>8

-----------------------------------------------------------------------------
(* Type correctness *)

\* What the requests in flight ask for: an amount within the total of the
\* sale it settles, and a sale unless they insert one.
RequestsOK ==
    \A r \in Requests :
        /\ req[r].op \in {"create", "completeDraft"} =>
             req[r].amount <= Price * req[r].qty
        /\ req[r].op \notin {"idle", "create"} => req[r].sale \in Sales

LEMMA AcceptKeepsTypes ==
    ASSUME TypeOK, RequestsOK,
           NEW r \in Requests, NEW op \in OpNames, NEW s \in Sales \union {NoSale},
           NEW q \in Nat, NEW a \in Nat, NEW w \in BOOLEAN,
           op \in {"create", "completeDraft"} => a <= Price * q,
           op # "create" => s \in Sales,
           Accept(r, op, s, q, a, w)
    PROVE  TypeOK' /\ RequestsOK'
<1> DEFINE t == [op |-> op, step |-> IF op = "return" THEN "read" ELSE "write",
                 sale |-> s, snap |-> IF s = NoSale THEN NoRow ELSE sale[s],
                 qty |-> q, amount |-> a, wh |-> w, prior |-> 0, priorVal |-> 0]
<1>1. t.snap \in SaleRow
  BY RowTypes DEF TypeOK
<1>2. t \in Request
  BY <1>1 DEF Request
<1>3. /\ req' = [req EXCEPT ![r] = t]
      /\ UNCHANGED <<sale, moved, stock, debt, nextValue>>
      /\ handled' \in 0..MaxRequests
  BY SalesAssumption DEF Accept, ledger, TypeOK
<1>4. /\ t.op = op /\ t.amount = a /\ t.qty = q /\ t.sale = s
  OBVIOUS
<1> HIDE DEF t
<1>5. req' \in [Requests -> Request]
  BY <1>2, <1>3 DEF TypeOK
<1>6. TypeOK'
  BY <1>3, <1>5 DEF TypeOK
<1>7. RequestsOK'
  <2> SUFFICES ASSUME NEW x \in Requests
               PROVE  /\ req'[x].op \in {"create", "completeDraft"} =>
                           req'[x].amount <= Price * req'[x].qty
                      /\ req'[x].op \notin {"idle", "create"} =>
                           req'[x].sale \in Sales
    BY DEF RequestsOK
  <2>1. CASE x = r
    <3>1. req'[x] = t
      BY <1>3, <2>1 DEF TypeOK
    <3> QED
      BY <1>4, <3>1
  <2>2. CASE x # r
    <3>1. req'[x] = req[x]
      BY <1>3, <2>2 DEF TypeOK
    <3> QED
      BY <3>1 DEF RequestsOK
  <2> QED
    BY <2>1, <2>2
<1> QED
  BY <1>6, <1>7

LEMMA ResetKeepsTypes ==
    ASSUME TypeOK, RequestsOK, NEW r \in Requests,
           req' = [req EXCEPT ![r] = Idle]
    PROVE  req' \in [Requests -> Request] /\ RequestsOK'
<1>1. req' \in [Requests -> Request]
  BY RowTypes DEF TypeOK
<1>2. Idle.op = "idle"
  BY DEF Idle
<1>3. ASSUME NEW x \in Requests
      PROVE  req'[x] = Idle \/ req'[x] = req[x]
  BY DEF TypeOK
<1> QED
  BY <1>1, <1>2, <1>3 DEF RequestsOK
LEMMA StockTypes ==
    ASSUME TypeOK, NEW s \in Sales, NEW q \in Nat, NEW w \in BOOLEAN
    PROVE  /\ TakeStock(s, q) => stock' \in Int /\ moved' \in [Sales -> Int]
           /\ PutStock(s, w, q) => stock' \in Int /\ moved' \in [Sales -> Int]
<1>1. (IF w THEN q ELSE 0) \in Nat
  OBVIOUS
<1>2. \A x \in Sales : moved[x] \in Int
  BY DEF TypeOK
<1>3. /\ moved[s] - q \in Int
      /\ moved[s] + (IF w THEN q ELSE 0) \in Int
  BY <1>1, <1>2
<1>4. ASSUME TakeStock(s, q) PROVE stock' \in Int /\ moved' \in [Sales -> Int]
  BY <1>3, <1>4 DEF TakeStock, TypeOK
<1>5. ASSUME PutStock(s, w, q) PROVE stock' \in Int /\ moved' \in [Sales -> Int]
  BY <1>1, <1>3, <1>5 DEF PutStock, TypeOK
<1> QED
  BY <1>4, <1>5

LEMMA WriteOffType ==
    ASSUME TypeOK, NEW a \in Nat
    PROVE  WriteOff(a) \in Int
<1>1. debt - a \in Int
  BY DEF TypeOK
<1> QED
  BY <1>1, Clamped DEF WriteOff, TypeOK

LEMMA InFlight ==
    ASSUME TypeOK, NEW r \in Requests
    PROVE  /\ req[r] \in Request
           /\ req[r].snap \in SaleRow
           /\ req[r].qty \in Nat
           /\ req[r].amount \in Nat
           /\ req[r].snap.rem \in Nat
           /\ req[r].snap.qty \in Nat
           /\ req[r].snap.wh \in BOOLEAN
<1>1. req[r] \in Request
  BY DEF TypeOK
<1> QED
  BY <1>1 DEF Request, SaleRow

LEMMA BeginsKeepTypes ==
    ASSUME TypeOK, RequestsOK, NEW r \in Requests
    PROVE  BeginCreate(r) \/ BeginAddPayment(r) \/ BeginCancel(r) \/ BeginRestore(r)
           \/ BeginReturn(r) \/ BeginCompleteDraft(r) \/ BeginRemove(r)
           => TypeOK' /\ RequestsOK'
<1>0. /\ \A q \in Quantities : q \in Nat /\ Price * q \in Nat
      /\ Tolerance \in Nat
      /\ \A s \in Sales : sale[s].rem \in Nat /\ s \in Sales \union {NoSale}
  BY SalesAssumption, NetPrice DEF TypeOK, SaleRow
<1>1. ASSUME BeginCreate(r) PROVE TypeOK' /\ RequestsOK'
  <2>0. PICK q \in Quantities : \E p \in 0..(Price * q) :
             Accept(r, "create", NoSale, q, p, TRUE)
    BY <1>1 DEF BeginCreate
  <2>1. PICK p \in 0..(Price * q) :
             Accept(r, "create", NoSale, q, p, TRUE)
    BY <2>0
  <2>2. q \in Nat /\ p \in Nat /\ p <= Price * q
    BY <1>0
  <2> QED
    BY <2>1, <2>2, AcceptKeepsTypes DEF OpNames
<1>2. ASSUME BeginAddPayment(r) PROVE TypeOK' /\ RequestsOK'
  <2>0. PICK s \in Sales : \E a \in 1..(sale[s].rem + Tolerance) :
             Accept(r, "addPayment", s, 0, Lesser(a, sale[s].rem), FALSE)
    BY <1>2 DEF BeginAddPayment
  <2>1. PICK a \in 1..(sale[s].rem + Tolerance) :
             Accept(r, "addPayment", s, 0, Lesser(a, sale[s].rem), FALSE)
    BY <2>0
  <2>2. a \in Nat /\ sale[s].rem \in Nat
    BY <1>0
  <2>3. Lesser(a, sale[s].rem) \in Nat
    BY <2>2, LesserNat
  <2> QED
    BY <2>1, <2>3, AcceptKeepsTypes DEF OpNames
<1>3. ASSUME BeginCancel(r) PROVE TypeOK' /\ RequestsOK'
  <2>1. PICK s \in Sales : Accept(r, "cancel", s, 0, 0, FALSE)
    BY <1>3 DEF BeginCancel
  <2> QED
    BY <2>1, AcceptKeepsTypes DEF OpNames
<1>4. ASSUME BeginRestore(r) PROVE TypeOK' /\ RequestsOK'
  <2>1. PICK s \in Sales : Accept(r, "restore", s, 0, 0, FALSE)
    BY <1>4 DEF BeginRestore
  <2> QED
    BY <2>1, AcceptKeepsTypes DEF OpNames
<1>5. ASSUME BeginReturn(r) PROVE TypeOK' /\ RequestsOK'
  <2>0. PICK s \in Sales, q \in Quantities :
             \E a \in 0..(Price * q + Tolerance) : Accept(r, "return", s, q, a, FALSE)
    BY <1>5 DEF BeginReturn
  <2>1. PICK a \in 0..(Price * q + Tolerance) : Accept(r, "return", s, q, a, FALSE)
    BY <2>0
  <2>2. q \in Nat /\ a \in Nat
    BY <1>0
  <2> QED
    BY <2>1, <2>2, AcceptKeepsTypes DEF OpNames
<1>6. ASSUME BeginCompleteDraft(r) PROVE TypeOK' /\ RequestsOK'
  <2>0. PICK s \in Sales, q \in Quantities :
             \E p \in 0..(Price * q) : Accept(r, "completeDraft", s, q, p, TRUE)
    BY <1>6 DEF BeginCompleteDraft
  <2>1. PICK p \in 0..(Price * q) : Accept(r, "completeDraft", s, q, p, TRUE)
    BY <2>0
  <2>2. q \in Nat /\ p \in Nat /\ p <= Price * q
    BY <1>0
  <2> QED
    BY <2>1, <2>2, AcceptKeepsTypes DEF OpNames
<1>7. ASSUME BeginRemove(r) PROVE TypeOK' /\ RequestsOK'
  <2>1. PICK s \in Sales : Accept(r, "remove", s, 0, 0, FALSE)
    BY <1>7 DEF BeginRemove
  <2> QED
    BY <2>1, AcceptKeepsTypes DEF OpNames
<1> QED
  BY <1>1, <1>2, <1>3, <1>4, <1>5, <1>6, <1>7

LEMMA CommitsKeepTypes ==
    ASSUME TypeOK, RequestsOK, NEW r \in Requests
    PROVE  CommitCreate(r) \/ CommitAddPayment(r) \/ CommitCancel(r)
           \/ CommitRestore(r) \/ CommitReturn(r) \/ CommitCompleteDraft(r)
           \/ CommitRemove(r) \/ InsertDraftItems(r) => TypeOK' /\ RequestsOK'
<1> DEFINE s == req[r].sale
           t == req[r]
           q == req[r].qty
           a == req[r].amount
           due == Price * q - a
<1>0. /\ t \in Request /\ t.snap \in SaleRow
      /\ q \in Nat /\ a \in Nat
      /\ t.snap.rem \in Nat /\ t.snap.qty \in Nat /\ t.snap.wh \in BOOLEAN
  BY InFlight
<1>1. ASSUME NEW op, Finish(r, op)
      PROVE  /\ req' \in [Requests -> Request]
             /\ handled' \in 0..MaxRequests
             /\ RequestsOK'
             /\ t.op = op
  BY <1>1, ResetKeepsTypes DEF Finish, TypeOK
<1>2. ASSUME t.op \notin {"idle", "create"}
      PROVE  /\ s \in Sales
             /\ sale[s] \in SaleRow
             /\ sale[s].payRows \in Nat
             /\ sale[s].qty \in Nat
  BY <1>2 DEF RequestsOK, TypeOK, SaleRow
<1>3. ASSUME t.op \in {"create", "completeDraft"}
      PROVE  a <= Price * q /\ due \in Nat
  <2>1. Price * q \in Nat /\ a <= Price * q
    BY <1>0, <1>3, NetPrice DEF RequestsOK
  <2> QED
    BY <1>0, <2>1
<1>4. ASSUME NEW x \in Sales, NEW row \in SaleRow,
             sale' = [sale EXCEPT ![x] = row]
      PROVE  sale' \in [Sales -> SaleRow]
  BY <1>4 DEF TypeOK
<1>5. nextValue \in Nat /\ nextValue + 1 \in Nat \ {0}
  BY DEF TypeOK
<1>6. debt \in Int /\ debt - a \in Int /\ debt + t.snap.rem \in Int
  BY <1>0 DEF TypeOK
<1>c. ASSUME CommitCreate(r) PROVE TypeOK' /\ RequestsOK'
  <2>1. Finish(r, "create")
    BY <1>c DEF CommitCreate
  <2>2. due \in Nat /\ a <= Price * q
    BY <1>1, <1>3, <2>1
  <2>3. PICK x \in Sales :
            /\ nextValue' = nextValue + 1
            /\ sale' = [sale EXCEPT ![x] = Issue(NoRow, q, a)]
            /\ TakeStock(x, q)
            /\ debt' = debt + due
    BY <1>c DEF CommitCreate, AllocateNumber
  <2>4. Issue(NoRow, q, a) \in SaleRow
    BY <1>0, <1>5, <2>2, RowTypes, IssueRow
  <2>5. sale' \in [Sales -> SaleRow]
    BY <1>4, <2>3, <2>4
  <2>6. stock' \in Int /\ moved' \in [Sales -> Int]
    BY <1>0, <2>3, StockTypes
  <2> HIDE DEF due
  <2>7. debt' \in Int /\ nextValue' \in Nat \ {0}
    BY <1>5, <1>6, <2>2, <2>3
  <2> QED
    BY <1>1, <2>1, <2>5, <2>6, <2>7 DEF TypeOK
<1>a. ASSUME CommitAddPayment(r) PROVE TypeOK' /\ RequestsOK'
  <2>1. Finish(r, "addPayment") /\ debt' = debt - a
        /\ UNCHANGED <<moved, stock, nextValue>>
        /\ sale' = [sale EXCEPT ![s] = Paid(sale[s], t.snap, a)]
    BY <1>a DEF CommitAddPayment
  <2>2. s \in Sales /\ sale[s] \in SaleRow
    BY <1>1, <1>2, <2>1
  <2>3. Paid(sale[s], t.snap, a) \in SaleRow
    BY <1>0, <2>2, PaidRow
  <2>4. sale' \in [Sales -> SaleRow]
    BY <1>4, <2>1, <2>2, <2>3
  <2> QED
    BY <1>1, <1>6, <2>1, <2>4 DEF TypeOK
<1>n. ASSUME CommitCancel(r) PROVE TypeOK' /\ RequestsOK'
  <2>1. Finish(r, "cancel") /\ PutStock(s, t.snap.wh, t.snap.qty)
        /\ debt' = WriteOff(t.snap.rem) /\ UNCHANGED nextValue
        /\ (sale' = sale \/ sale' = [sale EXCEPT ![s] =
                                       [sale[s] EXCEPT !.status = "cancelled"]])
    BY <1>n DEF CommitCancel
  <2>2. s \in Sales /\ sale[s] \in SaleRow
    BY <1>1, <1>2, <2>1
  <2>3. [sale[s] EXCEPT !.status = "cancelled"] \in SaleRow
    BY <2>2, StatusRow DEF Statuses
  <2>4. sale' \in [Sales -> SaleRow]
    BY <1>4, <2>1, <2>2, <2>3 DEF TypeOK
  <2>5. stock' \in Int /\ moved' \in [Sales -> Int]
    BY <1>0, <2>1, <2>2, StockTypes
  <2>6. debt' \in Int
    BY <1>0, <2>1, WriteOffType
  <2> QED
    BY <1>1, <2>1, <2>4, <2>5, <2>6 DEF TypeOK
<1>o. ASSUME CommitRestore(r) PROVE TypeOK' /\ RequestsOK'
  <2> DEFINE back == IF t.snap.wh THEN t.snap.qty ELSE 0
  <2>1. Finish(r, "restore") /\ TakeStock(s, back)
        /\ debt' = debt + t.snap.rem /\ UNCHANGED nextValue
        /\ (sale' = sale \/ sale' = [sale EXCEPT ![s] =
                                 [sale[s] EXCEPT !.status = PaidStatus(t.snap.rem)]])
    BY <1>o DEF CommitRestore
  <2>2. s \in Sales /\ sale[s] \in SaleRow
    BY <1>1, <1>2, <2>1
  <2>3. [sale[s] EXCEPT !.status = PaidStatus(t.snap.rem)] \in SaleRow
    BY <2>2, StatusRow, PaidStatusType DEF Statuses
  <2>4. sale' \in [Sales -> SaleRow]
    BY <1>4, <2>1, <2>2, <2>3 DEF TypeOK
  <2>5. back \in Nat
    BY <1>0
  <2>6. stock' \in Int /\ moved' \in [Sales -> Int]
    BY <2>1, <2>2, <2>5, StockTypes
  <2> QED
    BY <1>1, <1>6, <2>1, <2>4, <2>6 DEF TypeOK
<1>t. ASSUME CommitReturn(r) PROVE TypeOK' /\ RequestsOK'
  <2>1. Finish(r, "return") /\ PutStock(s, t.snap.wh, q)
        /\ debt' = WriteOff(DebtReduction(t)) /\ UNCHANGED nextValue
        /\ sale' = [sale EXCEPT ![s] = Returned(sale[s], t)]
    BY <1>t DEF CommitReturn
  <2>2. s \in Sales /\ sale[s] \in SaleRow
    BY <1>1, <1>2, <2>1
  <2>3. Returned(sale[s], t) \in SaleRow /\ DebtReduction(t) \in Nat
    BY <1>0, <2>2, ReturnedRow, ReturnAmounts
  <2>4. sale' \in [Sales -> SaleRow]
    BY <1>4, <2>1, <2>2, <2>3
  <2>5. stock' \in Int /\ moved' \in [Sales -> Int]
    BY <1>0, <2>1, <2>2, StockTypes
  <2>6. debt' \in Int
    BY <2>1, <2>3, WriteOffType
  <2> QED
    BY <1>1, <2>1, <2>4, <2>5, <2>6 DEF TypeOK
<1>d. ASSUME CommitCompleteDraft(r) PROVE TypeOK' /\ RequestsOK'
  <2>1. Finish(r, "completeDraft") /\ TakeStock(s, q) /\ debt' = debt + due
        /\ nextValue' = nextValue + 1
        /\ sale' = [sale EXCEPT ![s] = Issue(sale[s], q, a)]
    BY <1>d DEF CommitCompleteDraft, AllocateNumber
  <2>2. s \in Sales /\ sale[s] \in SaleRow
    BY <1>1, <1>2, <2>1
  <2>3. due \in Nat /\ a <= Price * q
    BY <1>1, <1>3, <2>1
  <2>4. Issue(sale[s], q, a) \in SaleRow
    BY <1>0, <1>5, <2>2, <2>3, IssueRow
  <2>5. sale' \in [Sales -> SaleRow]
    BY <1>4, <2>1, <2>2, <2>4
  <2>6. stock' \in Int /\ moved' \in [Sales -> Int]
    BY <1>0, <2>1, <2>2, StockTypes
  <2> HIDE DEF due
  <2>7. debt' \in Int /\ nextValue' \in Nat \ {0}
    BY <1>5, <1>6, <2>1, <2>3
  <2> QED
    BY <1>1, <2>1, <2>5, <2>6, <2>7 DEF TypeOK
<1>m. ASSUME CommitRemove(r) PROVE TypeOK' /\ RequestsOK'
  <2>1. Finish(r, "remove") /\ UNCHANGED <<moved, stock, debt, nextValue>>
        /\ sale' = [sale EXCEPT ![s] = Removed(s)]
    BY <1>m DEF CommitRemove
  <2>2. s \in Sales
    BY <1>1, <1>2, <2>1
  <2>3. Removed(s) \in SaleRow
    BY <2>2, RemovedRow
  <2>4. sale' \in [Sales -> SaleRow]
    BY <1>4, <2>1, <2>2, <2>3
  <2> QED
    BY <1>1, <2>1, <2>4 DEF TypeOK
<1>i. ASSUME InsertDraftItems(r) PROVE TypeOK' /\ RequestsOK'
  <2>1. Finish(r, "createDraft") /\ UNCHANGED <<moved, stock, debt, nextValue>>
        /\ sale' = [sale EXCEPT ![s] = [sale[s] EXCEPT !.qty = sale[s].qty + q]]
    BY <1>i DEF InsertDraftItems
  <2>2. s \in Sales /\ sale[s] \in SaleRow /\ sale[s].qty + q \in Nat
    BY <1>0, <1>1, <1>2, <2>1
  <2>3. [sale[s] EXCEPT !.qty = sale[s].qty + q] \in SaleRow
    BY <2>2, QtyRow
  <2>4. sale' \in [Sales -> SaleRow]
    BY <1>4, <2>1, <2>2, <2>3
  <2> QED
    BY <1>1, <2>1, <2>4 DEF TypeOK
<1> QED
  BY <1>c, <1>a, <1>n, <1>o, <1>t, <1>d, <1>m, <1>i

LEMMA OthersKeepTypes ==
    ASSUME TypeOK, RequestsOK, NEW r \in Requests
    PROVE  ReadReturns(r) \/ CreateDraft(r) \/ Abort(r) => TypeOK' /\ RequestsOK'
<1>1. ASSUME ReadReturns(r) PROVE TypeOK' /\ RequestsOK'
  <2> DEFINE n == sale[req[r].sale].returned
             v == sale[req[r].sale].retVal
             t == [req[r] EXCEPT !.step = "write", !.prior = n, !.priorVal = v]
  <2>1. /\ req[r].op = "return"
        /\ req' = [req EXCEPT ![r] = t]
        /\ UNCHANGED <<ledger, handled>>
    BY <1>1 DEF ReadReturns
  <2>2. req[r].sale \in Sales
    BY <2>1 DEF RequestsOK
  <2>3. n \in Nat /\ v \in Nat
    BY <2>2 DEF TypeOK, SaleRow
  <2>4. req[r] \in Request
    BY InFlight
  <2> HIDE DEF n, v
  <2>5. /\ t \in Request
        /\ t.op = req[r].op /\ t.sale = req[r].sale
        /\ t.amount = req[r].amount /\ t.qty = req[r].qty
    BY <2>3, <2>4 DEF Request
  <2> HIDE DEF t
  <2>6. req' \in [Requests -> Request]
    BY <2>1, <2>5 DEF TypeOK
  <2>7. ASSUME NEW x \in Requests
        PROVE  (req'[x] = t /\ x = r) \/ req'[x] = req[x]
    BY <2>1 DEF TypeOK
  <2>8. RequestsOK'
    BY <2>1, <2>2, <2>5, <2>7 DEF RequestsOK
  <2> QED
    BY <2>1, <2>6, <2>8 DEF TypeOK, ledger
<1>2. ASSUME CreateDraft(r) PROVE TypeOK' /\ RequestsOK'
  <2>1. PICK s \in Sales, q \in Quantities, w \in BOOLEAN :
            /\ handled < MaxRequests
            /\ handled' = handled + 1
            /\ sale' = [sale EXCEPT ![s] = [NoRow EXCEPT !.status = "draft",
                            !.wh = w, !.total = Price * q, !.rem = Price * q]]
            /\ req' = [req EXCEPT ![r] = [Idle EXCEPT !.op = "createDraft",
                            !.step = "write", !.sale = s, !.qty = q]]
            /\ UNCHANGED <<moved, stock, debt, nextValue>>
    BY <1>2 DEF CreateDraft
  <2> DEFINE tot == Price * q
             t == [Idle EXCEPT !.op = "createDraft", !.step = "write",
                               !.sale = s, !.qty = q]
  <2>2. q \in Nat /\ tot \in Nat
    BY SalesAssumption, NetPrice
  <2>3. [NoRow EXCEPT !.status = "draft", !.wh = w, !.total = tot, !.rem = tot]
          \in SaleRow
    <3> HIDE DEF tot
    <3> QED
      BY <2>2, DraftRow
  <2>4. sale' \in [Sales -> SaleRow]
    BY <2>1, <2>3 DEF TypeOK
  <2>5. t \in Request /\ t.op = "createDraft" /\ t.sale = s
    BY <2>2, RowTypes DEF Idle, Request, OpNames
  <2> HIDE DEF t
  <2>6. req' = [req EXCEPT ![r] = t]
    BY <2>1 DEF t
  <2>7. req' \in [Requests -> Request]
    BY <2>5, <2>6 DEF TypeOK
  <2>8. ASSUME NEW x \in Requests
        PROVE  req'[x] = t \/ req'[x] = req[x]
    BY <2>6 DEF TypeOK
  <2>9. RequestsOK'
    BY <2>5, <2>8 DEF RequestsOK
  <2>10. handled' \in 0..MaxRequests
    BY <2>1, SalesAssumption DEF TypeOK
  <2> QED
    BY <2>1, <2>4, <2>7, <2>9, <2>10 DEF TypeOK
<1>3. ASSUME Abort(r) PROVE TypeOK' /\ RequestsOK'
  BY <1>3, ResetKeepsTypes DEF Abort, TypeOK, ledger
<1> QED
  BY <1>1, <1>2, <1>3

LEMMA DeleteKeepsTypes ==
    ASSUME TypeOK, RequestsOK, DeleteOldDrafts
    PROVE  TypeOK' /\ RequestsOK'
<1>1. PICK old \in SUBSET Sales :
            /\ handled < MaxRequests
            /\ handled' = handled + 1
            /\ sale' = [s \in Sales |-> IF s \in old THEN Removed(s) ELSE sale[s]]
            /\ UNCHANGED <<moved, stock, debt, nextValue, req>>
  BY DEF DeleteOldDrafts
<1>2. ASSUME NEW s \in Sales
      PROVE  Removed(s) \in SaleRow /\ sale[s] \in SaleRow
  BY RemovedRow DEF TypeOK
<1>3. sale' \in [Sales -> SaleRow]
  BY <1>1, <1>2
<1>4. handled' \in 0..MaxRequests
  BY <1>1, SalesAssumption DEF TypeOK
<1> QED
  BY <1>1, <1>3, <1>4 DEF TypeOK, RequestsOK

LEMMA TypesInductive ==
    /\ Init => TypeOK /\ RequestsOK
    /\ TypeOK /\ RequestsOK /\ [Next]_vars => TypeOK' /\ RequestsOK'
<1>1. ASSUME Init PROVE TypeOK /\ RequestsOK
  <2>1. Idle.op = "idle"
    BY DEF Idle
  <2> QED
    BY <1>1, <2>1, RowTypes, SalesAssumption DEF Init, TypeOK, RequestsOK
<1>2. ASSUME TypeOK, RequestsOK, [Next]_vars PROVE TypeOK' /\ RequestsOK'
  <2>1. CASE \E r \in Requests : Step(r)
    <3>1. PICK r \in Requests : Step(r)
      BY <2>1
    <3> QED
      BY <1>2, <3>1, BeginsKeepTypes, CommitsKeepTypes, OthersKeepTypes DEF Step
  <2>2. CASE DeleteOldDrafts
    BY <1>2, <2>2, DeleteKeepsTypes
  <2>3. CASE UNCHANGED vars
    BY <1>2, <2>3 DEF vars, TypeOK, RequestsOK
  <2> QED
    BY <1>2, <2>1, <2>2, <2>3 DEF Next
<1> QED
  BY <1>1, <1>2

\* Every field of every table and every request in flight keeps its type,
\* whatever the handlers write back from stale snapshots: in particular no
\* amount, quantity or refund ever becomes negative.
THEOREM TypeCorrect == Spec => []TypeOK
<1> DEFINE Inv == TypeOK /\ RequestsOK
<1>1. Init => Inv
  BY TypesInductive
<1>2. Inv /\ [Next]_vars => Inv'
  BY TypesInductive
<1>3. Inv => TypeOK
  OBVIOUS
<1> QED
  BY <1>1, <1>2, <1>3, PTL DEF Spec

-----------------------------------------------------------------------------
(* The warehouse *)

LEMMA StockStep ==
    ASSUME TypeOK, RequestsOK, StockNeverNegative, [Next]_vars
    PROVE  StockNeverNegative'
<1>1. ASSUME NEW s, NEW q, TakeStock(s, q) PROVE q \in Nat => stock' >= 0
  BY <1>1 DEF TakeStock, TypeOK
<1>2. ASSUME NEW s, NEW w \in BOOLEAN, NEW q \in Nat, PutStock(s, w, q)
      PROVE  stock' >= 0
  BY <1>2 DEF PutStock, StockNeverNegative, TypeOK
<1>3. ASSUME UNCHANGED stock PROVE stock' >= 0
  BY <1>3 DEF StockNeverNegative
<1>4. ASSUME NEW r \in Requests, Step(r) PROVE stock' >= 0
  <2>0. /\ req[r].qty \in Nat /\ req[r].snap.qty \in Nat
        /\ req[r].snap.wh \in BOOLEAN
    BY InFlight
  <2>1. CASE CommitCreate(r)
    BY <1>1, <2>0, <2>1 DEF CommitCreate
  <2>2. CASE CommitCompleteDraft(r)
    BY <1>1, <2>0, <2>2 DEF CommitCompleteDraft
  <2>3. CASE CommitRestore(r)
    <3> DEFINE back == IF req[r].snap.wh THEN req[r].snap.qty ELSE 0
    <3>1. back \in Nat /\ TakeStock(req[r].sale, back)
      BY <2>0, <2>3 DEF CommitRestore
    <3> HIDE DEF back
    <3> QED
      BY <1>1, <3>1
  <2>4. CASE CommitCancel(r)
    BY <1>2, <2>0, <2>4 DEF CommitCancel
  <2>5. CASE CommitReturn(r)
    BY <1>2, <2>0, <2>5 DEF CommitReturn
  <2>6. CASE CommitAddPayment(r) \/ CommitRemove(r) \/ InsertDraftItems(r)
             \/ CreateDraft(r)
    BY <1>3, <2>6 DEF CommitAddPayment, CommitRemove, InsertDraftItems, CreateDraft
  <2>7. CASE BeginCreate(r) \/ BeginAddPayment(r) \/ BeginCancel(r)
             \/ BeginRestore(r) \/ BeginReturn(r) \/ BeginCompleteDraft(r)
             \/ BeginRemove(r) \/ ReadReturns(r) \/ Abort(r)
    <3>1. UNCHANGED ledger
      BY <2>7 DEF BeginCreate, BeginAddPayment, BeginCancel, BeginRestore,
           BeginReturn, BeginCompleteDraft, BeginRemove, ReadReturns, Abort, Accept
    <3> QED
      BY <1>3, <3>1 DEF ledger
  <2> QED
    BY <1>4, <2>1, <2>2, <2>3, <2>4, <2>5, <2>6, <2>7 DEF Step
<1> QED
  BY <1>3, <1>4 DEF Next, DeleteOldDrafts, vars, StockNeverNegative

\* The stock row is never negative, however many sales, draft completions,
\* restores, cancellations and returns race for it: applyStockChangeTx checks
\* the quantity again under the row lock.
THEOREM NoOverselling == Spec => []StockNeverNegative
<1> DEFINE Inv == TypeOK /\ RequestsOK /\ StockNeverNegative
<1>1. Init => Inv
  BY TypesInductive, SalesAssumption DEF Init, StockNeverNegative
<1>2. Inv /\ [Next]_vars => Inv'
  BY TypesInductive, StockStep
<1>3. Inv => StockNeverNegative
  OBVIOUS
<1> QED
  BY <1>1, <1>2, <1>3, PTL DEF Spec

-----------------------------------------------------------------------------
(* The movement log *)

\* A step leaves the stock and the log alone, or changes both by the same
\* quantity, under one sale.
StockMove ==
    \/ UNCHANGED <<moved, stock>>
    \/ \E s \in Sales : \E d \in Int :
         /\ moved' = [moved EXCEPT ![s] = moved[s] + d]
         /\ stock' = stock + d

LEMMA StockMoves ==
    ASSUME TypeOK, RequestsOK, [Next]_vars
    PROVE  StockMove
<1>1. ASSUME NEW s \in Sales, NEW q \in Nat, TakeStock(s, q) PROVE StockMove
  <2>1. -q \in Int /\ stock - q = stock + (-q) /\ moved[s] - q = moved[s] + (-q)
    BY DEF TypeOK
  <2> QED
    BY <1>1, <2>1 DEF TakeStock, StockMove
<1>2. ASSUME NEW s \in Sales, NEW w \in BOOLEAN, NEW q \in Nat, PutStock(s, w, q)
      PROVE  StockMove
  <2> DEFINE back == IF w THEN q ELSE 0
  <2>1. back \in Int /\ moved' = [moved EXCEPT ![s] = moved[s] + back]
        /\ stock' = stock + back
    BY <1>2 DEF PutStock
  <2> HIDE DEF back
  <2> QED
    BY <2>1 DEF StockMove
<1>3. ASSUME NEW r \in Requests, Step(r) PROVE StockMove
  <2>0. /\ req[r].qty \in Nat /\ req[r].snap.qty \in Nat
        /\ req[r].snap.wh \in BOOLEAN
        /\ req[r].op \notin {"idle", "create"} => req[r].sale \in Sales
    BY InFlight DEF RequestsOK
  <2>1. CASE CommitCreate(r)
    BY <1>1, <2>0, <2>1 DEF CommitCreate
  <2>2. CASE CommitCompleteDraft(r)
    BY <1>1, <2>0, <2>2 DEF CommitCompleteDraft, Finish
  <2>3. CASE CommitRestore(r)
    <3> DEFINE back == IF req[r].snap.wh THEN req[r].snap.qty ELSE 0
    <3>1. back \in Nat /\ req[r].sale \in Sales /\ TakeStock(req[r].sale, back)
      BY <2>0, <2>3 DEF CommitRestore, Finish
    <3> HIDE DEF back
    <3> QED
      BY <1>1, <3>1
  <2>4. CASE CommitCancel(r)
    BY <1>2, <2>0, <2>4 DEF CommitCancel, Finish
  <2>5. CASE CommitReturn(r)
    BY <1>2, <2>0, <2>5 DEF CommitReturn, Finish
  <2>6. CASE CommitAddPayment(r) \/ CommitRemove(r) \/ InsertDraftItems(r)
             \/ CreateDraft(r)
    BY <2>6 DEF StockMove, CommitAddPayment, CommitRemove, InsertDraftItems, CreateDraft
  <2>7. CASE BeginCreate(r) \/ BeginAddPayment(r) \/ BeginCancel(r)
             \/ BeginRestore(r) \/ BeginReturn(r) \/ BeginCompleteDraft(r)
             \/ BeginRemove(r) \/ ReadReturns(r) \/ Abort(r)
    <3>1. UNCHANGED ledger
      BY <2>7 DEF BeginCreate, BeginAddPayment, BeginCancel, BeginRestore,
           BeginReturn, BeginCompleteDraft, BeginRemove, ReadReturns, Abort, Accept
    <3> QED
      BY <3>1 DEF ledger, StockMove
  <2> QED
    BY <1>3, <2>1, <2>2, <2>3, <2>4, <2>5, <2>6, <2>7 DEF Step
<1> QED
  BY <1>3 DEF Next, DeleteOldDrafts, vars, StockMove

LEMMA LogStep ==
    ASSUME TypeOK, RequestsOK, StockMatchesLog, [Next]_vars
    PROVE  StockMatchesLog'
<1>1. CASE UNCHANGED <<moved, stock>>
  BY <1>1 DEF StockMatchesLog
<1>2. ASSUME NEW s \in Sales, NEW d \in Int,
             moved' = [moved EXCEPT ![s] = moved[s] + d],
             stock' = stock + d
      PROVE  StockMatchesLog'
  <2>1. /\ \A x \in Sales : moved[x] \in Int /\ moved'[x] \in Int
        /\ \A x \in Sales : x # s => moved[x] = moved'[x]
        /\ moved'[s] = moved[s] + d
        /\ IsFiniteSet(Sales)
    BY <1>2, SalesAssumption DEF TypeOK
  <2>2. SumOver(moved', Sales) = SumOver(moved, Sales) + moved'[s] - moved[s]
    BY <2>1, SumChange
  <2>3. SumOver(moved, Sales) \in Int /\ InitStock \in Int /\ moved[s] \in Int
    BY <2>1, SumInt, SalesAssumption
  <2> QED
    BY <1>2, <2>1, <2>2, <2>3 DEF StockMatchesLog
<1> QED
  BY <1>1, <1>2, StockMoves DEF StockMove

LEMMA LogInit == Init => StockMatchesLog
<1> SUFFICES ASSUME Init PROVE StockMatchesLog
  OBVIOUS
<1>1. \A s \in Sales : moved[s] = 0
  BY DEF Init
<1>2. SumOver(moved, Sales) = 0
  BY <1>1, SumZero, SalesAssumption
<1> QED
  BY <1>2, SalesAssumption DEF Init, StockMatchesLog

\* The stock row never diverges from the movement log, in whatever order
\* sales, cancellations, restores, returns, completions and deletions commit:
\* every handler that changes the row writes its movement in the same
\* transaction.
THEOREM LogExplainsStock == Spec => []StockMatchesLog
<1> DEFINE Inv == TypeOK /\ RequestsOK /\ StockMatchesLog
<1>1. Init => Inv
  BY TypesInductive, LogInit
<1>2. Inv /\ [Next]_vars => Inv'
  BY TypesInductive, LogStep
<1>3. Inv => StockMatchesLog
  OBVIOUS
<1> QED
  BY <1>1, <1>2, <1>3, PTL DEF Spec

-----------------------------------------------------------------------------
(* Invoice numbers *)

\* The counter is ahead of every number handed out.
NumbersBelowNext == \A s \in Sales : sale[s].number < nextValue

\* A step issues at most one number, the next one, to one invoice; the others
\* keep theirs (a new draft starts without one).
NumberStep ==
    \/ /\ nextValue' = nextValue
       /\ \A s \in Sales : sale'[s].number \in {sale[s].number, 0}
    \/ /\ nextValue' = nextValue + 1
       /\ \E x \in Sales :
            /\ sale'[x].number = nextValue
            /\ \A s \in Sales \ {x} : sale'[s].number = sale[s].number

\* What each way of writing a row does to the fields the invariants read.
LEMMA WrittenFields ==
    ASSUME NEW row \in SaleRow, NEW snap \in SaleRow, NEW t \in Request,
           NEW q \in Nat, NEW p \in Nat, NEW st
    PROVE  /\ Paid(row, snap, p).number = row.number
           /\ Paid(row, snap, p).paid = snap.paid + p
           /\ Paid(row, snap, p).payRows = row.payRows + p
           /\ Returned(row, t).number = row.number
           /\ Returned(row, t).paid = AtLeastZero(t.snap.paid - RefundAmount(t))
           /\ Returned(row, t).payRows = row.payRows
           /\ Issue(row, q, p).number = nextValue
           /\ Issue(row, q, p).paid = p
           /\ Issue(row, q, p).payRows = row.payRows + p
           /\ [row EXCEPT !.status = st].number = row.number
           /\ [row EXCEPT !.status = st].paid = row.paid
           /\ [row EXCEPT !.status = st].payRows = row.payRows
           /\ [row EXCEPT !.qty = q].number = row.number
           /\ [row EXCEPT !.qty = q].paid = row.paid
           /\ [row EXCEPT !.qty = q].payRows = row.payRows
           /\ [row EXCEPT !.qty = q].status = row.status
BY DEF Paid, Returned, Issue, SaleRow

LEMMA WrittenRow ==
    ASSUME TypeOK, NEW x \in Sales, NEW row, sale' = [sale EXCEPT ![x] = row]
    PROVE  /\ sale'[x] = row
           /\ \A s \in Sales \ {x} : sale'[s] = sale[s]
BY DEF TypeOK

LEMMA NumbersMove ==
    ASSUME TypeOK, RequestsOK, NEW r \in Requests, Step(r)
    PROVE  NumberStep
<1> DEFINE s == req[r].sale
           t == req[r]
           q == req[r].qty
           a == req[r].amount
<1>0. /\ t \in Request /\ t.snap \in SaleRow
      /\ q \in Nat /\ a \in Nat
  BY InFlight
<1>1. ASSUME t.op \notin {"idle", "create"} PROVE s \in Sales /\ sale[s] \in SaleRow
  BY <1>1 DEF RequestsOK, TypeOK
<1>2. ASSUME NEW x \in Sales, NEW row, sale' = [sale EXCEPT ![x] = row],
             row.number \in {sale[x].number, 0}, nextValue' = nextValue
      PROVE  NumberStep
  BY <1>2, WrittenRow DEF NumberStep
<1>3. ASSUME NEW x \in Sales, NEW row, sale' = [sale EXCEPT ![x] = row],
             row.number = nextValue, nextValue' = nextValue + 1
      PROVE  NumberStep
  BY <1>3, WrittenRow DEF NumberStep
<1>4. ASSUME UNCHANGED <<sale, nextValue>> PROVE NumberStep
  BY <1>4 DEF NumberStep
<1>c. CASE CommitCreate(r)
  <2>1. PICK x \in Sales : /\ nextValue' = nextValue + 1
                           /\ sale' = [sale EXCEPT ![x] = Issue(NoRow, q, a)]
    BY <1>c DEF CommitCreate, AllocateNumber
  <2>2. Issue(NoRow, q, a).number = nextValue
    BY <1>0, RowTypes, WrittenFields
  <2> QED
    BY <1>3, <2>1, <2>2
<1>d. CASE CommitCompleteDraft(r)
  <2>1. /\ Finish(r, "completeDraft") /\ nextValue' = nextValue + 1
        /\ sale' = [sale EXCEPT ![s] = Issue(sale[s], q, a)]
    BY <1>d DEF CommitCompleteDraft, AllocateNumber
  <2>2. s \in Sales /\ sale[s] \in SaleRow
    BY <1>1, <2>1 DEF Finish
  <2>3. Issue(sale[s], q, a).number = nextValue
    BY <1>0, <2>2, WrittenFields
  <2> QED
    BY <1>3, <2>1, <2>2, <2>3
<1>a. CASE CommitAddPayment(r)
  <2>1. /\ Finish(r, "addPayment") /\ nextValue' = nextValue
        /\ sale' = [sale EXCEPT ![s] = Paid(sale[s], t.snap, a)]
    BY <1>a DEF CommitAddPayment
  <2>2. s \in Sales /\ sale[s] \in SaleRow
    BY <1>1, <2>1 DEF Finish
  <2>3. Paid(sale[s], t.snap, a).number = sale[s].number
    BY <1>0, <2>2, WrittenFields
  <2> QED
    BY <1>2, <2>1, <2>2, <2>3
<1>n. CASE CommitCancel(r) \/ CommitRestore(r)
  <2>1. /\ Finish(r, "cancel") \/ Finish(r, "restore")
        /\ nextValue' = nextValue
        /\ \/ sale' = sale
           \/ \E st : sale' = [sale EXCEPT ![s] = [sale[s] EXCEPT !.status = st]]
    BY <1>n DEF CommitCancel, CommitRestore
  <2>2. s \in Sales /\ sale[s] \in SaleRow
    BY <1>1, <2>1 DEF Finish
  <2>3. ASSUME NEW st, sale' = [sale EXCEPT ![s] = [sale[s] EXCEPT !.status = st]]
        PROVE  NumberStep
    <3>1. [sale[s] EXCEPT !.status = st].number = sale[s].number
      BY <1>0, <2>2, WrittenFields
    <3> QED
      BY <1>2, <2>1, <2>2, <2>3, <3>1
  <2> QED
    BY <1>4, <2>1, <2>3
<1>t. CASE CommitReturn(r)
  <2>1. /\ Finish(r, "return") /\ nextValue' = nextValue
        /\ sale' = [sale EXCEPT ![s] = Returned(sale[s], t)]
    BY <1>t DEF CommitReturn
  <2>2. s \in Sales /\ sale[s] \in SaleRow
    BY <1>1, <2>1 DEF Finish
  <2>3. Returned(sale[s], t).number = sale[s].number
    BY <1>0, <2>2, WrittenFields
  <2> QED
    BY <1>2, <2>1, <2>2, <2>3
<1>m. CASE CommitRemove(r)
  <2>1. /\ Finish(r, "remove") /\ nextValue' = nextValue
        /\ sale' = [sale EXCEPT ![s] = Removed(s)]
    BY <1>m DEF CommitRemove
  <2>2. s \in Sales
    BY <1>1, <2>1 DEF Finish
  <2>3. Removed(s).number = sale[s].number
    BY DEF Removed, NoRow
  <2> QED
    BY <1>2, <2>1, <2>2, <2>3
<1>i. CASE InsertDraftItems(r)
  <2>1. /\ Finish(r, "createDraft") /\ nextValue' = nextValue
        /\ sale' = [sale EXCEPT ![s] = [sale[s] EXCEPT !.qty = sale[s].qty + q]]
    BY <1>i DEF InsertDraftItems
  <2>2. s \in Sales /\ sale[s] \in SaleRow
    BY <1>1, <2>1 DEF Finish
  <2>3. [sale[s] EXCEPT !.qty = sale[s].qty + q].number = sale[s].number
    BY <2>2 DEF SaleRow
  <2> QED
    BY <1>2, <2>1, <2>2, <2>3
<1>e. CASE CreateDraft(r)
  <2>1. PICK x \in Sales, n \in Quantities, w \in BOOLEAN :
            /\ sale[x].status = "absent" /\ nextValue' = nextValue
            /\ sale' = [sale EXCEPT ![x] = [NoRow EXCEPT !.status = "draft",
                            !.wh = w, !.total = Price * n, !.rem = Price * n]]
    BY <1>e DEF CreateDraft
  <2>2. [NoRow EXCEPT !.status = "draft", !.wh = w, !.total = Price * n,
                      !.rem = Price * n].number = 0
    BY DEF NoRow
  <2> QED
    BY <1>2, <2>1, <2>2
<1>b. CASE BeginCreate(r) \/ BeginAddPayment(r) \/ BeginCancel(r)
           \/ BeginRestore(r) \/ BeginReturn(r) \/ BeginCompleteDraft(r)
           \/ BeginRemove(r) \/ ReadReturns(r) \/ Abort(r)
  <2>1. UNCHANGED ledger
    BY <1>b DEF BeginCreate, BeginAddPayment, BeginCancel, BeginRestore,
         BeginReturn, BeginCompleteDraft, BeginRemove, ReadReturns, Abort, Accept
  <2> QED
    BY <1>4, <2>1 DEF ledger
<1> QED
  BY <1>c, <1>d, <1>a, <1>n, <1>t, <1>m, <1>i, <1>e, <1>b DEF Step

LEMMA NumbersStep ==
    ASSUME TypeOK, RequestsOK, NumbersBelowNext, InvoiceNumbersUnique, [Next]_vars
    PROVE  NumbersBelowNext' /\ InvoiceNumbersUnique'
<1>0. /\ nextValue \in Nat \ {0} /\ nextValue + 1 \in Nat
      /\ \A s \in Sales : sale[s].number \in Nat /\ sale[s].number < nextValue
  BY DEF TypeOK, SaleRow, NumbersBelowNext
<1>1. NumberStep
  <2>1. CASE \E r \in Requests : Step(r)
    BY <2>1, NumbersMove
  <2>2. CASE DeleteOldDrafts
    <3>1. PICK old \in SUBSET Sales :
              sale' = [s \in Sales |-> IF s \in old THEN Removed(s) ELSE sale[s]]
      BY <2>2 DEF DeleteOldDrafts
    <3>2. ASSUME NEW s \in Sales PROVE sale'[s].number = sale[s].number
      BY <3>1 DEF Removed, NoRow
    <3> QED
      BY <2>2, <3>2 DEF NumberStep, DeleteOldDrafts
  <2>3. CASE UNCHANGED vars
    BY <2>3 DEF vars, NumberStep
  <2> QED
    BY <2>1, <2>2, <2>3 DEF Next
<1>2. CASE /\ nextValue' = nextValue
           /\ \A s \in Sales : sale'[s].number \in {sale[s].number, 0}
  BY <1>0, <1>2 DEF NumbersBelowNext, InvoiceNumbersUnique
<1>3. CASE /\ nextValue' = nextValue + 1
           /\ \E x \in Sales :
                /\ sale'[x].number = nextValue
                /\ \A s \in Sales \ {x} : sale'[s].number = sale[s].number
  <2>1. PICK x \in Sales :
               /\ sale'[x].number = nextValue
               /\ \A s \in Sales \ {x} : sale'[s].number = sale[s].number
    BY <1>3
  <2>2. ASSUME NEW s \in Sales PROVE sale'[s].number < nextValue'
    <3>1. CASE s = x
      BY <1>0, <1>3, <2>1, <3>1
    <3>2. CASE s # x
      BY <1>0, <1>3, <2>1, <3>2
    <3> QED
      BY <3>1, <3>2
  <2>3. ASSUME NEW s \in Sales, NEW t \in Sales, s # t, sale'[s].number # 0
        PROVE  sale'[s].number # sale'[t].number
    <3>1. CASE s = x
      BY <1>0, <2>1, <2>3, <3>1
    <3>2. CASE t = x
      BY <1>0, <2>1, <2>3, <3>2
    <3>3. CASE s # x /\ t # x
      BY <2>1, <2>3, <3>3 DEF InvoiceNumbersUnique
    <3> QED
      BY <3>1, <3>2, <3>3
  <2> QED
    BY <2>2, <2>3 DEF NumbersBelowNext, InvoiceNumbersUnique
<1> QED
  BY <1>1, <1>2, <1>3 DEF NumberStep

\* No two invoices ever carry the same number, deleted ones included:
\* allocateInvoiceNumber hands out the counter under its row lock, so every
\* number in use stays below it.
THEOREM NumbersNeverShared == Spec => []InvoiceNumbersUnique
<1> DEFINE Inv == TypeOK /\ RequestsOK /\ NumbersBelowNext /\ InvoiceNumbersUnique
<1>1. Init => Inv
  <2> SUFFICES ASSUME Init PROVE NumbersBelowNext /\ InvoiceNumbersUnique
    BY TypesInductive
  <2>1. \A s \in Sales : sale[s].number = 0
    BY DEF Init, NoRow
  <2> QED
    BY <2>1 DEF Init, NumbersBelowNext, InvoiceNumbersUnique
<1>2. Inv /\ [Next]_vars => Inv'
  BY TypesInductive, NumbersStep
<1>3. Inv => InvoiceNumbersUnique
  OBVIOUS
<1> QED
  BY <1>1, <1>2, <1>3, PTL DEF Spec

-----------------------------------------------------------------------------
(* Cash *)

\* The amounts paid that payments and returns in flight have read are covered
\* by the payments rows, as long as their sale is there.
SnapshotsCovered ==
    \A r \in Requests : req[r].op \in {"addPayment", "return"} =>
        /\ sale[req[r].sale].status # "absent"
        /\ Exists(req[r].sale) => req[r].snap.paid <= sale[req[r].sale].payRows

\* What a step does to the cash of a sale: rows are written with their paid
\* amount covered, ids are not used again, payments rows are not lost.
CashStep ==
    \A s \in Sales :
        /\ Exists(s)' => sale'[s].paid <= sale'[s].payRows
        /\ sale[s].status # "absent" => sale'[s].status # "absent"
        /\ sale[s].status # "absent" /\ Exists(s)' =>
             Exists(s) /\ sale[s].payRows <= sale'[s].payRows

\* The status each way of writing a row leaves.
LEMMA WrittenStatus ==
    ASSUME NEW row \in SaleRow, NEW snap, NEW t, NEW q, NEW p, NEW st
    PROVE  /\ Paid(row, snap, p).status \in Issued
           /\ Returned(row, t).status \in Issued
           /\ Issue(row, q, p).status \in Issued
           /\ [row EXCEPT !.status = st].status = st
<1>1. Paid(row, snap, p).status = PaidStatus(AtLeastZero(snap.rem - p))
  BY DEF Paid, SaleRow
<1>2. Issue(row, q, p).status = PaidStatus(Price * q - p)
  BY DEF Issue, SaleRow
<1>3. Returned(row, t).status \in {"returned", "partially_returned"}
  BY DEF Returned, SaleRow
<1>4. [row EXCEPT !.status = st].status = st
  BY DEF SaleRow
<1> QED
  BY <1>1, <1>2, <1>3, <1>4, PaidStatusType DEF Issued

LEMMA ReturnLeavesCash ==
    ASSUME NEW t \in Request, NEW y \in Nat, t.snap.paid <= y
    PROVE  AtLeastZero(t.snap.paid - RefundAmount(t)) <= y
<1>1. t.snap.paid \in Nat /\ RefundAmount(t) \in Nat
  BY ReturnAmounts DEF Request, SaleRow
<1> DEFINE f == RefundAmount(t)
           p == t.snap.paid
<1>2. p - f <= p /\ p - f \in Int
  <2> HIDE DEF f, p
  <2> QED
    BY <1>1 DEF f, p
<1> QED
  BY <1>1, <1>2 DEF AtLeastZero

LEMMA CashMoves ==
    ASSUME TypeOK, RequestsOK, NoPhantomCash, SnapshotsCovered,
           NEW r \in Requests, Step(r)
    PROVE  CashStep
<1> DEFINE s == req[r].sale
           t == req[r]
           q == req[r].qty
           a == req[r].amount
<1>0. /\ t \in Request /\ t.snap \in SaleRow /\ t.snap.paid \in Nat
      /\ q \in Nat /\ a \in Nat
  BY InFlight DEF SaleRow
<1>1. ASSUME t.op \notin {"idle", "create"}
      PROVE  /\ s \in Sales /\ sale[s] \in SaleRow
             /\ sale[s].payRows \in Nat /\ sale[s].paid \in Nat
  BY <1>1 DEF RequestsOK, TypeOK, SaleRow
<1>2. ASSUME NEW x \in Sales, NEW row, sale' = [sale EXCEPT ![x] = row],
             Exists(x), row.status # "absent", row.paid <= row.payRows,
             sale[x].payRows <= row.payRows
      PROVE  CashStep
  BY <1>2, WrittenRow DEF CashStep, NoPhantomCash, Exists, TypeOK, SaleRow
<1>3. ASSUME NEW x \in Sales, NEW row, sale' = [sale EXCEPT ![x] = row],
             sale[x].status = "absent", row.paid <= row.payRows
      PROVE  CashStep
  BY <1>3, WrittenRow DEF CashStep, NoPhantomCash, Exists, TypeOK, SaleRow
<1>4. ASSUME NEW x \in Sales, NEW row, sale' = [sale EXCEPT ![x] = row],
             row.status = "removed"
      PROVE  CashStep
  BY <1>4, WrittenRow DEF CashStep, NoPhantomCash, Exists, TypeOK, SaleRow
<1>5. ASSUME sale' = sale PROVE CashStep
  BY <1>5 DEF CashStep, NoPhantomCash, Exists, TypeOK, SaleRow
<1>6. "absent" \notin Issued
  BY DEF Issued
<1>c. CASE CommitCreate(r)
  <2>1. PICK x \in Sales : /\ sale[x].status = "absent"
                           /\ sale' = [sale EXCEPT ![x] = Issue(NoRow, q, a)]
    BY <1>c DEF CommitCreate
  <2>2. /\ Issue(NoRow, q, a).paid = a
        /\ Issue(NoRow, q, a).payRows = NoRow.payRows + a
    BY <1>0, RowTypes, WrittenFields
  <2>3. Issue(NoRow, q, a).paid <= Issue(NoRow, q, a).payRows
    BY <1>0, <2>2 DEF NoRow
  <2> QED
    BY <1>3, <2>1, <2>3
<1>d. CASE CommitCompleteDraft(r)
  <2>1. /\ Finish(r, "completeDraft") /\ Exists(s)
        /\ sale' = [sale EXCEPT ![s] = Issue(sale[s], q, a)]
    BY <1>d DEF CommitCompleteDraft
  <2>2. s \in Sales /\ sale[s] \in SaleRow /\ sale[s].payRows \in Nat
    BY <1>1, <2>1 DEF Finish
  <2>3. /\ Issue(sale[s], q, a).paid = a
        /\ Issue(sale[s], q, a).payRows = sale[s].payRows + a
        /\ Issue(sale[s], q, a).status # "absent"
    BY <1>0, <1>6, <2>2, WrittenFields, WrittenStatus
  <2>4. /\ Issue(sale[s], q, a).paid <= Issue(sale[s], q, a).payRows
        /\ sale[s].payRows <= Issue(sale[s], q, a).payRows
    BY <1>0, <2>2, <2>3
  <2> QED
    BY <1>2, <2>1, <2>2, <2>3, <2>4
<1>a. CASE CommitAddPayment(r)
  <2>1. /\ Finish(r, "addPayment") /\ Exists(s)
        /\ sale' = [sale EXCEPT ![s] = Paid(sale[s], t.snap, a)]
    BY <1>a DEF CommitAddPayment
  <2>2. s \in Sales /\ sale[s] \in SaleRow /\ sale[s].payRows \in Nat
    BY <1>1, <2>1 DEF Finish
  <2>3. t.snap.paid <= sale[s].payRows
    BY <2>1 DEF Finish, SnapshotsCovered
  <2>4. /\ Paid(sale[s], t.snap, a).paid = t.snap.paid + a
        /\ Paid(sale[s], t.snap, a).payRows = sale[s].payRows + a
        /\ Paid(sale[s], t.snap, a).status # "absent"
    BY <1>0, <1>6, <2>2, WrittenFields, WrittenStatus
  <2>5. /\ Paid(sale[s], t.snap, a).paid <= Paid(sale[s], t.snap, a).payRows
        /\ sale[s].payRows <= Paid(sale[s], t.snap, a).payRows
    BY <1>0, <2>2, <2>3, <2>4
  <2> QED
    BY <1>2, <2>1, <2>2, <2>4, <2>5
<1>n. CASE CommitCancel(r) \/ CommitRestore(r)
  <2>1. /\ Finish(r, "cancel") \/ Finish(r, "restore")
        /\ \/ sale' = sale
           \/ /\ Exists(s)
              /\ \E st \in Issued \union {"cancelled"} :
                   sale' = [sale EXCEPT ![s] = [sale[s] EXCEPT !.status = st]]
    BY <1>n, PaidStatusType DEF CommitCancel, CommitRestore
  <2>2. s \in Sales /\ sale[s] \in SaleRow /\ sale[s].payRows \in Nat
    BY <1>1, <2>1 DEF Finish
  <2>3. ASSUME NEW st \in Issued \union {"cancelled"}, Exists(s),
               sale' = [sale EXCEPT ![s] = [sale[s] EXCEPT !.status = st]]
        PROVE  CashStep
    <3>1. /\ [sale[s] EXCEPT !.status = st].paid = sale[s].paid
          /\ [sale[s] EXCEPT !.status = st].payRows = sale[s].payRows
          /\ [sale[s] EXCEPT !.status = st].status # "absent"
      BY <1>6, <2>2 DEF SaleRow
    <3>2. sale[s].paid <= sale[s].payRows
      BY <2>2, <2>3 DEF NoPhantomCash
    <3>3. sale[s].payRows <= sale[s].payRows
      BY <2>2
    <3> QED
      BY <1>2, <2>2, <2>3, <3>1, <3>2, <3>3
  <2> QED
    BY <1>5, <2>1, <2>3
<1>t. CASE CommitReturn(r)
  <2>1. /\ Finish(r, "return") /\ Exists(s)
        /\ sale' = [sale EXCEPT ![s] = Returned(sale[s], t)]
    BY <1>t DEF CommitReturn
  <2>2. s \in Sales /\ sale[s] \in SaleRow /\ sale[s].payRows \in Nat
    BY <1>1, <2>1 DEF Finish
  <2>3. t.snap.paid <= sale[s].payRows
    BY <2>1 DEF Finish, SnapshotsCovered
  <2>4. /\ Returned(sale[s], t).paid = AtLeastZero(t.snap.paid - RefundAmount(t))
        /\ Returned(sale[s], t).payRows = sale[s].payRows
        /\ Returned(sale[s], t).status # "absent"
    BY <1>0, <1>6, <2>2, WrittenFields, WrittenStatus
  <2>5. AtLeastZero(t.snap.paid - RefundAmount(t)) <= sale[s].payRows
    BY <1>0, <2>2, <2>3, ReturnLeavesCash
  <2>6. sale[s].payRows <= sale[s].payRows
    BY <2>2
  <2> QED
    BY <1>2, <2>1, <2>2, <2>4, <2>5, <2>6
<1>m. CASE CommitRemove(r)
  <2>1. /\ Finish(r, "remove")
        /\ sale' = [sale EXCEPT ![s] = Removed(s)]
    BY <1>m DEF CommitRemove
  <2>2. s \in Sales
    BY <1>1, <2>1 DEF Finish
  <2>3. Removed(s).status = "removed"
    BY DEF Removed, NoRow
  <2> QED
    BY <1>4, <2>1, <2>2, <2>3
<1>i. CASE InsertDraftItems(r)
  <2>1. /\ Finish(r, "createDraft") /\ Exists(s)
        /\ sale' = [sale EXCEPT ![s] = [sale[s] EXCEPT !.qty = sale[s].qty + q]]
    BY <1>i DEF InsertDraftItems
  <2>2. s \in Sales /\ sale[s] \in SaleRow /\ sale[s].payRows \in Nat
    BY <1>1, <2>1 DEF Finish
  <2> DEFINE n == sale[s].qty + q
             row == [sale[s] EXCEPT !.qty = n]
  <2>3. row.paid = sale[s].paid /\ row.payRows = sale[s].payRows
        /\ row.status = sale[s].status
    BY <2>2 DEF SaleRow
  <2>4. sale[s].paid <= sale[s].payRows /\ sale[s].status # "absent"
        /\ sale[s].payRows <= sale[s].payRows
    BY <2>1, <2>2 DEF NoPhantomCash, Exists
  <2>5. sale' = [sale EXCEPT ![s] = row]
    BY <2>1
  <2> HIDE DEF row
  <2> QED
    BY <1>2, <2>1, <2>2, <2>3, <2>4, <2>5
<1>e. CASE CreateDraft(r)
  <2>1. PICK x \in Sales, n \in Quantities, w \in BOOLEAN :
            /\ sale[x].status = "absent"
            /\ sale' = [sale EXCEPT ![x] = [NoRow EXCEPT !.status = "draft",
                            !.wh = w, !.total = Price * n, !.rem = Price * n]]
    BY <1>e DEF CreateDraft
  <2> DEFINE row == [NoRow EXCEPT !.status = "draft", !.wh = w,
                                  !.total = Price * n, !.rem = Price * n]
  <2>2. row.paid <= row.payRows
    BY DEF NoRow
  <2> QED
    BY <1>3, <2>1, <2>2
<1>b. CASE BeginCreate(r) \/ BeginAddPayment(r) \/ BeginCancel(r)
           \/ BeginRestore(r) \/ BeginReturn(r) \/ BeginCompleteDraft(r)
           \/ BeginRemove(r) \/ ReadReturns(r) \/ Abort(r)
  <2>1. UNCHANGED ledger
    BY <1>b DEF BeginCreate, BeginAddPayment, BeginCancel, BeginRestore,
         BeginReturn, BeginCompleteDraft, BeginRemove, ReadReturns, Abort, Accept
  <2> QED
    BY <1>5, <2>1 DEF ledger
<1> QED
  BY <1>c, <1>d, <1>a, <1>n, <1>t, <1>m, <1>i, <1>e, <1>b DEF Step

\* How a step moves a request: it is left alone, has nothing to do with paid
\* amounts, keeps what it read, or has just read a sale that is there.
RequestStep ==
    \A y \in Requests :
        \/ req'[y] = req[y]
        \/ req'[y].op \notin {"addPayment", "return"}
        \/ /\ req'[y].op = req[y].op
           /\ req'[y].sale = req[y].sale
           /\ req'[y].snap = req[y].snap
        \/ /\ req'[y].sale \in Sales
           /\ Exists(req'[y].sale)
           /\ req'[y].snap = sale[req'[y].sale]
           /\ sale' = sale

LEMMA RequestsMove ==
    ASSUME TypeOK, NEW r \in Requests, Step(r)
    PROVE  RequestStep
<1>0. Idle.op = "idle"
  BY DEF Idle
<1>1. ASSUME req' = [req EXCEPT ![r] = Idle] PROVE RequestStep
  BY <1>0, <1>1 DEF RequestStep, TypeOK
<1>2. ASSUME NEW op \in OpNames \ {"addPayment", "return"}, NEW s, NEW q, NEW a,
             NEW w, Accept(r, op, s, q, a, w)
      PROVE  RequestStep
  <2> DEFINE n == [op |-> op, step |-> IF op = "return" THEN "read" ELSE "write",
                   sale |-> s, snap |-> IF s = NoSale THEN NoRow ELSE sale[s],
                   qty |-> q, amount |-> a, wh |-> w, prior |-> 0, priorVal |-> 0]
  <2>1. req' = [req EXCEPT ![r] = n] /\ n.op = op
    BY <1>2 DEF Accept
  <2> HIDE DEF n
  <2> QED
    BY <1>2, <2>1 DEF RequestStep, TypeOK
<1>3. ASSUME NEW op, NEW s \in Sales, Exists(s), NEW q, NEW a, NEW w,
             Accept(r, op, s, q, a, w)
      PROVE  RequestStep
  <2> DEFINE n == [op |-> op, step |-> IF op = "return" THEN "read" ELSE "write",
                   sale |-> s, snap |-> IF s = NoSale THEN NoRow ELSE sale[s],
                   qty |-> q, amount |-> a, wh |-> w, prior |-> 0, priorVal |-> 0]
  <2>1. /\ req' = [req EXCEPT ![r] = n] /\ sale' = sale
        /\ n.sale = s /\ n.snap = sale[s]
    BY <1>3, SalesAssumption DEF Accept, ledger
  <2> HIDE DEF n
  <2> QED
    BY <1>3, <2>1 DEF RequestStep, TypeOK
<1>4. CASE CommitCreate(r) \/ CommitAddPayment(r) \/ CommitCancel(r)
           \/ CommitRestore(r) \/ CommitReturn(r) \/ CommitCompleteDraft(r)
           \/ CommitRemove(r) \/ InsertDraftItems(r) \/ Abort(r)
  <2>1. req' = [req EXCEPT ![r] = Idle]
    BY <1>4 DEF CommitCreate, CommitAddPayment, CommitCancel, CommitRestore,
         CommitReturn, CommitCompleteDraft, CommitRemove, InsertDraftItems, Abort, Finish
  <2> QED
    BY <1>1, <2>1
<1>5. CASE BeginCreate(r) \/ BeginCancel(r) \/ BeginRestore(r)
           \/ BeginCompleteDraft(r) \/ BeginRemove(r)
  <2>1. \E op \in {"create", "cancel", "restore", "completeDraft", "remove"} :
        \E s, q, a, w : Accept(r, op, s, q, a, w)
    BY <1>5 DEF BeginCreate, BeginCancel, BeginRestore, BeginCompleteDraft, BeginRemove
  <2> QED
    BY <1>2, <2>1 DEF OpNames
<1>6. CASE BeginAddPayment(r)
  <2>1. PICK s \in Sales : Exists(s) /\ \E a :
                 Accept(r, "addPayment", s, 0, a, FALSE)
    BY <1>6 DEF BeginAddPayment
  <2> QED
    BY <1>3, <2>1
<1>7. CASE BeginReturn(r)
  <2>1. PICK s \in Sales : sale[s].status \in Issued /\ \E q, a :
                 Accept(r, "return", s, q, a, FALSE)
    BY <1>7 DEF BeginReturn
  <2>2. Exists(s)
    BY <2>1 DEF Issued, Exists
  <2> QED
    BY <1>3, <2>1, <2>2
<1>8. CASE ReadReturns(r)
  <2> DEFINE v == sale[req[r].sale].returned
             u == sale[req[r].sale].retVal
             n == [req[r] EXCEPT !.step = "write", !.prior = v, !.priorVal = u]
  <2>1. req' = [req EXCEPT ![r] = n]
    BY <1>8 DEF ReadReturns
  <2>2. n.op = req[r].op /\ n.sale = req[r].sale /\ n.snap = req[r].snap
    BY DEF TypeOK, Request
  <2> HIDE DEF n
  <2> QED
    BY <2>1, <2>2 DEF RequestStep, TypeOK
<1>9. CASE CreateDraft(r)
  <2>1. PICK s \in Sales, q \in Quantities :
           req' = [req EXCEPT ![r] = [Idle EXCEPT !.op = "createDraft",
                                        !.step = "write", !.sale = s, !.qty = q]]
    BY <1>9 DEF CreateDraft
  <2> DEFINE n == [Idle EXCEPT !.op = "createDraft", !.step = "write",
                               !.sale = s, !.qty = q]
  <2>2. n.op = "createDraft"
    BY DEF Idle
  <2>3. req' = [req EXCEPT ![r] = n]
    BY <2>1
  <2> HIDE DEF n
  <2> QED
    BY <2>2, <2>3 DEF RequestStep, TypeOK
<1> QED
  BY <1>4, <1>5, <1>6, <1>7, <1>8, <1>9 DEF Step

LEMMA CashInductive ==
    ASSUME TypeOK, RequestsOK, NoPhantomCash, SnapshotsCovered, [Next]_vars
    PROVE  NoPhantomCash' /\ SnapshotsCovered'
<1>1. CASE \E r \in Requests : Step(r)
  <2>1. CashStep /\ RequestStep
    BY <1>1, CashMoves, RequestsMove
  <2>2. NoPhantomCash'
    BY <2>1 DEF CashStep, NoPhantomCash
  <2>3. ASSUME NEW y \in Requests, req'[y].op \in {"addPayment", "return"}
        PROVE  /\ sale'[req'[y].sale].status # "absent"
               /\ sale'[req'[y].sale].status # "removed" =>
                    req'[y].snap.paid <= sale'[req'[y].sale].payRows
    <3>1. CASE /\ req'[y].op = req[y].op
               /\ req'[y].sale = req[y].sale
               /\ req'[y].snap = req[y].snap
      <4> DEFINE s == req[y].sale
      <4>1. req[y].op \in {"addPayment", "return"}
        BY <2>3, <3>1
      <4>2. s \in Sales /\ sale[s].status # "absent"
        BY <4>1 DEF RequestsOK, SnapshotsCovered
      <4>3. Exists(s) => req[y].snap.paid <= sale[s].payRows
        BY <4>1 DEF SnapshotsCovered
      <4>4. req[y].snap.paid \in Nat
        BY DEF TypeOK, Request, SaleRow
      <4>5. TypeOK'
        BY TypesInductive
      <4>6. sale[s].payRows \in Nat /\ sale'[s].payRows \in Nat
        BY <4>2, <4>5 DEF TypeOK, SaleRow
      <4>7. /\ sale'[s].status # "absent"
            /\ sale'[s].status # "removed" =>
                 Exists(s) /\ sale[s].payRows <= sale'[s].payRows
        <5>1. ASSUME NEW u \in Sales, sale[u].status # "absent"
              PROVE  /\ sale'[u].status # "absent"
                     /\ sale'[u].status # "removed" =>
                          Exists(u) /\ sale[u].payRows <= sale'[u].payRows
          BY <2>1, <5>1 DEF CashStep, Exists
        <5> QED
          BY <4>2, <5>1
      <4>8. sale'[s].status # "removed" => req[y].snap.paid <= sale'[s].payRows
        <5>1. ASSUME sale'[s].status # "removed"
              PROVE  req[y].snap.paid <= sale[s].payRows
                     /\ sale[s].payRows <= sale'[s].payRows
          BY <5>1, <4>3, <4>7
        <5> QED
          BY <5>1, <4>4, <4>6
      <4> QED
        BY <3>1, <4>7, <4>8
    <3>2. CASE /\ req'[y].sale \in Sales
               /\ Exists(req'[y].sale)
               /\ req'[y].snap = sale[req'[y].sale]
               /\ sale' = sale
      BY <3>2 DEF NoPhantomCash, Exists
    <3> QED
      BY <2>1, <2>3, <3>1, <3>2 DEF RequestStep
  <2> QED
    BY <2>2, <2>3 DEF SnapshotsCovered, Exists
<1>2. CASE DeleteOldDrafts
  <2>1. PICK old \in SUBSET Sales :
            /\ sale' = [s \in Sales |-> IF s \in old THEN Removed(s) ELSE sale[s]]
            /\ req' = req
    BY <1>2 DEF DeleteOldDrafts
  <2>2. ASSUME NEW s \in Sales
        PROVE  sale'[s] = sale[s] \/ sale'[s].status = "removed"
    BY <2>1 DEF Removed, NoRow
  <2>3. NoPhantomCash'
    BY <2>2 DEF NoPhantomCash, Exists
  <2> QED
    BY <2>1, <2>2, <2>3 DEF SnapshotsCovered, RequestsOK, Exists
<1>3. CASE UNCHANGED vars
  BY <1>3 DEF vars, NoPhantomCash, SnapshotsCovered, Exists
<1> QED
  BY <1>1, <1>2, <1>3 DEF Next

\* An invoice never shows more money paid than its payments rows add up to,
\* although payments and returns write back amounts computed from a row that
\* other requests may have changed since: a lost update can hide a payment,
\* it cannot invent one.
THEOREM NoInventedCash == Spec => []NoPhantomCash
<1> DEFINE Inv == TypeOK /\ RequestsOK /\ NoPhantomCash /\ SnapshotsCovered
<1>1. Init => Inv
  <2> SUFFICES ASSUME Init PROVE NoPhantomCash /\ SnapshotsCovered
    BY TypesInductive
  <2>1. /\ \A s \in Sales : ~Exists(s)
        /\ \A r \in Requests : req[r].op = "idle"
    BY DEF Init, NoRow, Idle, Exists
  <2> QED
    BY <2>1 DEF NoPhantomCash, SnapshotsCovered
<1>2. Inv /\ [Next]_vars => Inv'
  BY TypesInductive, CashInductive
<1>3. Inv => NoPhantomCash
  OBVIOUS
<1> QED
  BY <1>1, <1>2, <1>3, PTL DEF Spec

-----------------------------------------------------------------------------
(* One request at a time *)

\* The next request is read only when the last one has answered.  What
\* follows fails without it: two handlers that have read the same invoice
\* overwrite each other's amounts.
OneRequest == \A r, s \in Requests : r = s

\* A row whose debt the customer's account still tracks.
Invoiced(row) ==
    /\ row.status # "removed"
    /\ row.number = 0 => row.status \in {"absent", "draft"}

Owed(row) == IF row.status \in Issued THEN row.rem ELSE 0

\* A row, with the goods m moved under it, that adds up.
RowFits(row, m) ==
    /\ row.returned <= row.qty
    /\ row.status = "absent" => row = NoRow /\ m = 0
    /\ row.status = "draft" =>
         /\ row.number = 0 /\ row.paid = 0 /\ row.payRows = 0 /\ row.refunds = 0
         /\ row.returned = 0 /\ row.retVal = 0 /\ m = 0
    /\ row.status \notin {"absent", "removed"} =>
         /\ row.paid + row.rem = row.total - row.retVal
         /\ row.paid = row.payRows - row.refunds
    /\ row.number # 0 =>
         /\ row.wh = TRUE \/ row.status = "removed"
         /\ row.status \in Issued => m = row.returned - row.qty
         /\ row.status = "cancelled" => m = row.returned

Rows == \A s \in Sales : RowFits(sale[s], moved[s])

\* What the request in flight has read is still so: in between only the
\* nightly job that deletes old drafts can have touched the invoice.
Unread(t) ==
    /\ t.op \in OpNames \ {"create", "createDraft"} =>
         \/ sale[t.sale] = t.snap /\ t.snap.status \notin {"absent", "removed"}
         \/ t.snap.status = "draft" /\ sale[t.sale].status = "removed"
    /\ t.op = "createDraft" => sale[t.sale].status \in {"draft", "removed"}
    /\ t.op \in {"addPayment", "cancel"} => t.snap.status # "cancelled"
    /\ t.op = "addPayment" => t.amount <= t.snap.rem
    /\ t.op = "restore" => t.snap.status = "cancelled"
    /\ t.op = "completeDraft" => t.snap.status = "draft"
    /\ t.op = "return" => t.snap.status \in Issued
    /\ t.op = "return" /\ t.step = "write" =>
         ReturnAccepted(t) /\ t.prior = t.snap.returned /\ t.priorVal = t.snap.retVal

Undisturbed == \A r \in Requests : Unread(req[r])

\* The new row adds up, and while the account tracks it, it owes d more than
\* the row it replaces.
Follows(row, m, new, n, d) ==
    /\ RowFits(new, n)
    /\ Invoiced(new) => Invoiced(row) /\ Owed(new) = Owed(row) + d

\* An invoice is issued, at once or from a draft.
LEMMA IssueFits ==
    ASSUME NEW row \in SaleRow, NEW m \in Int, RowFits(row, m),
           row.status \in {"absent", "draft"},
           nextValue \in Nat \ {0},
           NEW q \in Nat, NEW p \in Nat, p <= Price * q
    PROVE  Follows(row, m, Issue(row, q, p), m - q, Price * q - p)
<1> DEFINE new == Issue(row, q, p)
           tot == Price * q
<1>1. /\ new.status \in Issued /\ new.number = nextValue /\ new.wh = TRUE
      /\ new.qty = q /\ new.total = tot /\ new.paid = p /\ new.rem = tot - p
      /\ new.payRows = row.payRows + p /\ new.refunds = row.refunds
      /\ new.returned = row.returned /\ new.retVal = row.retVal
  BY PaidStatusType DEF Issue, SaleRow
<1>2. /\ row.payRows = 0 /\ row.refunds = 0 /\ row.returned = 0 /\ row.retVal = 0
      /\ m = 0 /\ row.number = 0
  BY DEF RowFits, NoRow
<1>3. tot \in Nat
  BY NetPrice
<1> HIDE DEF new, tot
<1>4. RowFits(new, m - q)
  BY <1>1, <1>2, <1>3 DEF RowFits, Issued
<1>5. Owed(new) = Owed(row) + (tot - p)
  BY <1>1, <1>3 DEF Owed, Issued
<1>6. Invoiced(row)
  BY <1>2 DEF Invoiced
<1> QED
  BY <1>4, <1>5, <1>6 DEF Follows, new, tot

\* A payment of no more than remains is booked.
LEMMA PaidFits ==
    ASSUME NEW row \in SaleRow, NEW m \in Int, RowFits(row, m),
           row.status \notin {"absent", "removed", "cancelled"},
           NEW a \in Nat, a <= row.rem
    PROVE  Follows(row, m, Paid(row, row, a), m, -a)
<1> DEFINE new == Paid(row, row, a)
<1>0. /\ row.rem \in Nat /\ row.paid \in Nat /\ row.payRows \in Nat
      /\ row.refunds \in Nat /\ row.total \in Nat /\ row.retVal \in Nat
      /\ row.status \in Statuses
  BY DEF SaleRow
<1>1. AtLeastZero(row.rem - a) = row.rem - a
  BY <1>0 DEF AtLeastZero
<1>2. /\ new.status \in Issued /\ new.number = row.number /\ new.wh = row.wh
      /\ new.qty = row.qty /\ new.total = row.total /\ new.paid = row.paid + a
      /\ new.rem = row.rem - a
      /\ new.payRows = row.payRows + a /\ new.refunds = row.refunds
      /\ new.returned = row.returned /\ new.retVal = row.retVal
  BY <1>1, PaidStatusType DEF Paid, SaleRow
<1>3. row.number # 0 => row.status \in Issued
  BY <1>0 DEF RowFits, Statuses
<1> HIDE DEF new
<1>4. RowFits(new, m)
  BY <1>0, <1>2, <1>3 DEF RowFits, Issued
<1>5. Invoiced(new) => row.number # 0
  BY <1>2 DEF Invoiced, Issued
<1>6. row.number # 0 => Invoiced(row) /\ Owed(new) = Owed(row) + (-a)
  BY <1>0, <1>2, <1>3 DEF Owed, Invoiced, Issued
<1> QED
  BY <1>4, <1>5, <1>6 DEF Follows, new

\* An invoice is cancelled: its goods come back.
LEMMA CancelFits ==
    ASSUME NEW row \in SaleRow, NEW m \in Int, RowFits(row, m),
           row.status \notin {"absent", "removed", "cancelled"}
    PROVE  Follows(row, m, [row EXCEPT !.status = "cancelled"],
                   m + (IF row.wh THEN row.qty ELSE 0), -row.rem)
<1> DEFINE new == [row EXCEPT !.status = "cancelled"]
           back == IF row.wh THEN row.qty ELSE 0
<1>0. /\ row.rem \in Nat /\ row.qty \in Nat /\ row.returned \in Nat
      /\ row.status \in Statuses /\ row.wh \in BOOLEAN /\ back \in Nat
  BY DEF SaleRow
<1>1. /\ new.status = "cancelled" /\ new.number = row.number /\ new.wh = row.wh
      /\ new.qty = row.qty /\ new.total = row.total /\ new.paid = row.paid
      /\ new.rem = row.rem /\ new.payRows = row.payRows
      /\ new.refunds = row.refunds
      /\ new.returned = row.returned /\ new.retVal = row.retVal
  BY DEF SaleRow
<1>2. row.number # 0 => row.status \in Issued /\ row.wh = TRUE
  BY <1>0 DEF RowFits, Statuses
<1>3. row.number # 0 => back = row.qty
  BY <1>2
<1> HIDE DEF new, back
<1>4. RowFits(new, m + back)
  BY <1>0, <1>1, <1>2, <1>3 DEF RowFits, Issued
<1>5. Invoiced(new) => row.number # 0
  BY <1>1 DEF Invoiced
<1>6. row.number # 0 => Invoiced(row) /\ Owed(new) = Owed(row) + (-row.rem)
  BY <1>0, <1>1, <1>2 DEF Owed, Invoiced, Issued
<1> QED
  BY <1>4, <1>5, <1>6 DEF Follows, new, back

\* A cancelled invoice is back in force: its goods leave again.
LEMMA RestoreFits ==
    ASSUME NEW row \in SaleRow, NEW m \in Int, RowFits(row, m),
           row.status = "cancelled"
    PROVE  Follows(row, m, [row EXCEPT !.status = PaidStatus(row.rem)],
                   m - (IF row.wh THEN row.qty ELSE 0), row.rem)
<1> DEFINE new == [row EXCEPT !.status = PaidStatus(row.rem)]
           back == IF row.wh THEN row.qty ELSE 0
<1>0. /\ row.rem \in Nat /\ row.qty \in Nat /\ row.returned \in Nat
      /\ row.status \in Statuses /\ row.wh \in BOOLEAN /\ back \in Nat
  BY DEF SaleRow
<1>1. /\ new.status \in Issued /\ new.number = row.number /\ new.wh = row.wh
      /\ new.qty = row.qty /\ new.total = row.total /\ new.paid = row.paid
      /\ new.rem = row.rem /\ new.payRows = row.payRows
      /\ new.refunds = row.refunds
      /\ new.returned = row.returned /\ new.retVal = row.retVal
  BY PaidStatusType DEF SaleRow
<1>2. row.number # 0 => row.wh = TRUE
  BY <1>0 DEF RowFits
<1>3. row.number # 0 => back = row.qty
  BY <1>2
<1> HIDE DEF new, back
<1>4. RowFits(new, m - back)
  BY <1>0, <1>1, <1>2, <1>3 DEF RowFits, Issued
<1>5. Invoiced(new) => row.number # 0
  BY <1>1 DEF Invoiced, Issued
<1>6. row.number # 0 => Invoiced(row) /\ Owed(new) = Owed(row) + row.rem
  BY <1>0, <1>1, <1>2 DEF Owed, Invoiced, Issued
<1> QED
  BY <1>4, <1>5, <1>6 DEF Follows, new, back

\* The items of a draft are inserted.
LEMMA ItemsFit ==
    ASSUME NEW row \in SaleRow, NEW m \in Int, RowFits(row, m),
           row.status = "draft", NEW q \in Nat
    PROVE  Follows(row, m, [row EXCEPT !.qty = row.qty + q], m, 0)
<1> DEFINE new == [row EXCEPT !.qty = row.qty + q]
<1>1. /\ new.status = "draft" /\ new.number = row.number
      /\ new.qty = row.qty + q /\ new.total = row.total /\ new.paid = row.paid
      /\ new.rem = row.rem /\ new.payRows = row.payRows
      /\ new.refunds = row.refunds
      /\ new.returned = row.returned /\ new.retVal = row.retVal
      /\ row.qty \in Nat
  BY DEF SaleRow
<1> HIDE DEF new
<1>2. RowFits(new, m)
  BY <1>1 DEF RowFits, Issued
<1>3. Invoiced(row) /\ Owed(new) = Owed(row) + 0
  BY <1>1 DEF Invoiced, Owed, Issued, RowFits
<1> QED
  BY <1>2, <1>3 DEF Follows, new

\* A draft is inserted.
LEMMA DraftFits ==
    ASSUME NEW w \in BOOLEAN, NEW tot \in Nat
    PROVE  Follows(NoRow, 0, [NoRow EXCEPT !.status = "draft", !.wh = w,
                                           !.total = tot, !.rem = tot], 0, 0)
BY DEF Follows, RowFits, Invoiced, Owed, NoRow, Issued

\* A deleted row owes nothing and is tracked no more.
LEMMA RemovedFits ==
    ASSUME NEW s, NEW m
    PROVE  RowFits(Removed(s), m) /\ ~Invoiced(Removed(s))
BY DEF Removed, NoRow, RowFits, Invoiced, Issued

\* The amounts of a return, read without anything in between: no more is
\* written off than remains, and no more paid back than was paid.
LEMMA RefundFits ==
    ASSUME NEW t \in Request,
           t.priorVal = t.snap.retVal,
           t.snap.paid + t.snap.rem = t.snap.total - t.snap.retVal
    PROVE  RefundAmount(t) <= t.snap.paid
<1> DEFINE v == ReturnedValue(t)
           paid == t.snap.paid
           rem == t.snap.rem
           kept == Lesser(t.amount, Lesser(v, paid))
           u == v - kept
<1>0. /\ paid \in Nat /\ rem \in Nat /\ t.amount \in Nat /\ t.qty \in Nat
      /\ t.snap.total \in Nat /\ t.snap.retVal \in Nat
  BY DEF Request, SaleRow
<1>1. v \in Nat
  BY ReturnAmounts
<1>2. AtLeastZero(t.snap.total - t.priorVal) = paid + rem
  BY <1>0 DEF AtLeastZero
<1>3. v <= paid + rem
  <2> DEFINE worth == Price * t.qty
             left == AtLeastZero(t.snap.total - t.priorVal)
  <2>1. worth \in Nat /\ left \in Nat
    BY <1>0, <1>2, NetPrice
  <2>2. v = Lesser(worth, left)
    BY DEF ReturnedValue
  <2>3. Lesser(worth, left) <= left
    BY <2>1, LesserNat
  <2> QED
    BY <1>2, <2>2, <2>3
<1>4. kept \in Nat /\ kept <= paid
  <2>1. Lesser(v, paid) \in Nat /\ Lesser(v, paid) <= paid
    BY <1>0, <1>1, LesserNat
  <2>2. kept \in Nat /\ kept <= Lesser(v, paid)
    BY <1>0, <2>1, LesserNat
  <2> QED
    BY <1>0, <2>1, <2>2
<1>5. RefundAmount(t) = v - Lesser(u, rem)
  BY DEF RefundAmount, DebtReduction, Unrefunded
<1> HIDE DEF v, paid, rem, kept
<1>6. Lesser(u, rem) = u \/ Lesser(u, rem) = rem
  BY DEF Lesser
<1>7. CASE Lesser(u, rem) = u
  BY <1>0, <1>1, <1>4, <1>5, <1>7 DEF paid
<1>8. CASE Lesser(u, rem) = rem
  BY <1>0, <1>1, <1>3, <1>5, <1>8 DEF paid
<1> QED
  BY <1>6, <1>7, <1>8

\* Goods come back, and with them what was paid for them or the debt.
LEMMA ReturnFits ==
    ASSUME NEW t \in Request, NEW m \in Int, RowFits(t.snap, m),
           t.snap.status \in Issued,
           ReturnAccepted(t), t.prior = t.snap.returned, t.priorVal = t.snap.retVal
    PROVE  Follows(t.snap, m, Returned(t.snap, t),
                   m + (IF t.snap.wh THEN t.qty ELSE 0), -DebtReduction(t))
<1> DEFINE row == t.snap
           new == Returned(row, t)
           back == IF row.wh THEN t.qty ELSE 0
           v == ReturnedValue(t)
           f == RefundAmount(t)
           d == DebtReduction(t)
<1>0. /\ row \in SaleRow /\ t.qty \in Nat
      /\ row.rem \in Nat /\ row.qty \in Nat /\ row.returned \in Nat
      /\ row.paid \in Nat /\ row.total \in Nat /\ row.retVal \in Nat
      /\ row.payRows \in Nat /\ row.refunds \in Nat
      /\ row.status \in Statuses /\ row.wh \in BOOLEAN /\ back \in Nat
  BY DEF Request, SaleRow
<1>1. /\ row.paid + row.rem = row.total - row.retVal
      /\ row.paid = row.payRows - row.refunds
      /\ row.number # 0 => row.wh = TRUE /\ m = row.returned - row.qty
  BY DEF RowFits, Issued
<1>2. /\ v \in Nat /\ f \in Nat /\ d \in Nat /\ f + d = v
      /\ d <= row.rem /\ f <= row.paid
  BY <1>1, ReturnAmounts, RefundFits
<1>3. t.qty <= row.qty - row.returned
  BY DEF ReturnAccepted
<1>4. row.number # 0 => back = t.qty
  BY <1>1
<1>5. /\ AtLeastZero(row.paid - f) = row.paid - f
      /\ AtLeastZero(row.rem - d) = row.rem - d
  <2> HIDE DEF row, f, d
  <2> QED
    BY <1>0, <1>2 DEF AtLeastZero
<1>6. /\ new.status \in Issued /\ new.number = row.number /\ new.wh = row.wh
      /\ new.qty = row.qty /\ new.total = row.total /\ new.paid = row.paid - f
      /\ new.rem = row.rem - d
      /\ new.payRows = row.payRows /\ new.refunds = row.refunds + f
      /\ new.returned = row.returned + t.qty /\ new.retVal = row.retVal + v
  BY <1>0, <1>5 DEF Returned, SaleRow, Issued
<1> HIDE DEF new, back, row, v, f, d
<1>7. RowFits(new, m + back)
  <2>1. new.returned <= new.qty
    BY <1>0, <1>3, <1>6
  <2>2. /\ new.paid + new.rem = new.total - new.retVal
        /\ new.paid = new.payRows - new.refunds
    BY <1>0, <1>1, <1>2, <1>6
  <2>3. ASSUME new.number # 0
        PROVE  new.wh = TRUE /\ m + back = new.returned - new.qty
    <3>1. /\ new.wh = TRUE /\ back = t.qty
          /\ m = row.returned - row.qty
      BY <1>1, <1>4, <1>6, <2>3
    <3> QED
      BY <1>0, <1>6, <3>1
  <2> QED
    BY <1>6, <2>1, <2>2, <2>3 DEF RowFits, Issued
<1>8. Invoiced(new) => row.number # 0
  BY <1>6 DEF Invoiced, Issued
<1>9. Invoiced(row) <=> row.number # 0
  BY DEF Invoiced, Issued, row
<1>10. Owed(new) = Owed(row) + (-d)
  BY <1>0, <1>2, <1>6 DEF Owed, row
<1> QED
  BY <1>7, <1>8, <1>9, <1>10 DEF Follows, new, back, row, d

\* A step leaves rows, log and account alone, or writes one row, that adds up
\* again, with its goods and its debt.
SerialStep ==
    \/ UNCHANGED <<sale, moved, debt>>
    \/ \E x \in Sales : \E row \in SaleRow, n \in Int, d \in Int :
         /\ sale' = [sale EXCEPT ![x] = row]
         /\ moved' = [moved EXCEPT ![x] = n]
         /\ Follows(sale[x], moved[x], row, n, d)
         /\ debt + d >= 0 => debt' = debt + d

LEMMA SerialMoves ==
    ASSUME TypeOK, RequestsOK, Rows, Undisturbed, NEW r \in Requests, Step(r)
    PROVE  SerialStep
<1> DEFINE s == req[r].sale
           t == req[r]
           q == req[r].qty
           a == req[r].amount
           due == Price * q - a
<1>0. /\ t \in Request /\ t.snap \in SaleRow /\ q \in Nat /\ a \in Nat
      /\ t.snap.rem \in Nat /\ t.snap.qty \in Nat /\ t.snap.wh \in BOOLEAN
      /\ debt \in Int /\ nextValue \in Nat \ {0}
  BY InFlight DEF TypeOK
<1>1. ASSUME NEW x \in Sales
      PROVE  sale[x] \in SaleRow /\ moved[x] \in Int /\ RowFits(sale[x], moved[x])
  BY DEF TypeOK, Rows
<1>2. ASSUME NEW x \in Sales, NEW row \in SaleRow, NEW n \in Int, NEW d \in Int,
             sale' = [sale EXCEPT ![x] = row], moved' = [moved EXCEPT ![x] = n],
             Follows(sale[x], moved[x], row, n, d),
             debt + d >= 0 => debt' = debt + d
      PROVE  SerialStep
  BY <1>2 DEF SerialStep
<1>3. ASSUME NEW x \in Sales, UNCHANGED moved
      PROVE  moved' = [moved EXCEPT ![x] = moved[x]]
  BY <1>3 DEF TypeOK
<1>4. ASSUME t.op \notin {"idle", "create"} PROVE s \in Sales
  BY <1>4 DEF RequestsOK
<1>5. ASSUME t.op \in {"create", "completeDraft"}
      PROVE  a <= Price * q /\ due \in Nat
  <2>1. Price * q \in Nat /\ a <= Price * q
    BY <1>0, <1>5, NetPrice DEF RequestsOK
  <2> QED
    BY <1>0, <2>1
<1>6. ASSUME t.op \in OpNames \ {"create", "createDraft"}, Exists(s)
      PROVE  sale[s] = t.snap
  BY <1>6 DEF Undisturbed, Unread, Exists
<1>7. ASSUME NEW b \in Nat, debt' = WriteOff(b)
      PROVE  debt + (-b) >= 0 => debt' = debt + (-b)
  <2>1. CASE b = 0
    BY <1>0, <1>7, <2>1 DEF WriteOff
  <2>2. CASE b # 0
    BY <1>0, <1>7, <2>2 DEF WriteOff, AtLeastZero
  <2> QED
    BY <2>1, <2>2
<1>c. CASE CommitCreate(r)
  <2>1. PICK x \in Sales :
            /\ sale[x].status = "absent" /\ Finish(r, "create")
            /\ sale' = [sale EXCEPT ![x] = Issue(NoRow, q, a)]
            /\ TakeStock(x, q) /\ debt' = debt + due
    BY <1>c DEF CommitCreate
  <2>2. sale[x] = NoRow /\ moved[x] = 0
    BY <1>1, <2>1 DEF RowFits
  <2>3. a <= Price * q /\ due \in Nat
    BY <1>5, <2>1 DEF Finish
  <2>4. Issue(sale[x], q, a) \in SaleRow
    BY <1>0, <1>1, <2>3, IssueRow
  <2>5. Follows(sale[x], moved[x], Issue(sale[x], q, a), moved[x] - q, due)
    BY <1>0, <1>1, <2>1, <2>3, IssueFits
  <2>6. moved' = [moved EXCEPT ![x] = moved[x] - q] /\ moved[x] - q \in Int
    BY <1>0, <1>1, <2>1 DEF TakeStock
  <2>7. sale' = [sale EXCEPT ![x] = Issue(sale[x], q, a)]
    BY <2>1, <2>2
  <2> HIDE DEF due
  <2>8. due \in Int /\ (debt + due >= 0 => debt' = debt + due)
    BY <2>1, <2>3
  <2> QED
    BY <1>2, <2>4, <2>5, <2>6, <2>7, <2>8
<1>d. CASE CommitCompleteDraft(r)
  <2>1. /\ Finish(r, "completeDraft") /\ Exists(s)
        /\ sale' = [sale EXCEPT ![s] = Issue(sale[s], q, a)]
        /\ TakeStock(s, q) /\ debt' = debt + due
    BY <1>d DEF CommitCompleteDraft
  <2>2. s \in Sales /\ a <= Price * q /\ due \in Nat
    BY <1>4, <1>5, <2>1 DEF Finish
  <2>3. sale[s] = t.snap /\ t.snap.status = "draft"
    BY <1>6, <2>1 DEF Finish, OpNames, Undisturbed, Unread
  <2>4. Issue(sale[s], q, a) \in SaleRow
    BY <1>0, <1>1, <2>2, IssueRow
  <2>5. Follows(sale[s], moved[s], Issue(sale[s], q, a), moved[s] - q, due)
    BY <1>0, <1>1, <2>2, <2>3, IssueFits
  <2>6. moved' = [moved EXCEPT ![s] = moved[s] - q] /\ moved[s] - q \in Int
    BY <1>0, <1>1, <2>1, <2>2 DEF TakeStock
  <2> HIDE DEF due
  <2>7. due \in Int /\ (debt + due >= 0 => debt' = debt + due)
    BY <2>1, <2>2
  <2> QED
    BY <1>2, <2>1, <2>2, <2>4, <2>5, <2>6, <2>7
<1>a. CASE CommitAddPayment(r)
  <2>1. /\ Finish(r, "addPayment") /\ Exists(s)
        /\ sale' = [sale EXCEPT ![s] = Paid(sale[s], t.snap, a)]
        /\ debt' = debt - a /\ UNCHANGED moved
    BY <1>a DEF CommitAddPayment
  <2>2. s \in Sales /\ sale[s] = t.snap
    BY <1>4, <1>6, <2>1 DEF Finish, OpNames
  <2>3. /\ t.snap.status \notin {"absent", "removed", "cancelled"}
        /\ a <= t.snap.rem
    BY <2>1, <2>2 DEF Finish, Exists, Undisturbed, Unread
  <2>4. Paid(sale[s], sale[s], a) \in SaleRow
    BY <1>0, <1>1, <2>2, PaidRow
  <2>5. Follows(sale[s], moved[s], Paid(sale[s], sale[s], a), moved[s], -a)
    BY <1>0, <1>1, <2>2, <2>3, PaidFits
  <2>6. -a \in Int /\ debt - a = debt + (-a)
    BY <1>0
  <2> QED
    BY <1>1, <1>2, <1>3, <2>1, <2>2, <2>4, <2>5, <2>6
<1>n. CASE CommitCancel(r)
  <2> DEFINE back == IF t.snap.wh THEN t.snap.qty ELSE 0
             owed == t.snap.rem
  <2>1. /\ Finish(r, "cancel")
        /\ moved' = [moved EXCEPT ![s] = moved[s] + back]
        /\ debt' = WriteOff(owed)
        /\ sale' = IF Exists(s)
                     THEN [sale EXCEPT ![s] = [sale[s] EXCEPT !.status = "cancelled"]]
                     ELSE sale
    BY <1>n DEF CommitCancel, PutStock
  <2>2. s \in Sales /\ owed \in Nat /\ -owed \in Int /\ back \in Nat
    BY <1>0, <1>4, <2>1 DEF Finish
  <2>3. debt + (-owed) >= 0 => debt' = debt + (-owed)
    BY <1>7, <2>1, <2>2
  <2>4. CASE Exists(s)
    <3>1. sale[s] = t.snap /\ t.snap.status \notin {"absent", "removed", "cancelled"}
      BY <1>6, <2>1, <2>4 DEF Finish, OpNames, Exists, Undisturbed, Unread
    <3>2. [sale[s] EXCEPT !.status = "cancelled"] \in SaleRow
      BY <1>1, <2>2, StatusRow DEF Statuses
    <3>3. Follows(sale[s], moved[s], [sale[s] EXCEPT !.status = "cancelled"],
                  moved[s] + back, -owed)
      BY <1>1, <2>2, <3>1, CancelFits
    <3>4. moved[s] + back \in Int
      BY <1>1, <2>2
    <3> HIDE DEF back, owed
    <3> QED
      BY <1>2, <2>1, <2>2, <2>3, <2>4, <3>2, <3>3, <3>4
  <2>5. CASE ~Exists(s)
    <3>1. sale[s].status = "removed"
      BY <2>1, <2>5 DEF Finish, OpNames, Exists, Undisturbed, Unread
    <3>2. Follows(sale[s], moved[s], sale[s], moved[s] + back, -owed)
      BY <1>1, <2>2, <3>1 DEF Follows, RowFits, Invoiced, Issued
    <3>3. sale' = [sale EXCEPT ![s] = sale[s]]
      BY <2>1, <2>5 DEF TypeOK
    <3>4. moved[s] + back \in Int
      BY <1>1, <2>2
    <3> HIDE DEF back, owed
    <3> QED
      BY <1>1, <1>2, <2>1, <2>2, <2>3, <3>2, <3>3, <3>4
  <2> QED
    BY <2>4, <2>5
<1>o. CASE CommitRestore(r)
  <2> DEFINE back == IF t.snap.wh THEN t.snap.qty ELSE 0
             owed == t.snap.rem
  <2>1. /\ Finish(r, "restore")
        /\ moved' = [moved EXCEPT ![s] = moved[s] - back]
        /\ debt' = debt + owed
        /\ Exists(s) => sale' = [sale EXCEPT ![s] =
                                   [sale[s] EXCEPT !.status = PaidStatus(owed)]]
    BY <1>o DEF CommitRestore, TakeStock
  <2>2. s \in Sales /\ owed \in Nat /\ back \in Nat
    BY <1>0, <1>4, <2>1 DEF Finish
  <2>3. sale[s] = t.snap /\ t.snap.status = "cancelled"
    BY <2>1 DEF Finish, OpNames, Undisturbed, Unread
  <2>4. Exists(s)
    BY <2>3 DEF Exists
  <2>5. [sale[s] EXCEPT !.status = PaidStatus(owed)] \in SaleRow
    BY <1>1, <2>2, StatusRow, PaidStatusType DEF Statuses
  <2>6. Follows(sale[s], moved[s], [sale[s] EXCEPT !.status = PaidStatus(owed)],
                moved[s] - back, owed)
    BY <1>1, <2>2, <2>3, RestoreFits
  <2>7. moved[s] - back \in Int
    BY <1>1, <2>2
  <2> HIDE DEF back, owed
  <2>8. owed \in Int /\ (debt + owed >= 0 => debt' = debt + owed)
    BY <2>1, <2>2
  <2> QED
    BY <1>2, <2>1, <2>2, <2>4, <2>5, <2>6, <2>7, <2>8
<1>t. CASE CommitReturn(r)
  <2> DEFINE back == IF t.snap.wh THEN t.qty ELSE 0
             off == DebtReduction(t)
  <2>1. /\ Finish(r, "return") /\ Exists(s)
        /\ moved' = [moved EXCEPT ![s] = moved[s] + back]
        /\ debt' = WriteOff(off)
        /\ sale' = [sale EXCEPT ![s] = Returned(sale[s], t)]
    BY <1>t DEF CommitReturn, PutStock
  <2>2. s \in Sales /\ off \in Nat /\ -off \in Int /\ back \in Nat
    BY <1>0, <1>4, <2>1, ReturnAmounts DEF Finish
  <2>3. /\ sale[s] = t.snap /\ t.snap.status \in Issued
        /\ ReturnAccepted(t) /\ t.prior = t.snap.returned
        /\ t.priorVal = t.snap.retVal
    BY <1>6, <2>1 DEF Finish, OpNames, Undisturbed, Unread
  <2>4. Returned(sale[s], t) \in SaleRow
    BY <1>0, <1>1, <2>2, ReturnedRow
  <2>5. Follows(sale[s], moved[s], Returned(sale[s], t), moved[s] + back, -off)
    BY <1>0, <1>1, <2>2, <2>3, ReturnFits
  <2>6. moved[s] + back \in Int
    BY <1>1, <2>2
  <2>7. debt + (-off) >= 0 => debt' = debt + (-off)
    BY <1>7, <2>1, <2>2
  <2> HIDE DEF back, off
  <2> QED
    BY <1>2, <2>1, <2>2, <2>4, <2>5, <2>6, <2>7
<1>m. CASE CommitRemove(r)
  <2>1. /\ Finish(r, "remove")
        /\ sale' = [sale EXCEPT ![s] = Removed(s)] /\ UNCHANGED <<moved, debt>>
    BY <1>m DEF CommitRemove
  <2>2. s \in Sales
    BY <1>4, <2>1 DEF Finish
  <2>3. Removed(s) \in SaleRow
    BY <2>2, RemovedRow
  <2>4. Follows(sale[s], moved[s], Removed(s), moved[s], 0)
    BY RemovedFits DEF Follows
  <2>5. 0 \in Int /\ (debt + 0 >= 0 => debt' = debt + 0)
    BY <1>0, <2>1
  <2>6. moved' = [moved EXCEPT ![s] = moved[s]] /\ moved[s] \in Int
    BY <1>1, <1>3, <2>1, <2>2
  <2> QED
    BY <1>2, <2>1, <2>2, <2>3, <2>4, <2>5, <2>6
<1>i. CASE InsertDraftItems(r)
  <2> DEFINE row == [sale[s] EXCEPT !.qty = sale[s].qty + q]
  <2>1. /\ Finish(r, "createDraft") /\ Exists(s)
        /\ sale' = [sale EXCEPT ![s] = row] /\ UNCHANGED <<moved, debt>>
    BY <1>i DEF InsertDraftItems
  <2>2. s \in Sales /\ sale[s].qty + q \in Nat
    BY <1>0, <1>4, <2>1 DEF Finish, TypeOK, SaleRow
  <2>3. sale[s].status = "draft"
    BY <2>1 DEF Finish, Exists, Undisturbed, Unread
  <2>4. row \in SaleRow
    BY <1>1, <2>2, QtyRow
  <2>5. Follows(sale[s], moved[s], row, moved[s], 0)
    BY <1>0, <1>1, <2>2, <2>3, ItemsFit
  <2>6. 0 \in Int /\ (debt + 0 >= 0 => debt' = debt + 0)
    BY <1>0, <2>1
  <2>7. moved' = [moved EXCEPT ![s] = moved[s]] /\ moved[s] \in Int
    BY <1>1, <1>3, <2>1, <2>2
  <2> HIDE DEF row
  <2> QED
    BY <1>2, <2>1, <2>2, <2>4, <2>5, <2>6, <2>7
<1>e. CASE CreateDraft(r)
  <2>1. PICK x \in Sales, n \in Quantities, w \in BOOLEAN :
            /\ sale[x].status = "absent"
            /\ sale' = [sale EXCEPT ![x] = [NoRow EXCEPT !.status = "draft",
                            !.wh = w, !.total = Price * n, !.rem = Price * n]]
            /\ UNCHANGED <<moved, debt>>
    BY <1>e DEF CreateDraft
  <2> DEFINE tot == Price * n
             row == [NoRow EXCEPT !.status = "draft", !.wh = w, !.total = tot,
                                  !.rem = tot]
  <2>2. tot \in Nat
    BY SalesAssumption, NetPrice
  <2>3. sale[x] = NoRow /\ moved[x] = 0
    BY <1>1, <2>1 DEF RowFits
  <2>4. row \in SaleRow /\ Follows(sale[x], moved[x], row, moved[x], 0)
    <3> HIDE DEF tot
    <3> QED
      BY <2>2, <2>3, DraftRow, DraftFits
  <2>5. 0 \in Int /\ (debt + 0 >= 0 => debt' = debt + 0)
    BY <1>0, <2>1
  <2>6. sale' = [sale EXCEPT ![x] = row]
    BY <2>1
  <2>7. moved' = [moved EXCEPT ![x] = moved[x]] /\ moved[x] \in Int
    BY <1>1, <1>3, <2>1
  <2> HIDE DEF row
  <2> QED
    BY <1>2, <2>4, <2>5, <2>6, <2>7
<1>b. CASE BeginCreate(r) \/ BeginAddPayment(r) \/ BeginCancel(r)
           \/ BeginRestore(r) \/ BeginReturn(r) \/ BeginCompleteDraft(r)
           \/ BeginRemove(r) \/ ReadReturns(r) \/ Abort(r)
  <2>1. UNCHANGED ledger
    BY <1>b DEF BeginCreate, BeginAddPayment, BeginCancel, BeginRestore,
         BeginReturn, BeginCompleteDraft, BeginRemove, ReadReturns, Abort, Accept
  <2> QED
    BY <2>1 DEF ledger, SerialStep
<1> QED
  BY <1>c, <1>d, <1>a, <1>n, <1>o, <1>t, <1>m, <1>i, <1>e, <1>b DEF Step

LEMMA RowsStep ==
    ASSUME TypeOK, Rows, SerialStep
    PROVE  Rows'
<1>1. CASE UNCHANGED <<sale, moved, debt>>
  BY <1>1 DEF Rows, RowFits
<1>2. ASSUME NEW x \in Sales, NEW row, NEW n,
             sale' = [sale EXCEPT ![x] = row], moved' = [moved EXCEPT ![x] = n],
             RowFits(row, n)
      PROVE  Rows'
  <2>1. ASSUME NEW s \in Sales
        PROVE  \/ sale'[s] = row /\ moved'[s] = n
               \/ sale'[s] = sale[s] /\ moved'[s] = moved[s]
    BY <1>2 DEF TypeOK
  <2>2. ASSUME NEW s \in Sales PROVE RowFits(sale[s], moved[s])'
    <3>1. CASE sale'[s] = row /\ moved'[s] = n
      BY <1>2, <3>1 DEF RowFits
    <3>2. CASE sale'[s] = sale[s] /\ moved'[s] = moved[s]
      BY <3>2 DEF Rows, RowFits
    <3> QED
      BY <2>1, <3>1, <3>2
  <2> QED
    BY <2>2 DEF Rows
<1> QED
  BY <1>1, <1>2 DEF SerialStep, Follows

\* The nightly job leaves the other rows alone and what it deletes was a draft.
LEMMA DraftsDeleted ==
    ASSUME TypeOK, DeleteOldDrafts
    PROVE  /\ UNCHANGED <<moved, debt, req>>
           /\ \A s \in Sales : \/ sale'[s] = sale[s]
                               \/ sale[s].status = "draft" /\ sale'[s] = Removed(s)
           /\ \E s \in Sales : sale'[s] = Removed(s)
<1>1. PICK old \in SUBSET {s \in Sales : sale[s].status = "draft"} :
          /\ old # {}
          /\ sale' = [s \in Sales |-> IF s \in old THEN Removed(s) ELSE sale[s]]
  BY DEF DeleteOldDrafts
<1> QED
  BY <1>1 DEF DeleteOldDrafts

LEMMA RowsInductive ==
    ASSUME TypeOK, RequestsOK, Rows, Undisturbed, [Next]_vars
    PROVE  Rows'
<1>1. CASE \E r \in Requests : Step(r)
  BY <1>1, SerialMoves, RowsStep
<1>2. CASE DeleteOldDrafts
  <2>1. ASSUME NEW s \in Sales PROVE RowFits(sale[s], moved[s])'
    <3>1. CASE sale'[s] = sale[s]
      BY <1>2, <3>1, DraftsDeleted DEF Rows, RowFits
    <3>2. CASE sale'[s] = Removed(s)
      BY <3>2, RemovedFits DEF RowFits
    <3> QED
      BY <1>2, <3>1, <3>2, DraftsDeleted
  <2> QED
    BY <2>1 DEF Rows
<1>3. CASE UNCHANGED vars
  BY <1>3 DEF vars, Rows, RowFits
<1> QED
  BY <1>1, <1>2, <1>3 DEF Next

\* With one request at a time nothing but the nightly job comes between what
\* a request reads and what it writes.
LEMMA UndisturbedInductive ==
    ASSUME OneRequest, TypeOK, RequestsOK, Undisturbed, [Next]_vars
    PROVE  Undisturbed'
<1>1. ASSUME NEW r \in Requests, Step(r) PROVE Undisturbed'
  <2>0. ASSUME Unread(req[r])' PROVE Undisturbed'
    BY <2>0 DEF Undisturbed, OneRequest
  <2>1. ASSUME req' = [req EXCEPT ![r] = Idle] PROVE Undisturbed'
    <3>1. req'[r] = Idle /\ Idle.op = "idle"
      BY <2>1 DEF TypeOK, Idle
    <3>2. Unread(req[r])'
      BY <3>1 DEF Unread, OpNames
    <3> QED
      BY <2>0, <3>2
  <2>2. ASSUME NEW op \in OpNames \ {"create", "createDraft"}, NEW s \in Sales,
               NEW q, NEW a, NEW w, Accept(r, op, s, q, a, w), Exists(s),
               op \in {"addPayment", "cancel"} => sale[s].status # "cancelled",
               op = "addPayment" => a <= sale[s].rem,
               op = "restore" => sale[s].status = "cancelled",
               op = "completeDraft" => sale[s].status = "draft",
               op = "return" => sale[s].status \in Issued
        PROVE  Undisturbed'
    <3> DEFINE n == [op |-> op, step |-> IF op = "return" THEN "read" ELSE "write",
                     sale |-> s, snap |-> IF s = NoSale THEN NoRow ELSE sale[s],
                     qty |-> q, amount |-> a, wh |-> w, prior |-> 0, priorVal |-> 0]
    <3>1. /\ req' = [req EXCEPT ![r] = n] /\ sale' = sale
          /\ n.op = op /\ n.sale = s /\ n.snap = sale[s] /\ n.amount = a
          /\ op = "return" => n.step = "read"
      BY <2>2, SalesAssumption DEF Accept, ledger
    <3> HIDE DEF n
    <3>2. req'[r] = n
      BY <3>1 DEF TypeOK
    <3>3. Unread(req[r])'
      BY <2>2, <3>1, <3>2 DEF Unread, Exists
    <3> QED
      BY <2>0, <3>3
  <2>3. CASE CommitCreate(r) \/ CommitAddPayment(r) \/ CommitCancel(r)
             \/ CommitRestore(r) \/ CommitReturn(r) \/ CommitCompleteDraft(r)
             \/ CommitRemove(r) \/ InsertDraftItems(r) \/ Abort(r)
    <3>1. req' = [req EXCEPT ![r] = Idle]
      BY <2>3 DEF CommitCreate, CommitAddPayment, CommitCancel, CommitRestore,
           CommitReturn, CommitCompleteDraft, CommitRemove, InsertDraftItems, Abort, Finish
    <3> QED
      BY <2>1, <3>1
  <2>4. CASE BeginCreate(r)
    <3>1. PICK q, a : Accept(r, "create", NoSale, q, a, TRUE)
      BY <2>4 DEF BeginCreate
    <3>2. req'[r].op = "create"
      BY <3>1 DEF Accept, TypeOK
    <3>3. Unread(req[r])'
      BY <3>2 DEF Unread
    <3> QED
      BY <2>0, <3>3
  <2>5. CASE BeginAddPayment(r)
    <3>0. PICK s \in Sales : \E a \in 1..(sale[s].rem + Tolerance) :
              /\ Exists(s) /\ sale[s].status # "cancelled"
              /\ Accept(r, "addPayment", s, 0, Lesser(a, sale[s].rem), FALSE)
      BY <2>5 DEF BeginAddPayment
    <3>1. PICK a \in 1..(sale[s].rem + Tolerance) :
              /\ Exists(s) /\ sale[s].status # "cancelled"
              /\ Accept(r, "addPayment", s, 0, Lesser(a, sale[s].rem), FALSE)
      BY <3>0
    <3>2. sale[s].rem \in Nat /\ a \in Nat
      BY SalesAssumption DEF TypeOK, SaleRow
    <3>3. Lesser(a, sale[s].rem) <= sale[s].rem
      BY <3>2, LesserNat
    <3> QED
      BY <2>2, <3>1, <3>3 DEF OpNames
  <2>6. CASE BeginCancel(r) \/ BeginRestore(r) \/ BeginRemove(r)
    <3>1. PICK s \in Sales, op \in {"cancel", "restore", "remove"} :
              /\ Exists(s)
              /\ op = "cancel" => sale[s].status # "cancelled"
              /\ op = "restore" => sale[s].status = "cancelled"
              /\ Accept(r, op, s, 0, 0, FALSE)
      BY <2>6 DEF BeginCancel, BeginRestore, BeginRemove, Exists
    <3> QED
      BY <2>2, <3>1 DEF OpNames
  <2>7. CASE BeginReturn(r)
    <3>1. PICK s \in Sales : sale[s].status \in Issued /\ \E q, a :
                 Accept(r, "return", s, q, a, FALSE)
      BY <2>7 DEF BeginReturn
    <3>2. Exists(s)
      BY <3>1 DEF Issued, Exists
    <3> QED
      BY <2>2, <3>1, <3>2 DEF OpNames
  <2>8. CASE BeginCompleteDraft(r)
    <3>1. PICK s \in Sales : sale[s].status = "draft" /\ \E q, a :
                 Accept(r, "completeDraft", s, q, a, TRUE)
      BY <2>8 DEF BeginCompleteDraft
    <3>2. Exists(s)
      BY <3>1 DEF Exists
    <3> QED
      BY <2>2, <3>1, <3>2 DEF OpNames
  <2>9. CASE ReadReturns(r)
    <3> DEFINE v == sale[req[r].sale].returned
               u == sale[req[r].sale].retVal
               n == [req[r] EXCEPT !.step = "write", !.prior = v, !.priorVal = u]
    <3>1. /\ req' = [req EXCEPT ![r] = n] /\ req[r].op = "return"
          /\ ReturnAccepted(n) /\ sale' = sale
      BY <2>9 DEF ReadReturns, ledger
    <3>2. /\ n.op = req[r].op /\ n.sale = req[r].sale /\ n.snap = req[r].snap
          /\ n.prior = v /\ n.priorVal = u
      BY DEF TypeOK, Request
    <3>3. sale[req[r].sale] = req[r].snap /\ req[r].snap.status \in Issued
      BY <3>1 DEF Undisturbed, Unread, Issued, OpNames
    <3> HIDE DEF n
    <3>4. req'[r] = n
      BY <3>1 DEF TypeOK
    <3>5. Unread(req[r])'
      BY <3>1, <3>2, <3>3, <3>4 DEF Unread, Issued
    <3> QED
      BY <2>0, <3>5
  <2>10. CASE CreateDraft(r)
    <3>1. PICK s \in Sales, q \in Quantities, w \in BOOLEAN :
             /\ sale' = [sale EXCEPT ![s] = [NoRow EXCEPT !.status = "draft",
                            !.wh = w, !.total = Price * q, !.rem = Price * q]]
             /\ req' = [req EXCEPT ![r] = [Idle EXCEPT !.op = "createDraft",
                                        !.step = "write", !.sale = s, !.qty = q]]
      BY <2>10 DEF CreateDraft
    <3> DEFINE n == [Idle EXCEPT !.op = "createDraft", !.step = "write",
                                 !.sale = s, !.qty = q]
               row == [NoRow EXCEPT !.status = "draft", !.wh = w,
                                    !.total = Price * q, !.rem = Price * q]
    <3>2. n.op = "createDraft" /\ n.sale = s /\ row.status = "draft"
      BY DEF Idle, NoRow
    <3>3. req' = [req EXCEPT ![r] = n] /\ sale' = [sale EXCEPT ![s] = row]
      BY <3>1
    <3> HIDE DEF n, row
    <3>4. req'[r] = n /\ sale'[s] = row
      BY <3>3 DEF TypeOK
    <3>5. Unread(req[r])'
      BY <3>2, <3>4 DEF Unread
    <3> QED
      BY <2>0, <3>5
  <2> QED
    BY <1>1, <2>3, <2>4, <2>5, <2>6, <2>7, <2>8, <2>9, <2>10 DEF Step
<1>2. CASE DeleteOldDrafts
  <2>1. ASSUME NEW y \in Requests PROVE Unread(req[y])'
    <3> DEFINE t == req[y]
    <3>1. req'[y] = t
      BY <1>2, DraftsDeleted
    <3>2. ASSUME t.op \in OpNames \ {"create"}
          PROVE  \/ sale'[t.sale] = sale[t.sale]
                 \/ /\ sale[t.sale].status = "draft"
                    /\ sale'[t.sale].status = "removed"
      <4>1. t.sale \in Sales
        BY <3>2 DEF RequestsOK, OpNames
      <4>2. Removed(t.sale).status = "removed"
        BY DEF Removed, NoRow
      <4> QED
        BY <1>2, <4>1, <4>2, DraftsDeleted
    <3>3. Unread(t)
      BY DEF Undisturbed
    <3> HIDE DEF t
    <3> QED
      BY <3>1, <3>2, <3>3 DEF Unread, OpNames
  <2> QED
    BY <2>1 DEF Undisturbed
<1>3. CASE UNCHANGED vars
  BY <1>3 DEF vars, Undisturbed, Unread
<1> QED
  BY <1>1, <1>2, <1>3 DEF Next

\* The first state of the invariants of this part.
LEMMA SerialInit == Init => Rows /\ Undisturbed
<1> SUFFICES ASSUME Init PROVE Rows /\ Undisturbed
  OBVIOUS
<1>1. /\ \A s \in Sales : sale[s] = NoRow /\ moved[s] = 0
      /\ \A r \in Requests : req[r] = Idle
  BY DEF Init
<1>2. RowFits(NoRow, 0)
  BY DEF RowFits, NoRow, Issued
<1>3. Idle.op = "idle"
  BY DEF Idle
<1> QED
  BY <1>1, <1>2, <1>3 DEF Rows, Undisturbed, Unread, OpNames

\* As long as requests do not overlap, warehouse, movement log and invoices
\* agree on the goods that are out of the shop: what is returned was sold,
\* and what a numbered invoice has taken is what it still sells, whatever
\* sequence of sales, completions, cancellations, restores, returns,
\* deletions and failures has led there, on any number of invoices.
THEOREM GoodsAgreeInTurn == ASSUME OneRequest PROVE Spec => []GoodsAgree
<1> DEFINE Inv == TypeOK /\ RequestsOK /\ StockMatchesLog /\ Rows /\ Undisturbed
<1>1. Init => Inv
  BY TypesInductive, LogInit, SerialInit
<1>2. Inv /\ [Next]_vars => Inv'
  BY TypesInductive, LogStep, RowsInductive, UndisturbedInductive
<1>3. Inv => GoodsAgree
  <2> SUFFICES ASSUME Inv PROVE ReturnedWithinSold /\ StockReflectsSales
    BY DEF GoodsAgree
  <2>1. ASSUME NEW s \in Sales
        PROVE  /\ sale[s].returned <= sale[s].qty
               /\ sale[s].number # 0 =>
                    /\ sale[s].status \in Issued =>
                         moved[s] = sale[s].returned - sale[s].qty
                    /\ sale[s].status = "cancelled" => moved[s] = sale[s].returned
    BY DEF Rows, RowFits
  <2> QED
    BY <2>1 DEF ReturnedWithinSold, StockReflectsSales
<1> QED
  BY <1>1, <1>2, <1>3, PTL DEF Spec

\* What the invoices in force owe, as a sum over all rows.
OwedBy == [s \in Sales |-> Owed(sale[s])]

LEMMA DebtIsSum ==
    ASSUME TypeOK
    PROVE  /\ IssuedDebt = SumOver(OwedBy, Sales)
           /\ \A s \in Sales : OwedBy[s] \in Nat
<1> DEFINE left == [s \in Sales |-> sale[s].rem]
           inForce == {s \in Sales : sale[s].status \in Issued}
<1>1. ASSUME NEW s \in Sales
      PROVE  /\ left[s] \in Int /\ sale[s].rem \in Nat
             /\ OwedBy[s] = IF s \in inForce THEN left[s] ELSE 0
  BY DEF TypeOK, SaleRow, OwedBy, Owed
<1>2. IssuedDebt = SumOver(left, inForce)
  BY DEF IssuedDebt
<1>3. inForce \in SUBSET Sales /\ IsFiniteSet(Sales)
  BY SalesAssumption
<1>4. \A s \in Sales : OwedBy[s] \in Nat
  BY <1>1
<1> HIDE DEF left, inForce
<1>5. \A s \in Sales : left[s] \in Int /\ OwedBy[s] = IF s \in inForce THEN left[s] ELSE 0
  BY <1>1
<1> HIDE DEF OwedBy
<1>6. SumOver(left, inForce) = SumOver(OwedBy, Sales)
  BY <1>3, <1>5, SumPart
<1> QED
  BY <1>2, <1>4, <1>6

\* The account moves with the row that is written: as long as every row is
\* one it tracks, it is never asked to forgive more than is booked.
LEMMA DebtStep ==
    ASSUME TypeOK, TypeOK', DebtIsReceivable, SerialStep
    PROVE  DebtIsReceivable'
<1>1. CASE UNCHANGED <<sale, moved, debt>>
  BY <1>1 DEF DebtIsReceivable, OnlyInvoices, IssuedDebt
<1>2. ASSUME NEW x \in Sales, NEW row \in SaleRow, NEW d \in Int,
             sale' = [sale EXCEPT ![x] = row],
             Invoiced(row) => Invoiced(sale[x]) /\ Owed(row) = Owed(sale[x]) + d,
             debt + d >= 0 => debt' = debt + d,
             OnlyInvoices'
      PROVE  debt' = IssuedDebt'
  <2>1. /\ sale'[x] = row
        /\ \A s \in Sales \ {x} : sale'[s] = sale[s]
    BY <1>2, WrittenRow
  <2>2. Invoiced(row)
    BY <1>2, <2>1 DEF OnlyInvoices, Invoiced
  <2>3. OnlyInvoices
    BY <1>2, <2>1, <2>2 DEF OnlyInvoices, Invoiced
  <2>4. debt = SumOver(OwedBy, Sales) /\ \A s \in Sales : OwedBy[s] \in Nat
    BY <2>3, DebtIsSum DEF DebtIsReceivable
  <2>5. IssuedDebt' = SumOver(OwedBy', Sales) /\ \A s \in Sales : OwedBy'[s] \in Nat
    <3>1. TypeOK' => (IssuedDebt = SumOver(OwedBy, Sales)
                      /\ \A s \in Sales : OwedBy[s] \in Nat)'
      BY DebtIsSum, PTL
    <3> QED
      BY <3>1
  <2>6. /\ OwedBy[x] = Owed(sale[x]) /\ OwedBy'[x] = Owed(row)
        /\ \A s \in Sales : s # x => OwedBy[s] = OwedBy'[s]
    BY <2>1 DEF OwedBy, Owed
  <2>7. IsFiniteSet(Sales)
    BY SalesAssumption
  <2>8. SumOver(OwedBy', Sales) = SumOver(OwedBy, Sales) + OwedBy'[x] - OwedBy[x]
    <3> HIDE DEF OwedBy
    <3>1. \A s \in Sales : OwedBy[s] \in Int /\ OwedBy'[s] \in Int
      BY <2>4, <2>5
    <3> QED
      BY <2>6, <2>7, <3>1, SumChange
  <2>9. OwedBy'[x] = OwedBy[x] + d
    BY <1>2, <2>2, <2>6
  <2>10. SumOver(OwedBy', Sales) >= 0
    BY <2>5, <2>7, SumNat
  <2>11. debt \in Int /\ OwedBy[x] \in Nat
    BY <2>4 DEF TypeOK
  <2>12. SumOver(OwedBy', Sales) = debt + d
    BY <2>4, <2>8, <2>9, <2>11
  <2> QED
    BY <1>2, <2>5, <2>10, <2>12
<1> QED
  BY <1>1, <1>2 DEF SerialStep, Follows, DebtIsReceivable

LEMMA DebtInductive ==
    ASSUME TypeOK, RequestsOK, Rows, Undisturbed, DebtIsReceivable, [Next]_vars
    PROVE  DebtIsReceivable'
<1>1. CASE \E r \in Requests : Step(r)
  BY <1>1, SerialMoves, DebtStep, TypesInductive
<1>2. CASE DeleteOldDrafts
  <2>1. PICK s \in Sales : sale'[s] = Removed(s)
    BY <1>2, DraftsDeleted
  <2>2. ~OnlyInvoices'
    BY <2>1 DEF OnlyInvoices, Removed, NoRow
  <2> QED
    BY <2>2 DEF DebtIsReceivable
<1>3. CASE UNCHANGED vars
  BY <1>3 DEF vars, DebtIsReceivable, OnlyInvoices, IssuedDebt
<1> QED
  BY <1>1, <1>2, <1>3 DEF Next

LEMMA DebtInit == Init => DebtIsReceivable
<1> SUFFICES ASSUME Init PROVE debt = IssuedDebt
  BY DEF DebtIsReceivable
<1>1. TypeOK
  BY TypesInductive
<1>2. \A s \in Sales : OwedBy[s] = 0
  BY DEF Init, OwedBy, Owed, NoRow
<1>3. SumOver(OwedBy, Sales) = 0
  BY <1>2, SumZero, SalesAssumption
<1> QED
  BY <1>1, <1>3, DebtIsSum DEF Init

\* As long as requests do not overlap, the money of every invoice adds up:
\* paid and remaining make its total less the returns, paid is what was taken
\* less what was handed back, and the customer's cached debt is what the
\* invoices in force still owe, unless a row was deleted or a draft was paid
\* or cancelled as it is.  The account is never clamped at zero on the way.
THEOREM MoneyAgreesInTurn == ASSUME OneRequest PROVE Spec => []MoneyAgrees
<1> DEFINE Inv == TypeOK /\ RequestsOK /\ Rows /\ Undisturbed /\ DebtIsReceivable
<1>1. Init => Inv
  BY TypesInductive, SerialInit, DebtInit
<1>2. Inv /\ [Next]_vars => Inv'
  BY TypesInductive, RowsInductive, UndisturbedInductive, DebtInductive
<1>3. Inv => MoneyAgrees
  <2> SUFFICES ASSUME Inv PROVE RowBalanced /\ CashReconciles
    BY DEF MoneyAgrees
  <2>1. ASSUME NEW s \in Sales, Exists(s)
        PROVE  /\ sale[s].paid + sale[s].rem = sale[s].total - sale[s].retVal
               /\ sale[s].paid = sale[s].payRows - sale[s].refunds
    BY <2>1 DEF Rows, RowFits, Exists
  <2> QED
    BY <2>1 DEF RowBalanced, CashReconciles
<1> QED
  BY <1>1, <1>2, <1>3, PTL DEF Spec

-----------------------------------------------------------------------------
(* The credit ceiling *)

\* What the credit check counts, as a sum over all rows.
DueBy == [s \in Sales |-> IF Exists(s) /\ sale[s].status # "cancelled"
                            THEN sale[s].rem ELSE 0]

LEMMA ReceivableIsSum ==
    ASSUME TypeOK
    PROVE  /\ Receivable = SumOver(DueBy, Sales)
           /\ SumOver(DueBy, Sales) \in Nat
           /\ \A s \in Sales : DueBy[s] \in Nat /\ OwedBy[s] <= DueBy[s]
<1> DEFINE left == [s \in Sales |-> sale[s].rem]
           counted == {s \in Sales : Exists(s) /\ sale[s].status # "cancelled"}
<1>1. ASSUME NEW s \in Sales
      PROVE  /\ left[s] \in Int /\ sale[s].rem \in Nat
             /\ DueBy[s] = IF s \in counted THEN left[s] ELSE 0
             /\ OwedBy[s] <= DueBy[s] /\ DueBy[s] \in Nat
  BY DEF TypeOK, SaleRow, OwedBy, DueBy, Owed, Exists, Issued
<1>2. Receivable = SumOver(left, counted)
  BY DEF Receivable
<1>3. counted \in SUBSET Sales /\ IsFiniteSet(Sales)
  BY SalesAssumption
<1> HIDE DEF left, counted, DueBy, OwedBy
<1>4. \A s \in Sales : left[s] \in Int /\ DueBy[s] = IF s \in counted THEN left[s] ELSE 0
  BY <1>1
<1>5. SumOver(left, counted) = SumOver(DueBy, Sales)
  BY <1>3, <1>4, SumPart
<1>6. \A s \in Sales : DueBy[s] \in Nat /\ OwedBy[s] <= DueBy[s]
  BY <1>1
<1>7. SumOver(DueBy, Sales) \in Nat
  BY <1>3, <1>6, SumNat
<1> QED
  BY <1>2, <1>5, <1>6, <1>7

\* The sale about to be inserted still fits under the ceiling.
UnderCeiling ==
    \A r \in Requests : req[r].op = "create" =>
        WithinCreditLimit(Price * req[r].qty - req[r].amount)

LEMMA CeilingInductive ==
    ASSUME OneRequest, TypeOK, RequestsOK, UnderCeiling, [Next]_vars
    PROVE  UnderCeiling'
<1>0. TypeOK'
  BY TypesInductive
<1>1. ASSUME NEW r \in Requests, Step(r) PROVE UnderCeiling'
  <2>1. ASSUME req'[r].op # "create" PROVE UnderCeiling'
    BY <2>1 DEF UnderCeiling, OneRequest
  <2>2. CASE BeginCreate(r)
    <3>0. PICK q \in Quantities : \E p \in 0..(Price * q) :
              /\ WithinCreditLimit(Price * q - p)
              /\ Accept(r, "create", NoSale, q, p, TRUE)
      BY <2>2 DEF BeginCreate
    <3>1. PICK p \in 0..(Price * q) :
              /\ WithinCreditLimit(Price * q - p)
              /\ Accept(r, "create", NoSale, q, p, TRUE)
      BY <3>0
    <3>2. req'[r].qty = q /\ req'[r].amount = p /\ sale' = sale
      BY <3>1 DEF Accept, TypeOK, ledger
    <3>3. WithinCreditLimit(Price * req[r].qty - req[r].amount)'
      BY <3>1, <3>2 DEF WithinCreditLimit, Receivable, Exists
    <3> QED
      BY <3>3 DEF UnderCeiling, OneRequest
  <2>3. CASE CommitCreate(r) \/ CommitAddPayment(r) \/ CommitCancel(r)
             \/ CommitRestore(r) \/ CommitReturn(r) \/ CommitCompleteDraft(r)
             \/ CommitRemove(r) \/ InsertDraftItems(r) \/ Abort(r)
    <3>1. req' = [req EXCEPT ![r] = Idle]
      BY <2>3 DEF CommitCreate, CommitAddPayment, CommitCancel, CommitRestore,
           CommitReturn, CommitCompleteDraft, CommitRemove, InsertDraftItems, Abort, Finish
    <3> QED
      BY <2>1, <3>1 DEF TypeOK, Idle
  <2>4. CASE BeginAddPayment(r) \/ BeginCancel(r) \/ BeginRestore(r)
             \/ BeginReturn(r) \/ BeginCompleteDraft(r) \/ BeginRemove(r)
    <3>1. PICK op \in OpNames \ {"create"} : \E s, q, a, w : Accept(r, op, s, q, a, w)
      BY <2>4 DEF BeginAddPayment, BeginCancel, BeginRestore, BeginReturn,
           BeginCompleteDraft, BeginRemove, OpNames
    <3>2. req'[r].op = op
      BY <3>1 DEF Accept, TypeOK
    <3> QED
      BY <2>1, <3>2
  <2>5. CASE ReadReturns(r)
    <3>1. req[r].op = "return" /\ \E n, v :
            req' = [req EXCEPT ![r] = [req[r] EXCEPT !.step = "write", !.prior = n,
                                                     !.priorVal = v]]
      BY <2>5 DEF ReadReturns
    <3>2. req'[r].op = "return"
      BY <3>1 DEF TypeOK, Request
    <3> QED
      BY <2>1, <3>2
  <2>6. CASE CreateDraft(r)
    <3>1. PICK s, q : req' = [req EXCEPT ![r] = [Idle EXCEPT
                    !.op = "createDraft", !.step = "write", !.sale = s, !.qty = q]]
      BY <2>6 DEF CreateDraft
    <3>2. req'[r].op = "createDraft"
      BY <3>1 DEF TypeOK, Idle
    <3> QED
      BY <2>1, <3>2
  <2> QED
    BY <1>1, <2>2, <2>3, <2>4, <2>5, <2>6 DEF Step
<1>2. CASE DeleteOldDrafts
  <2>1. ASSUME NEW s \in Sales PROVE DueBy'[s] <= DueBy[s]
    <3>1. CASE sale'[s] = sale[s]
      BY <3>1, ReceivableIsSum DEF DueBy, Exists
    <3>2. CASE sale'[s] = Removed(s)
      <4>1. DueBy'[s] = 0 /\ DueBy[s] \in Nat
        BY <3>2, ReceivableIsSum DEF DueBy, Exists, Removed, NoRow
      <4> QED
        BY <4>1
    <3> QED
      BY <1>2, <3>1, <3>2, DraftsDeleted
  <2>2. (\A s \in Sales : DueBy[s] \in Nat)' /\ (Receivable = SumOver(DueBy, Sales))'
        /\ (SumOver(DueBy, Sales) \in Nat)'
    <3>1. TypeOK' => (/\ Receivable = SumOver(DueBy, Sales)
                      /\ SumOver(DueBy, Sales) \in Nat
                      /\ \A s \in Sales : DueBy[s] \in Nat /\ OwedBy[s] <= DueBy[s])'
      BY ReceivableIsSum, PTL
    <3> QED
      BY <1>0, <3>1
  <2>3. /\ Receivable \in Nat /\ Receivable = SumOver(DueBy, Sales)
        /\ \A s \in Sales : DueBy[s] \in Nat
    BY ReceivableIsSum
  <2>4. SumOver(DueBy', Sales) <= SumOver(DueBy, Sales)
    <3> HIDE DEF DueBy
    <3>1. \A s \in Sales : DueBy'[s] \in Int /\ DueBy[s] \in Int /\ DueBy'[s] <= DueBy[s]
      BY <2>1, <2>2, <2>3
    <3>2. IsFiniteSet(Sales)
      BY SalesAssumption
    <3> QED
      BY <3>1, <3>2, SumMono
  <2>5. Receivable' <= Receivable /\ Receivable' \in Nat
    BY <2>2, <2>3, <2>4
  <2>6. ASSUME NEW m \in Int, WithinCreditLimit(m) PROVE WithinCreditLimit(m)'
    <3>1. ASSUME m > 0, ~MayOverride PROVE Receivable' + m <= CreditLimit
      <4>1. Receivable + m <= CreditLimit
        BY <2>6, <3>1 DEF WithinCreditLimit
      <4>2. /\ Receivable \in Nat /\ Receivable' \in Nat /\ CreditLimit \in Nat
            /\ Receivable' <= Receivable
        BY <2>3, <2>5, SalesAssumption
      <4>3. \A a, b, c \in Nat : b <= a /\ a + m <= c => b + m <= c
        OBVIOUS
      <4> HIDE DEF Receivable
      <4> QED
        BY <4>1, <4>2, <4>3
    <3> QED
      BY <3>1 DEF WithinCreditLimit
  <2>7. ASSUME NEW r \in Requests, req'[r].op = "create"
        PROVE  WithinCreditLimit(Price * req[r].qty - req[r].amount)'
    <3>1. req' = req
      BY <1>2, DraftsDeleted
    <3> DEFINE m == Price * req[r].qty - req[r].amount
    <3>2. m \in Int /\ WithinCreditLimit(m)
      <4>1. Price * req[r].qty \in Nat /\ req[r].amount \in Nat
        BY InFlight, NetPrice
      <4> QED
        BY <2>7, <3>1, <4>1 DEF UnderCeiling
    <3>3. WithinCreditLimit(m)'
      <4> HIDE DEF m
      <4>1. m' = m
        BY <3>1 DEF m
      <4> QED
        BY <2>6, <3>2, <4>1 DEF WithinCreditLimit
    <3> QED
      BY <3>3
  <2> QED
    BY <2>7 DEF UnderCeiling
<1>3. CASE UNCHANGED vars
  BY <1>3 DEF vars, UnderCeiling, WithinCreditLimit, Receivable, Exists
<1> QED
  BY <1>1, <1>2, <1>3 DEF Next

\* Only the creation of a sale turns an unused id into an open invoice.
LEMMA OnlyCreateOpens ==
    ASSUME TypeOK, RequestsOK, [Next]_vars, NEW s \in Sales,
           sale[s].status = "absent", sale'[s].status = "pending"
    PROVE  \E r \in Requests :
              /\ req[r].op = "create"
              /\ sale' = [sale EXCEPT ![s] = Issue(NoRow, req[r].qty, req[r].amount)]
<1>1. ASSUME NEW x \in Sales, NEW row, sale' = [sale EXCEPT ![x] = row],
             Exists(x) \/ row.status # "pending"
      PROVE  FALSE
  BY <1>1, WrittenRow DEF Exists
<1>2. ASSUME sale' = sale PROVE FALSE
  BY <1>2
<1>3. ASSUME NEW r \in Requests, Step(r), ~CommitCreate(r) PROVE FALSE
  <2>0. req[r].op \notin {"idle", "create"} => req[r].sale \in Sales
    BY DEF RequestsOK
  <2>1. CASE CommitAddPayment(r) \/ CommitReturn(r) \/ CommitCompleteDraft(r)
             \/ InsertDraftItems(r)
    <3>1. req[r].op \notin {"idle", "create"} /\ Exists(req[r].sale)
          /\ \E row : sale' = [sale EXCEPT ![req[r].sale] = row]
      BY <2>1 DEF CommitAddPayment, CommitReturn, CommitCompleteDraft,
           InsertDraftItems, Finish
    <3> QED
      BY <1>1, <2>0, <3>1
  <2>2. CASE CommitCancel(r) \/ CommitRestore(r)
    <3>1. req[r].op \notin {"idle", "create"}
          /\ \/ sale' = sale
             \/ /\ Exists(req[r].sale)
                /\ \E row : sale' = [sale EXCEPT ![req[r].sale] = row]
      BY <2>2 DEF CommitCancel, CommitRestore, Finish
    <3> QED
      BY <1>1, <1>2, <2>0, <3>1
  <2>3. CASE CommitRemove(r)
    <3>1. req[r].op = "remove"
          /\ sale' = [sale EXCEPT ![req[r].sale] = Removed(req[r].sale)]
      BY <2>3 DEF CommitRemove, Finish
    <3>2. Removed(req[r].sale).status = "removed"
      BY DEF Removed, NoRow
    <3> QED
      BY <1>1, <2>0, <3>1, <3>2
  <2>4. CASE CreateDraft(r)
    <3>1. PICK x \in Sales, n \in Quantities, w \in BOOLEAN :
            sale' = [sale EXCEPT ![x] = [NoRow EXCEPT !.status = "draft",
                            !.wh = w, !.total = Price * n, !.rem = Price * n]]
      BY <2>4 DEF CreateDraft
    <3>2. [NoRow EXCEPT !.status = "draft", !.wh = w, !.total = Price * n,
                        !.rem = Price * n].status = "draft"
      BY DEF NoRow
    <3> QED
      BY <1>1, <3>1, <3>2
  <2>5. CASE BeginCreate(r) \/ BeginAddPayment(r) \/ BeginCancel(r)
             \/ BeginRestore(r) \/ BeginReturn(r) \/ BeginCompleteDraft(r)
             \/ BeginRemove(r) \/ ReadReturns(r) \/ Abort(r)
    <3>1. UNCHANGED ledger
      BY <2>5 DEF BeginCreate, BeginAddPayment, BeginCancel, BeginRestore,
           BeginReturn, BeginCompleteDraft, BeginRemove, ReadReturns, Abort, Accept
    <3> QED
      BY <1>2, <3>1 DEF ledger
  <2> QED
    BY <1>3, <2>1, <2>2, <2>3, <2>4, <2>5 DEF Step
<1>4. ASSUME DeleteOldDrafts PROVE FALSE
  BY <1>4, DraftsDeleted DEF Removed, NoRow
<1>5. PICK r \in Requests : CommitCreate(r)
  BY <1>2, <1>3, <1>4 DEF Next, vars
<1>6. PICK x \in Sales :
          /\ req[r].op = "create"
          /\ sale' = [sale EXCEPT ![x] = Issue(NoRow, req[r].qty, req[r].amount)]
  BY <1>5 DEF CommitCreate, Finish
<1>7. x = s
  BY <1>6, WrittenRow
<1> QED
  BY <1>6, <1>7

LEMMA CeilingStep ==
    ASSUME TypeOK, RequestsOK, UnderCeiling, [Next]_vars, NEW s \in Sales,
           sale[s].status = "absent", sale'[s].status = "pending", ~MayOverride
    PROVE  IssuedDebt' <= CreditLimit
<1>1. PICK r \in Requests :
          /\ req[r].op = "create"
          /\ sale' = [sale EXCEPT ![s] = Issue(NoRow, req[r].qty, req[r].amount)]
  BY OnlyCreateOpens
<1> DEFINE q == req[r].qty
           p == req[r].amount
           tot == Price * q
           row == Issue(NoRow, q, p)
<1>2. q \in Nat /\ p \in Nat /\ tot \in Nat /\ p <= tot
  BY <1>1, InFlight, NetPrice DEF RequestsOK
<1>3. row.status = PaidStatus(tot - p) /\ row.rem = tot - p
  BY RowTypes DEF Issue, SaleRow
<1>4. /\ sale'[s] = row
      /\ \A x \in Sales \ {s} : sale'[x] = sale[x]
  BY <1>1, WrittenRow
<1>5. WithinCreditLimit(tot - p)
  BY <1>1 DEF UnderCeiling
<1> HIDE DEF q, p, tot, row
<1>6. tot - p > 0 /\ Receivable + (tot - p) <= CreditLimit
  BY <1>2, <1>3, <1>4, <1>5 DEF PaidStatus, WithinCreditLimit
<1>7. /\ OwedBy[s] = 0 /\ OwedBy'[s] = tot - p
      /\ \A x \in Sales : x # s => OwedBy[x] = OwedBy'[x]
  BY <1>3, <1>4 DEF OwedBy, Owed, Issued
<1>8. /\ \A x \in Sales : OwedBy[x] \in Nat /\ DueBy[x] \in Nat /\ OwedBy[x] <= DueBy[x]
      /\ Receivable = SumOver(DueBy, Sales)
      /\ Receivable \in Nat
  BY DebtIsSum, ReceivableIsSum
<1>9. IssuedDebt' = SumOver(OwedBy', Sales)
  <2>1. TypeOK'
    BY TypesInductive
  <2>2. TypeOK' => (IssuedDebt = SumOver(OwedBy, Sales))'
    BY DebtIsSum, PTL
  <2> QED
    BY <2>1, <2>2
<1> HIDE DEF OwedBy, DueBy
<1>10. IsFiniteSet(Sales) /\ CreditLimit \in Nat
  BY SalesAssumption
<1>11. /\ SumOver(OwedBy, Sales) <= SumOver(DueBy, Sales)
       /\ SumOver(OwedBy, Sales) \in Int
  <2>1. \A x \in Sales : OwedBy[x] \in Int /\ DueBy[x] \in Int /\ OwedBy[x] <= DueBy[x]
    BY <1>8
  <2> QED
    BY <1>10, <2>1, SumMono, SumInt
<1>12. SumOver(OwedBy', Sales) = SumOver(OwedBy, Sales) + OwedBy'[s] - OwedBy[s]
  <2>1. \A x \in Sales : OwedBy[x] \in Int /\ OwedBy'[x] \in Int
    BY <1>2, <1>7, <1>8
  <2> QED
    BY <1>7, <1>10, <2>1, SumChange
<1> QED
  BY <1>2, <1>6, <1>7, <1>8, <1>9, <1>10, <1>11, <1>12

\* The hard credit ceiling, as long as requests do not overlap: the creation
\* of a sale that books a balance leaves what the customer owes within the
\* limit.  The check runs before the transaction, and nothing that may come
\* in between, the nightly deletion of drafts, raises what is owed.
THEOREM CeilingRespectedInTurn == ASSUME OneRequest PROVE Spec => CeilingRespected
<1> DEFINE Inv == TypeOK /\ RequestsOK /\ UnderCeiling
           Held == \A s \in Sales :
                     /\ sale[s].status = "absent"
                     /\ sale'[s].status = "pending"
                     /\ ~MayOverride
                     => IssuedDebt' <= CreditLimit
<1>1. Init => Inv
  <2>1. Init => UnderCeiling
    BY DEF Init, Idle, UnderCeiling
  <2> QED
    BY <2>1, TypesInductive
<1>2. Inv /\ [Next]_vars => Inv'
  BY TypesInductive, CeilingInductive
<1>3. Inv /\ [Next]_vars => [Held]_vars
  BY CeilingStep
<1> QED
  BY <1>1, <1>2, <1>3, PTL DEF Spec, CeilingRespected

=============================================================================
