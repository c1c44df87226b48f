--------------------------- MODULE InventoryProofs ---------------------------
(***************************************************************************)
(* Every posting of Inventory looks atomic: the row locks make the         *)
(* read-add-write of each transaction one step of StockLedger, its COMMIT  *)
(* (AtomicPostings). A transfer is approved only by the commit that moves  *)
(* the goods (ApprovalMoves), and the cost layers a posting has counted    *)
(* on are still there when it draws on them (LayersLast).  Transfers lock  *)
(* in the order of the warehouses, so that they never wait for each other  *)
(* in a circle (LocksAreEnough).                                           *)
(***************************************************************************)
EXTENDS Inventory, SumTheorems

\* Transaction without the bounds that only matter to the cost layers.
LooseTx ==
    [busy : BOOLEAN, op : Ops \union {"none"}, todo : Seq(Statement),
     ready : BOOLEAN, wrote : SUBSET Warehouses,
     seen : [Warehouses -> Int], changed : [Warehouses -> Int],
     drawn : [Warehouses -> Int], left : [Warehouses -> Int],
     settles : Transfers \union {NoTransfer}, verdict : {"approved", "rejected"}]

Shape ==
    /\ stock \in [Warehouses -> Int]
    /\ logged \in [Warehouses -> Int]
    /\ layers \in [Warehouses -> Int]
    /\ stockLock \in [Warehouses -> Connections \union {Nobody}]
    /\ transfer \in [Transfers -> Transfer]
    /\ tx \in [Connections -> LooseTx]

\* What ties a transaction to the tables: it writes only rows it has locked,
\* and its version of a locked row is the committed one plus its changes.
Fits(c, t) ==
    /\ ~t.busy => t.todo = <<>> /\ \A w \in Warehouses : stockLock[w] # c
    /\ t.ready => t.todo # <<>> /\ stockLock[Head(t.todo).at] = c
    /\ \A w \in Warehouses :
        /\ w \in t.wrote => stockLock[w] = c
        /\ w \notin t.wrote => t.changed[w] = 0
        /\ stockLock[w] = c => t.seen[w] = stock[w] + t.changed[w]
        /\ w \in t.wrote /\ t.seen[w] < stock[w] => MayOverdraw \/ t.seen[w] >= 0

LocksHold == Shape /\ \A c \in Connections : Fits(c, tx[c])

-----------------------------------------------------------------------------
(* The statements of the operations are statements *)

LEMMA DoType ==
    ASSUME NEW what \in {"lock", "change", "open", "legacy", "draw", "insert", "move"},
           NEW w \in Warehouses, NEW v \in Warehouses, NEW q \in Int,
           NEW over \in BOOLEAN, over /\ q < 0 => MayOverdraw
    PROVE  /\ Do(what, w, q) \in Statement
           /\ [Do(what, w, q) EXCEPT !.overdraw = over] \in Statement
           /\ [Do(what, w, q) EXCEPT !.to = v] \in Statement
  BY DEF Do, Statement

LEMMA Programs ==
    ASSUME NEW v \in Warehouses, NEW w \in Warehouses, NEW q \in Nat,
           NEW over \in {MayOverdraw, FALSE}
    PROVE  /\ SaleStatements(w, q) \in Seq(Statement)
           /\ RestoreStatements(w, q) \in Seq(Statement)
           /\ PurchaseStatements(w, q) \in Seq(Statement)
           /\ IncreaseStatements(w, q) \in Seq(Statement)
           /\ DecreaseStatements(w, q, over) \in Seq(Statement)
           /\ TransferStatements(v, w, q) \in Seq(Statement)
           /\ ApproveStatements(v, w, q) \in Seq(Statement)
<1>1. /\ q \in Int /\ -q \in Int /\ 0 \in Int
      /\ over \in BOOLEAN /\ (over /\ -q < 0 => MayOverdraw)
      /\ TRUE \in BOOLEAN /\ ~(q < 0)
  <2>1. q \in Int /\ -q \in Int /\ 0 \in Int /\ ~(q < 0)
    OBVIOUS
  <2>2. over \in BOOLEAN /\ (over => MayOverdraw) /\ TRUE \in BOOLEAN
    <3>1. CASE over = MayOverdraw
      BY <3>1, InventoryAssumption
    <3>2. CASE over = FALSE
      BY <3>2
    <3> QED
      BY <3>1, <3>2
  <2> QED
    BY <2>1, <2>2
<1>2. /\ Do("open", w, q) \in Statement
      /\ Do("legacy", w, q) \in Statement
      /\ Do("draw", w, q) \in Statement
      /\ Do("change", w, -q) \in Statement
      /\ Do("change", w, q) \in Statement
      /\ Do("insert", w, q) \in Statement
      /\ [Do("change", w, q) EXCEPT !.overdraw = TRUE] \in Statement
      /\ [Do("change", w, -q) EXCEPT !.overdraw = over] \in Statement
  <2>1. ASSUME NEW what \in {"lock", "change", "open", "legacy", "draw", "insert", "move"},
               NEW k \in Int
        PROVE  Do(what, w, k) \in Statement
    BY DEF Do, Statement
  <2>2. [Do("change", w, q) EXCEPT !.overdraw = TRUE] \in Statement
    BY <1>1, DoType
  <2>3. [Do("change", w, -q) EXCEPT !.overdraw = over] \in Statement
    BY <1>1, DoType
  <2> QED
    BY <1>1, <2>1, <2>2, <2>3
<1>3. SaleStatements(w, q) \in Seq(Statement)
  BY <1>2 DEF SaleStatements
<1>4. RestoreStatements(w, q) \in Seq(Statement)
  BY <1>2 DEF RestoreStatements
<1>5. PurchaseStatements(w, q) \in Seq(Statement)
  BY <1>2 DEF PurchaseStatements
<1>6. IncreaseStatements(w, q) \in Seq(Statement)
  BY <1>2 DEF IncreaseStatements
<1>7. DecreaseStatements(w, q, over) \in Seq(Statement)
  BY <1>2 DEF DecreaseStatements
<1>8. TransferStatements(v, w, q) \in Seq(Statement)
  <2> DEFINE low == IF v < w THEN v ELSE w
             high == IF v < w THEN w ELSE v
  <2>1. low \in Warehouses /\ high \in Warehouses
    OBVIOUS
  <2>2. TransferStatements(v, w, q) =
          <<Do("lock", low, 0), Do("lock", high, 0),
            Do("change", v, -q), Do("change", w, q),
            Do("open", v, q), [Do("move", v, q) EXCEPT !.to = w]>>
    BY DEF TransferStatements
  <2> HIDE DEF low, high
  <2>3. /\ Do("lock", low, 0) \in Statement
        /\ Do("lock", high, 0) \in Statement
    BY <1>1, <2>1, DoType
  <2>4. /\ Do("change", v, -q) \in Statement
        /\ Do("open", v, q) \in Statement
        /\ [Do("move", v, q) EXCEPT !.to = w] \in Statement
    BY <1>1, DoType
  <2> QED
    BY <1>2, <2>2, <2>3, <2>4
<1>9. ApproveStatements(v, w, q) \in Seq(Statement)
  <2>1. Do("change", v, -q) \in Statement
    BY <1>1, DoType
  <2> QED
    BY <1>2, <2>1 DEF ApproveStatements
<1> QED
  BY <1>3, <1>4, <1>5, <1>6, <1>7, <1>8, <1>9

LEMMA NextStatement ==
    ASSUME NEW s \in Seq(Statement), s # <<>>
    PROVE  /\ Tail(s) \in Seq(Statement)
           /\ Head(s).at \in Warehouses /\ Head(s).to \in Warehouses
           /\ Head(s).qty \in Int
           /\ Head(s).overdraw /\ Head(s).qty < 0 => MayOverdraw
<1>1. Tail(s) \in Seq(Statement) /\ Head(s) \in Statement
  OBVIOUS
<1> QED
  BY <1>1 DEF Statement

-----------------------------------------------------------------------------
(* LocksHold is inductive *)

\* A step of one connection that changes neither the rows nor the locks.
LEMMA Local ==
    ASSUME LocksHold, NEW c \in Connections, NEW t \in LooseTx, Fits(c, t),
           tx' = [tx EXCEPT ![c] = t], transfer' = transfer, layers' = layers,
           stock' = stock, logged' = logged, stockLock' = stockLock
    PROVE  LocksHold'
<1>1. Shape'
  BY DEF LocksHold, Shape
<1>2. ASSUME NEW d \in Connections PROVE tx'[d] = IF d = c THEN t ELSE tx[d]
  BY DEF LocksHold, Shape
<1>3. ASSUME NEW d \in Connections PROVE Fits(d, tx[d])'
  BY <1>2 DEF LocksHold, Fits
<1> QED
  BY <1>1, <1>3 DEF LocksHold

\* A statement that touches neither a stock row nor its lock.
LEMMA LayerStatement ==
    ASSUME LocksHold, NEW c \in Connections, NEW t \in LooseTx,
           t.busy = tx[c].busy, t.wrote = tx[c].wrote,
           t.seen = tx[c].seen, t.changed = tx[c].changed,
           Pending(c), Executed(c, t), transfer' = transfer, layers' = layers,
           stock' = stock, logged' = logged, stockLock' = stockLock
    PROVE  LocksHold'
<1> DEFINE u == [t EXCEPT !.todo = Tail(tx[c].todo), !.ready = FALSE]
<1>1. tx' = [tx EXCEPT ![c] = u]
  BY DEF Executed
<1>2. /\ tx[c].todo \in Seq(Statement)
      /\ tx[c].busy \in BOOLEAN
  BY DEF LocksHold, Shape, LooseTx
<1>3. tx[c].busy
  BY <1>2 DEF LocksHold, Fits, Pending
<1>4. Tail(tx[c].todo) \in Seq(Statement)
  BY <1>2 DEF Pending
<1>5. u \in LooseTx
  BY <1>4 DEF LooseTx
<1>6. /\ u.busy = tx[c].busy /\ u.wrote = tx[c].wrote
      /\ u.seen = tx[c].seen /\ u.changed = tx[c].changed
      /\ u.ready = FALSE
  BY DEF LooseTx
<1> HIDE DEF u
<1>7. Fits(c, u)
  BY <1>3, <1>6 DEF LocksHold, Fits
<1> QED
  BY <1>1, <1>5, <1>7, Local

\* COMMIT and ROLLBACK hand the locks back; the others keep theirs.
LEMMA Left ==
    ASSUME LocksHold, NEW c \in Connections, Leave(c), layers' \in [Warehouses -> Int],
           stock' \in [Warehouses -> Int], logged' \in [Warehouses -> Int],
           transfer' \in [Transfers -> Transfer],
           \A w \in Warehouses : stock'[w] = stock[w] \/ stockLock[w] = c
    PROVE  LocksHold'
<1>1. NoTx \in LooseTx /\ NoTx.busy = FALSE /\ NoTx.todo = <<>> /\ NoTx.ready = FALSE
      /\ NoTx.wrote = {} /\ \A w \in Warehouses : NoTx.changed[w] = 0
  BY DEF NoTx, LooseTx, Zeros
<1>2. tx' = [tx EXCEPT ![c] = NoTx]
  BY DEF Leave
<1>3. ASSUME NEW d \in Connections PROVE tx'[d] = IF d = c THEN NoTx ELSE tx[d]
  BY <1>2 DEF LocksHold, Shape
<1>4. /\ stockLock' \in [Warehouses -> Connections \union {Nobody}]
      /\ \A w \in Warehouses :
            stockLock'[w] = IF stockLock[w] = c THEN Nobody ELSE stockLock[w]
  BY DEF Leave, Unlocked, LocksHold, Shape
<1>5. Shape'
  <2>1. tx' \in [Connections -> LooseTx]
    BY <1>1, <1>2 DEF LocksHold, Shape
  <2> QED
    BY <2>1, <1>4 DEF Shape
<1>6. Fits(c, tx[c])'
  <2>1. tx'[c] = NoTx /\ \A w \in Warehouses : stockLock'[w] # c
    BY <1>3, <1>4, InventoryAssumption
  <2> QED
    BY <1>1, <2>1 DEF Fits
<1>7. ASSUME NEW d \in Connections, d # c PROVE Fits(d, tx[d])'
  <2>1. tx'[d] = tx[d] /\ Fits(d, tx[d])
    BY <1>3, <1>7 DEF LocksHold
  <2>2. \A w \in Warehouses :
            /\ stockLock'[w] = d <=> stockLock[w] = d
            /\ stockLock[w] = d => stock'[w] = stock[w]
    BY <1>4, <1>7, InventoryAssumption
  <2>3. tx[d] \in LooseTx
    BY DEF LocksHold, Shape
  <2>4. tx[d].ready => tx[d].todo # <<>> /\ Head(tx[d].todo).at \in Warehouses
    <3>1. tx[d].todo \in Seq(Statement)
      BY <2>3 DEF LooseTx
    <3>2. tx[d].ready => tx[d].todo # <<>>
      BY <2>1 DEF Fits
    <3> QED
      BY <3>1, <3>2, NextStatement
  <2> QED
    BY <2>1, <2>2, <2>4 DEF Fits
<1> QED
  BY <1>5, <1>6, <1>7 DEF LocksHold

LEMMA RequestsHold ==
    ASSUME LocksHold, NEW c \in Connections, Request(c)
    PROVE  LocksHold'
<1>1. ASSUME NEW op, NEW todo \in Seq(Statement), NEW s \in Transfers \union {NoTransfer},
             NEW v \in {"approved", "rejected"}, Begin(c, op, todo, s, v)
      PROVE  LocksHold'
  <2> DEFINE t == [NoTx EXCEPT !.busy = TRUE, !.op = op, !.todo = todo,
                               !.settles = s, !.verdict = v]
  <2>1. /\ op \in Ops
        /\ ~tx[c].busy
        /\ tx' = [tx EXCEPT ![c] = t]
        /\ UNCHANGED <<stock, logged, layers, transfer, stockLock>>
    BY <1>1 DEF Begin, tables, locks
  <2>2. t \in LooseTx
    <3>1. Zeros \in [Warehouses -> Int] /\ {} \in SUBSET Warehouses
      BY DEF Zeros
    <3>2. NoTx \in LooseTx
      BY <3>1 DEF NoTx, LooseTx
    <3> HIDE DEF t
    <3>3. t = [NoTx EXCEPT !.busy = TRUE, !.op = op, !.todo = todo,
                           !.settles = s, !.verdict = v]
      BY DEF t
    <3> QED
      BY <2>1, <3>2, <3>3 DEF LooseTx
  <2>3. /\ t.busy = TRUE /\ t.ready = FALSE /\ t.wrote = {}
        /\ \A w \in Warehouses : t.changed[w] = 0
    BY DEF NoTx, Zeros
  <2> HIDE DEF t
  <2>4. \A w \in Warehouses : stockLock[w] # c
    BY <2>1 DEF LocksHold, Fits
  <2>5. Fits(c, t)
    BY <2>3, <2>4 DEF Fits
  <2> QED
    BY <2>1, <2>2, <2>5, Local
<1>2. Quantities \subseteq Nat /\ \A q \in Quantities : q \in Nat
  BY InventoryAssumption
<1>3. CASE BeginSale(c)
  BY <1>1, <1>2, <1>3, Programs DEF BeginSale, Post
<1>4. CASE BeginRestore(c)
  BY <1>1, <1>2, <1>4, Programs DEF BeginRestore, Post
<1>5. CASE BeginPurchase(c)
  BY <1>1, <1>2, <1>5, Programs DEF BeginPurchase, Post
<1>6. CASE BeginAdjust(c)
  BY <1>1, <1>2, <1>6, Programs DEF BeginAdjust, Post
<1>7. CASE BeginTransfer(c)
  BY <1>1, <1>2, <1>7, Programs DEF BeginTransfer, Post
<1>8. CASE BeginApprove(c)
  <2>1. \A t \in Transfers : /\ transfer[t].from \in Warehouses
                             /\ transfer[t].to \in Warehouses
                             /\ transfer[t].qty \in Nat
    BY DEF LocksHold, Shape, Transfer
  <2> QED
    BY <1>1, <1>8, <2>1, Programs DEF BeginApprove
<1>9. CASE BeginReject(c)
  <2>1. <<>> \in Seq(Statement)
    OBVIOUS
  <2> QED
    BY <1>1, <1>9, <2>1 DEF BeginReject
<1> QED
  BY <1>3, <1>4, <1>5, <1>6, <1>7, <1>8, <1>9 DEF Request

LEMMA LockHolds ==
    ASSUME LocksHold, NEW c \in Connections, LockStockRow(c)
    PROVE  LocksHold'
<1> DEFINE w == Now(c).at
           v == IF stockLock[w] = c THEN tx[c].seen[w] ELSE stock[w]
           t == [tx[c] EXCEPT !.seen[w] = v]
           u == IF Now(c).do = "lock"
                  THEN [t EXCEPT !.todo = Tail(tx[c].todo), !.ready = FALSE]
                  ELSE [t EXCEPT !.ready = TRUE]
<1>1. /\ tx[c].todo \in Seq(Statement) /\ tx[c].todo # <<>>
      /\ tx[c] \in LooseTx
  BY DEF LockStockRow, LocksRow, Pending, LocksHold, Shape, LooseTx
<1>2. w \in Warehouses /\ Tail(tx[c].todo) \in Seq(Statement)
  BY <1>1, NextStatement DEF Now
<1>3. /\ stockLock[w] \in {Nobody, c}
      /\ stockLock' = [stockLock EXCEPT ![w] = c]
      /\ tx' = [tx EXCEPT ![c] = u]
      /\ UNCHANGED <<stock, logged, layers, transfer>>
  BY DEF LockStockRow, Free, Executed, tables
<1>4. v \in Int
  BY <1>1, <1>2 DEF LocksHold, Shape, LooseTx
<1>5. tx[c].busy
  BY <1>1 DEF LocksHold, Fits, LooseTx
<1> HIDE DEF v
<1>6. t \in LooseTx
  BY <1>1, <1>4 DEF LooseTx
<1>7. /\ t.busy = tx[c].busy /\ t.wrote = tx[c].wrote /\ t.changed = tx[c].changed
      /\ t.todo = tx[c].todo
      /\ \A x \in Warehouses : t.seen[x] = IF x = w THEN v ELSE tx[c].seen[x]
  BY <1>1, <1>2 DEF LooseTx
<1> HIDE DEF t
<1>8. u \in LooseTx
  BY <1>2, <1>6 DEF LooseTx
<1>9. /\ u.busy = t.busy /\ u.wrote = t.wrote /\ u.changed = t.changed /\ u.seen = t.seen
      /\ u.ready => u.todo = t.todo
  BY <1>6 DEF LooseTx
<1> HIDE DEF u
<1>10. /\ stockLock' \in [Warehouses -> Connections \union {Nobody}]
       /\ \A x \in Warehouses : stockLock'[x] = IF x = w THEN c ELSE stockLock[x]
  BY <1>2, <1>3 DEF LocksHold, Shape
<1>11. Shape'
  <2>1. tx' \in [Connections -> LooseTx]
    BY <1>3, <1>8 DEF LocksHold, Shape
  <2> QED
    BY <1>3, <1>10, <2>1 DEF LocksHold, Shape
<1>12. ASSUME NEW d \in Connections PROVE tx'[d] = IF d = c THEN u ELSE tx[d]
  BY <1>3 DEF LocksHold, Shape
<1>13. Fits(c, tx[c])'
  <2>1. tx'[c] = u /\ u.busy
    BY <1>5, <1>7, <1>9, <1>12
  <2>2. u.ready => u.todo # <<>> /\ stockLock'[Head(u.todo).at] = c
    BY <1>1, <1>2, <1>7, <1>9, <1>10 DEF w, Now
  <2>3. ASSUME NEW x \in Warehouses
        PROVE  /\ x \in u.wrote => stockLock'[x] = c
               /\ x \notin u.wrote => u.changed[x] = 0
               /\ stockLock'[x] = c => u.seen[x] = stock'[x] + u.changed[x]
               /\ x \in u.wrote /\ u.seen[x] < stock'[x] => MayOverdraw \/ u.seen[x] >= 0
    <3>1. /\ x \in tx[c].wrote => stockLock[x] = c
          /\ x \notin tx[c].wrote => tx[c].changed[x] = 0
          /\ stockLock[x] = c => tx[c].seen[x] = stock[x] + tx[c].changed[x]
          /\ x \in tx[c].wrote /\ tx[c].seen[x] < stock[x]
               => MayOverdraw \/ tx[c].seen[x] >= 0
      BY DEF LocksHold, Fits
    <3>2. stock[x] \in Int /\ stock' = stock
      BY <1>3 DEF LocksHold, Shape
    <3>3. CASE x # w
      BY <3>1, <3>2, <3>3, <1>7, <1>9, <1>10
    <3>4. CASE x = w /\ stockLock[w] = c
      BY <3>1, <3>2, <3>4, <1>7, <1>9, <1>10 DEF v
    <3>5. CASE x = w /\ stockLock[w] # c
      <4>1. x \notin u.wrote /\ u.changed[x] = 0 /\ u.seen[x] = stock[x]
        BY <3>1, <3>5, <1>7, <1>9 DEF v
      <4> QED
        BY <4>1, <3>2, <3>5, <1>10
    <3> QED
      BY <3>3, <3>4, <3>5
  <2> QED
    BY <2>1, <2>2, <2>3 DEF Fits
<1>14. ASSUME NEW d \in Connections, d # c PROVE Fits(d, tx[d])'
  <2>1. tx'[d] = tx[d] /\ Fits(d, tx[d])
    BY <1>12, <1>14 DEF LocksHold
  <2>2. \A x \in Warehouses : stockLock'[x] = d <=> stockLock[x] = d
    BY <1>3, <1>10, <1>14, InventoryAssumption
  <2>3. tx[d].ready => Head(tx[d].todo).at \in Warehouses
    <3>1. tx[d].todo \in Seq(Statement)
      BY DEF LocksHold, Shape, LooseTx
    <3>2. tx[d].ready => tx[d].todo # <<>>
      BY <2>1 DEF Fits
    <3> QED
      BY <3>1, <3>2, NextStatement
  <2> QED
    BY <1>3, <2>1, <2>2, <2>3 DEF Fits
<1> QED
  BY <1>11, <1>13, <1>14 DEF LocksHold

LEMMA ChangeHolds ==
    ASSUME LocksHold, NEW c \in Connections, ChangeStock(c)
    PROVE  LocksHold'
<1> DEFINE w == Now(c).at
           q == Now(c).qty
           seen == [tx[c].seen EXCEPT ![w] = tx[c].seen[w] + q]
           changed == [tx[c].changed EXCEPT ![w] = tx[c].changed[w] + q]
           u == [tx[c] EXCEPT !.seen = seen, !.changed = changed,
                              !.wrote = tx[c].wrote \union {w},
                              !.todo = Tail(tx[c].todo), !.ready = FALSE]
<1>1. /\ tx[c] \in LooseTx /\ tx[c].todo \in Seq(Statement) /\ tx[c].todo # <<>>
      /\ tx[c].ready
  BY DEF ChangeStock, Pending, LocksHold, Shape, LooseTx
<1>2. /\ w \in Warehouses /\ q \in Int
      /\ Now(c).overdraw /\ q < 0 => MayOverdraw
      /\ Tail(tx[c].todo) \in Seq(Statement)
  BY <1>1, NextStatement DEF Now
<1>3. /\ tx' = [tx EXCEPT ![c] = u]
      /\ UNCHANGED <<stock, logged, layers, transfer, stockLock>>
      /\ tx[c].seen[w] + q >= 0 \/ Now(c).overdraw
  <2>1. Executed(c, [tx[c] EXCEPT
            !.seen[w] = tx[c].seen[w] + q,
            !.changed[w] = tx[c].changed[w] + q,
            !.wrote = tx[c].wrote \union {w}])
    BY DEF ChangeStock
  <2>2. tx' = [tx EXCEPT ![c] = u]
    BY <1>1, <2>1 DEF Executed, LooseTx
  <2>3. tx[c].seen[w] \in Int
    BY <1>1, <1>2 DEF LooseTx
  <2>4. tx[c].seen[w] + q >= 0 \/ Now(c).overdraw
    BY <1>2, <2>3 DEF ChangeStock, Short
  <2> QED
    BY <2>2, <2>4 DEF ChangeStock, tables, locks
<1>4. /\ seen \in [Warehouses -> Int] /\ changed \in [Warehouses -> Int]
      /\ \A x \in Warehouses : seen[x] = IF x = w THEN tx[c].seen[w] + q ELSE tx[c].seen[x]
      /\ \A x \in Warehouses :
            changed[x] = IF x = w THEN tx[c].changed[w] + q ELSE tx[c].changed[x]
  BY <1>1, <1>2 DEF LooseTx
<1>5. tx[c].busy /\ stockLock[w] = c
  BY <1>1 DEF LocksHold, Fits, LooseTx, Now
<1> HIDE DEF seen, changed
<1>6. u \in LooseTx
  BY <1>1, <1>2, <1>4 DEF LooseTx
<1>7. /\ u.busy = tx[c].busy /\ u.ready = FALSE /\ u.wrote = tx[c].wrote \union {w}
      /\ u.seen = seen /\ u.changed = changed
  BY <1>1 DEF LooseTx
<1> HIDE DEF u
<1>8. ASSUME NEW x \in Warehouses
      PROVE  /\ x \in u.wrote => stockLock[x] = c
             /\ x \notin u.wrote => u.changed[x] = 0
             /\ stockLock[x] = c => u.seen[x] = stock[x] + u.changed[x]
             /\ x \in u.wrote /\ u.seen[x] < stock[x] => MayOverdraw \/ u.seen[x] >= 0
  <2>1. /\ x \in tx[c].wrote => stockLock[x] = c
        /\ x \notin tx[c].wrote => tx[c].changed[x] = 0
        /\ stockLock[x] = c => tx[c].seen[x] = stock[x] + tx[c].changed[x]
        /\ x \in tx[c].wrote /\ tx[c].seen[x] < stock[x]
             => MayOverdraw \/ tx[c].seen[x] >= 0
    BY DEF LocksHold, Fits
  <2>2. CASE x # w
    BY <2>1, <2>2, <1>4, <1>7
  <2>3. CASE x = w
    <3>1. /\ u.seen[x] = tx[c].seen[x] + q
          /\ u.changed[x] = tx[c].changed[x] + q
          /\ x \in u.wrote
      BY <2>3, <1>4, <1>7
    <3>2. /\ stock[x] \in Int /\ tx[c].seen[x] \in Int /\ tx[c].changed[x] \in Int
      BY <1>1 DEF LocksHold, Shape, LooseTx
    <3>3. tx[c].seen[x] = stock[x] + tx[c].changed[x]
      BY <2>1, <2>3, <1>5
    <3>4. u.seen[x] = stock[x] + u.changed[x]
      BY <3>1, <3>2, <3>3, <1>2
    <3>5. ASSUME u.seen[x] < stock[x], ~MayOverdraw
          PROVE  u.seen[x] >= 0
      <4>1. CASE q < 0
        BY <4>1, <3>5, <3>1, <1>2, <1>3, <2>3
      <4>2. CASE q >= 0
        <5>1. tx[c].seen[x] < stock[x]
          BY <4>2, <3>1, <3>2, <3>5, <1>2
        <5>2. x \in tx[c].wrote
          BY <5>1, <2>1, <3>2, <3>3
        <5>3. tx[c].seen[x] >= 0
          BY <5>1, <5>2, <2>1, <3>5
        <5> QED
          BY <5>3, <4>2, <3>1, <3>2, <1>2
      <4> QED
        BY <4>1, <4>2, <1>2
    <3> QED
      BY <3>1, <3>4, <3>5, <2>3, <1>5
  <2> QED
    BY <2>2, <2>3
<1>9. Fits(c, u)
  BY <1>5, <1>7, <1>8 DEF Fits
<1> QED
  BY <1>3, <1>6, <1>9, Local

\* The cost layers change neither the stock rows nor their locks.
LEMMA LayersHold ==
    ASSUME LocksHold, NEW c \in Connections,
           OpenLayers(c) \/ SeedLayer(c) \/ DrawLayers(c) \/ InsertLayer(c) \/ MoveLayers(c)
    PROVE  LocksHold'
<1>1. /\ tx[c] \in LooseTx /\ tx[c].todo \in Seq(Statement)
      /\ layers \in [Warehouses -> Int]
  BY DEF LocksHold, Shape, LooseTx
<1>2. /\ Pending(c)
      /\ UNCHANGED <<stock, logged, layers, transfer, stockLock>>
  BY DEF OpenLayers, SeedLayer, DrawLayers, InsertLayer, MoveLayers, tables, locks
<1>3. Now(c).at \in Warehouses /\ Now(c).to \in Warehouses /\ Now(c).qty \in Int
  BY <1>1, <1>2, NextStatement DEF Now, Pending
<1>4. ASSUME NEW t \in LooseTx, Executed(c, t),
             t.busy = tx[c].busy, t.wrote = tx[c].wrote,
             t.seen = tx[c].seen, t.changed = tx[c].changed
      PROVE  LocksHold'
  BY <1>2, <1>4, LayerStatement
<1>5. ASSUME NEW drawn \in [Warehouses -> Int], NEW left \in [Warehouses -> Int]
      PROVE  LET t == [tx[c] EXCEPT !.drawn = drawn, !.left = left]
             IN  /\ t \in LooseTx /\ t.busy = tx[c].busy /\ t.wrote = tx[c].wrote
                 /\ t.seen = tx[c].seen /\ t.changed = tx[c].changed
  BY <1>1 DEF LooseTx
<1>6. ASSUME NEW drawn \in [Warehouses -> Int], NEW left \in [Warehouses -> Int],
             Executed(c, [tx[c] EXCEPT !.drawn = drawn, !.left = left])
      PROVE  LocksHold'
  BY <1>4, <1>5, <1>6
<1>7. /\ tx[c].drawn \in [Warehouses -> Int] /\ tx[c].left \in [Warehouses -> Int]
      /\ \A w \in Warehouses : tx[c].drawn[w] \in Int /\ tx[c].left[w] \in Int
      /\ \A w \in Warehouses : layers[w] \in Int
  BY <1>1 DEF LooseTx
<1>8. CASE OpenLayers(c)
  <2> DEFINE left == [tx[c].left EXCEPT ![Now(c).at] = layers[Now(c).at]]
  <2>1. left \in [Warehouses -> Int]
    BY <1>3, <1>7
  <2>2. Executed(c, [tx[c] EXCEPT !.left[Now(c).at] = layers[Now(c).at]])
    BY <1>8 DEF OpenLayers
  <2>3. [tx[c] EXCEPT !.left[Now(c).at] = layers[Now(c).at]]
          = [tx[c] EXCEPT !.drawn = tx[c].drawn, !.left = left]
    BY <1>1 DEF LooseTx
  <2> HIDE DEF left
  <2> QED
    BY <2>1, <2>2, <2>3, <1>6, <1>7
<1>9. CASE SeedLayer(c)
  <2> DEFINE w == Now(c).at
             seed == Positive(tx[c].seen[w])
             drawn == [tx[c].drawn EXCEPT ![w] = tx[c].drawn[w] + seed]
             left == [tx[c].left EXCEPT ![w] = layers[w] + seed]
  <2>1. tx[c].seen[w] \in Int
    BY <1>1, <1>3 DEF LooseTx
  <2>2. seed \in Int
    BY <2>1 DEF Positive
  <2>3. \/ Executed(c, tx[c])
        \/ Executed(c, [tx[c] EXCEPT !.left[w] = layers[w] + seed,
                                     !.drawn[w] = tx[c].drawn[w] + seed])
    BY <1>9 DEF SeedLayer
  <2> HIDE DEF seed
  <2>4. drawn \in [Warehouses -> Int] /\ left \in [Warehouses -> Int]
    BY <2>2, <1>3, <1>7
  <2>5. [tx[c] EXCEPT !.left[w] = layers[w] + seed, !.drawn[w] = tx[c].drawn[w] + seed]
          = [tx[c] EXCEPT !.drawn = drawn, !.left = left]
    BY <1>1 DEF LooseTx
  <2> HIDE DEF drawn, left
  <2> QED
    BY <2>3, <2>4, <2>5, <1>1, <1>4, <1>6
<1>10. CASE DrawLayers(c)
  <2> DEFINE w == Now(c).at
             take == Lesser(Now(c).qty, tx[c].left[w])
             drawn == [tx[c].drawn EXCEPT ![w] = tx[c].drawn[w] - take]
             left == [tx[c].left EXCEPT ![w] = tx[c].left[w] - take]
  <2>1. take \in Int
    BY <1>3, <1>7 DEF Lesser
  <2>2. Executed(c, [tx[c] EXCEPT !.drawn[w] = tx[c].drawn[w] - take,
                                  !.left[w] = tx[c].left[w] - take])
    BY <1>10 DEF DrawLayers
  <2> HIDE DEF take
  <2>3. drawn \in [Warehouses -> Int] /\ left \in [Warehouses -> Int]
    BY <2>1, <1>3, <1>7
  <2>4. [tx[c] EXCEPT !.drawn[w] = tx[c].drawn[w] - take, !.left[w] = tx[c].left[w] - take]
          = [tx[c] EXCEPT !.drawn = drawn, !.left = left]
    BY <1>1 DEF LooseTx
  <2> HIDE DEF drawn, left
  <2> QED
    BY <2>2, <2>3, <2>4, <1>6
<1>11. CASE InsertLayer(c)
  <2> DEFINE w == Now(c).at
             drawn == [tx[c].drawn EXCEPT ![w] = tx[c].drawn[w] + Now(c).qty]
  <2>1. Executed(c, [tx[c] EXCEPT !.drawn[w] = tx[c].drawn[w] + Now(c).qty])
    BY <1>11 DEF InsertLayer
  <2>2. drawn \in [Warehouses -> Int]
    BY <1>3, <1>7
  <2>3. [tx[c] EXCEPT !.drawn[w] = tx[c].drawn[w] + Now(c).qty]
          = [tx[c] EXCEPT !.drawn = drawn, !.left = tx[c].left]
    BY <1>1 DEF LooseTx
  <2> HIDE DEF drawn
  <2> QED
    BY <2>1, <2>2, <2>3, <1>6, <1>7
<1>12. CASE MoveLayers(c)
  <2> DEFINE v == Now(c).at
             w == Now(c).to
             q == Now(c).qty
             once == [tx[c].drawn EXCEPT ![v] = tx[c].drawn[v] - q]
             drawn == [once EXCEPT ![w] = tx[c].drawn[w] + q]
             left == [tx[c].left EXCEPT ![v] = tx[c].left[v] - q]
  <2>1. Executed(c, [tx[c] EXCEPT !.drawn[v] = tx[c].drawn[v] - q,
                                  !.drawn[w] = tx[c].drawn[w] + q,
                                  !.left[v] = tx[c].left[v] - q])
    BY <1>12 DEF MoveLayers
  <2>2. once \in [Warehouses -> Int] /\ left \in [Warehouses -> Int]
    BY <1>3, <1>7
  <2>3. [tx[c] EXCEPT !.drawn[v] = tx[c].drawn[v] - q,
                      !.drawn[w] = tx[c].drawn[w] + q,
                      !.left[v] = tx[c].left[v] - q]
          = [tx[c] EXCEPT !.drawn = drawn, !.left = left]
    BY <1>1 DEF LooseTx
  <2> HIDE DEF once, left
  <2>4. drawn \in [Warehouses -> Int]
    BY <2>2, <1>3, <1>7
  <2> HIDE DEF drawn
  <2> QED
    BY <2>1, <2>2, <2>3, <2>4, <1>6
<1> QED
  BY <1>8, <1>9, <1>10, <1>11, <1>12

\* The first state, then every step.
LEMMA LocksInductive ==
    /\ Init => LocksHold
    /\ LocksHold /\ [Next]_vars => LocksHold'
<1>1. ASSUME Init PROVE LocksHold
  <2>1. /\ NoTx \in LooseTx /\ NoTx.busy = FALSE /\ NoTx.todo = <<>>
        /\ NoTx.ready = FALSE /\ NoTx.wrote = {}
        /\ \A w \in Warehouses : NoTx.changed[w] = 0
    BY DEF NoTx, LooseTx, Zeros
  <2>2. \A c \in Connections, w \in Warehouses : stockLock[w] # c
    BY <1>1, InventoryAssumption DEF Init
  <2>3. transfer \in [Transfers -> Transfer]
    <3>1. ASSUME NEW t \in Transfers PROVE NoRequest \in Transfer
      <4>1. (CHOOSE w \in Warehouses : TRUE) \in Warehouses
        BY InventoryAssumption
      <4> QED
        BY <4>1 DEF NoRequest, Transfer
    <3> QED
      BY <1>1, <3>1 DEF Init
  <2>4. Shape
    BY <1>1, <2>1, <2>3, InventoryAssumption DEF Init, Shape, Zeros
  <2>5. ASSUME NEW c \in Connections PROVE Fits(c, tx[c])
    BY <1>1, <2>1, <2>2 DEF Init, Fits
  <2> QED
    BY <2>4, <2>5 DEF LocksHold
<1>2. ASSUME LocksHold, [Next]_vars PROVE LocksHold'
  <2>1. ASSUME NEW c \in Connections, Rollback(c) PROVE LocksHold'
    BY <1>2, <2>1, Left DEF Rollback, tables, LocksHold, Shape
  <2>2. ASSUME NEW c \in Connections, Commit(c) PROVE LocksHold'
    <3> DEFINE t == tx[c]
    <3>1. /\ t \in LooseTx
          /\ stock' = [w \in Warehouses |-> IF w \in t.wrote THEN t.seen[w] ELSE stock[w]]
          /\ logged' = [w \in Warehouses |-> logged[w] + t.changed[w]]
          /\ layers' = [w \in Warehouses |-> layers[w] + t.drawn[w]]
          /\ transfer' = Settled(t)
          /\ Leave(c)
      BY <1>2, <2>2 DEF Commit, LocksHold, Shape
    <3>2. /\ stock' \in [Warehouses -> Int] /\ logged' \in [Warehouses -> Int]
          /\ layers' \in [Warehouses -> Int]
      BY <1>2, <3>1 DEF LooseTx, LocksHold, Shape
    <3>3. \A w \in Warehouses : w \in t.wrote => stockLock[w] = c
      BY <1>2 DEF LocksHold, Fits
    <3>4. transfer' \in [Transfers -> Transfer]
      <4>1. transfer \in [Transfers -> Transfer]
        BY <1>2 DEF LocksHold, Shape
      <4>2. t.settles \in Transfers \union {NoTransfer} /\ t.verdict \in {"approved", "rejected"}
        BY <3>1 DEF LooseTx
      <4>3. CASE t.settles = NoTransfer
        BY <3>1, <4>1, <4>3 DEF Settled
      <4>4. CASE t.settles # NoTransfer
        <5> DEFINE row == transfer[t.settles]
                   k == row.moves + (IF t.verdict = "approved" THEN 1 ELSE 0)
                   new == [row EXCEPT !.status = t.verdict, !.moves = k]
        <5>1. row \in Transfer /\ row.moves \in Nat
          BY <4>1, <4>2, <4>4 DEF Transfer
        <5>2. k \in Nat
          BY <5>1
        <5>3. transfer' = [transfer EXCEPT ![t.settles] = new]
          BY <3>1, <4>4 DEF Settled
        <5> HIDE DEF row, k
        <5>4. new \in Transfer
          BY <5>1, <5>2, <4>2 DEF Transfer
        <5> HIDE DEF new
        <5> QED
          BY <4>1, <5>3, <5>4
      <4> QED
        BY <4>3, <4>4
    <3>5. \A w \in Warehouses : stock'[w] = stock[w] \/ stockLock[w] = c
      BY <3>1, <3>3
    <3> QED
      BY <1>2, <3>1, <3>2, <3>4, <3>5, Left
  <2>3. CASE RequestTransfer
    <3>1. PICK t \in Transfers, v \in Warehouses, w \in Warehouses, q \in Quantities :
            /\ transfer' = [transfer EXCEPT ![t] =
                  [status |-> "pending", from |-> v, to |-> w, qty |-> q, moves |-> 0]]
            /\ UNCHANGED <<stock, logged, layers, stockLock, tx>>
      BY <2>3 DEF RequestTransfer, locks
    <3>2. [status |-> "pending", from |-> v, to |-> w, qty |-> q, moves |-> 0] \in Transfer
      BY InventoryAssumption DEF Transfer
    <3>3. Shape'
      BY <1>2, <3>1, <3>2 DEF LocksHold, Shape
    <3> QED
      BY <1>2, <3>1, <3>3 DEF LocksHold, Fits
  <2>4. CASE BreakDeadlock
    BY <2>1, <2>4 DEF BreakDeadlock
  <2>5. ASSUME NEW c \in Connections, Request(c) \/ Proceed(c) \/ Crash(c)
        PROVE  LocksHold'
    BY <1>2, <2>1, <2>2, <2>5, RequestsHold, LockHolds, ChangeHolds, LayersHold
       DEF Proceed, Refuse, Crash
  <2>6. CASE UNCHANGED vars
    BY <1>2, <2>6 DEF vars, LocksHold, Shape, Fits
  <2> QED
    BY <1>2, <2>3, <2>4, <2>5, <2>6 DEF Next
<1> QED
  BY <1>1, <1>2

-----------------------------------------------------------------------------
(* The refinement *)

\* A commit adds to the rows what it logs; no other step moves either.
LEMMA StepPosts ==
    ASSUME LocksHold, [Next]_vars
    PROVE  [Ledger!Post]_(Ledger!vars)
<1>1. ASSUME NEW c \in Connections, Commit(c) PROVE Ledger!Post
  <2> DEFINE t == tx[c]
  <2>1. /\ stock' = [w \in Warehouses |-> IF w \in t.wrote THEN t.seen[w] ELSE stock[w]]
        /\ logged' = [w \in Warehouses |-> logged[w] + t.changed[w]]
    BY <1>1 DEF Commit
  <2>2. ASSUME NEW w \in Warehouses
        PROVE  /\ stock'[w] - stock[w] = logged'[w] - logged[w]
               /\ stock'[w] < stock[w] => MayOverdraw \/ stock'[w] >= 0
    <3>1. /\ stock[w] \in Int /\ logged[w] \in Int
          /\ t.seen[w] \in Int /\ t.changed[w] \in Int
      BY DEF LocksHold, Shape, LooseTx
    <3>2. /\ w \in t.wrote => t.seen[w] = stock[w] + t.changed[w]
          /\ w \notin t.wrote => t.changed[w] = 0
          /\ w \in t.wrote /\ t.seen[w] < stock[w] => MayOverdraw \/ t.seen[w] >= 0
      BY DEF LocksHold, Fits
    <3>3. /\ stock'[w] = IF w \in t.wrote THEN t.seen[w] ELSE stock[w]
          /\ logged'[w] = logged[w] + t.changed[w]
      BY <2>1
    <3> HIDE DEF t
    <3> QED
      BY <3>1, <3>2, <3>3
  <2> QED
    BY <2>1, <2>2 DEF Ledger!Post
<1>2. ASSUME NEW c \in Connections, Request(c) \/ Proceed(c) \/ Crash(c), ~Commit(c)
      PROVE  UNCHANGED Ledger!vars
  BY <1>2 DEF Request, Proceed, Crash, Refuse, Rollback, tables, Ledger!vars,
     BeginSale, BeginRestore, BeginPurchase, BeginAdjust, BeginTransfer, BeginApprove,
     BeginReject, Post, Begin, LockStockRow, ChangeStock, OpenLayers, SeedLayer,
     DrawLayers, InsertLayer, MoveLayers
<1>3. CASE RequestTransfer
  BY <1>3 DEF RequestTransfer, Ledger!vars
<1>4. CASE BreakDeadlock
  BY <1>4 DEF BreakDeadlock, Rollback, tables, Ledger!vars
<1>5. CASE UNCHANGED vars
  BY <1>5 DEF vars, Ledger!vars
<1> QED
  BY <1>1, <1>2, <1>3, <1>4, <1>5 DEF Next

\* inventoryService keeps "stock rows never diverge from the movement log":
\* whatever transactions interleave, crash or deadlock, what the tables show
\* is a sequence of atomic postings, none of which overdraws a warehouse
\* unless callers may ask for it.
THEOREM AtomicPostings == Spec => PostsAtomically
<1>1. Init => Ledger!Init
  BY DEF Init, Ledger!Init, Zeros
<1>2. LocksHold /\ [Next]_vars => [Ledger!Post]_(Ledger!vars)
  BY StepPosts
<1> QED
  BY <1>1, <1>2, LocksInductive, PTL DEF Spec, PostsAtomically, Ledger!Spec

-----------------------------------------------------------------------------
(* The decisions on transfers *)

\* Only a COMMIT settles a transfer: it writes a verdict, and with an approval
\* the move that the same transaction has made.
LEMMA CommitDecides ==
    ASSUME LocksHold, ApprovedHasMoved, NEW c \in Connections, Commit(c)
    PROVE  ApprovedHasMoved'
<1> DEFINE u == tx[c]
<1>1. /\ transfer \in [Transfers -> Transfer]
      /\ u.settles \in Transfers \union {NoTransfer}
      /\ u.verdict \in {"approved", "rejected"}
      /\ transfer' = Settled(u)
  BY DEF Commit, LocksHold, Shape, LooseTx
<1> HIDE DEF u
<1>2. CASE u.settles = NoTransfer
  BY <1>1, <1>2 DEF Settled, ApprovedHasMoved
<1>3. CASE u.settles # NoTransfer
  <2> DEFINE row == transfer[u.settles]
             k == row.moves + (IF u.verdict = "approved" THEN 1 ELSE 0)
             new == [row EXCEPT !.status = u.verdict, !.moves = k]
  <2>1. row \in Transfer /\ row.moves \in Nat
    BY <1>1, <1>3 DEF Transfer
  <2>2. k \in Nat /\ (u.verdict = "approved" => k > 0)
    BY <2>1
  <2>3. transfer' = [transfer EXCEPT ![u.settles] = new]
    BY <1>1, <1>3 DEF Settled
  <2> HIDE DEF row, k
  <2>4. new.status = u.verdict /\ new.moves = k
    BY <2>1 DEF Transfer
  <2> HIDE DEF new
  <2>5. ASSUME NEW t \in Transfers
        PROVE  transfer'[t] = IF t = u.settles THEN new ELSE transfer[t]
    BY <1>1, <2>3
  <2> QED
    BY <1>1, <2>2, <2>4, <2>5 DEF ApprovedHasMoved
<1> QED
  BY <1>2, <1>3

LEMMA StepDecides ==
    ASSUME LocksHold, ApprovedHasMoved, [Next]_vars
    PROVE  ApprovedHasMoved'
<1>1. ASSUME NEW c \in Connections, Request(c) \/ Proceed(c) \/ Crash(c), ~Commit(c)
      PROVE  transfer' = transfer
  BY <1>1 DEF Request, Proceed, Crash, Refuse, Rollback, tables,
     BeginSale, BeginRestore, BeginPurchase, BeginAdjust, BeginTransfer, BeginApprove,
     BeginReject, Post, Begin, LockStockRow, ChangeStock, OpenLayers, SeedLayer,
     DrawLayers, InsertLayer, MoveLayers
<1>2. CASE RequestTransfer
  <2>1. PICK t \in Transfers, v \in Warehouses, w \in Warehouses, q \in Quantities :
            transfer' = [transfer EXCEPT ![t] =
                [status |-> "pending", from |-> v, to |-> w, qty |-> q, moves |-> 0]]
    BY <1>2 DEF RequestTransfer
  <2> DEFINE new == [status |-> "pending", from |-> v, to |-> w, qty |-> q, moves |-> 0]
  <2>2. new.status = "pending" /\ new.moves = 0
    OBVIOUS
  <2> HIDE DEF new
  <2>3. ASSUME NEW s \in Transfers
        PROVE  transfer'[s] = IF s = t THEN new ELSE transfer[s]
    BY <2>1 DEF LocksHold, Shape, new
  <2> QED
    BY <2>2, <2>3 DEF ApprovedHasMoved
<1>3. CASE BreakDeadlock
  BY <1>3 DEF BreakDeadlock, Rollback, tables, ApprovedHasMoved
<1>4. CASE UNCHANGED vars
  BY <1>4 DEF vars, ApprovedHasMoved
<1>5. CASE transfer' = transfer
  BY <1>5 DEF ApprovedHasMoved
<1> QED
  BY <1>1, <1>2, <1>3, <1>4, <1>5, CommitDecides DEF Next

\* warehouseTransferService keeps "Stock is only moved when a branch admin (or
\* global admin) approves the request": whatever approvals and rejections race,
\* are refused or rolled back, a pending request has moved nothing and one that
\* ends approved has moved its goods.
THEOREM ApprovalMoves == Spec => []ApprovedHasMoved
<1>1. Init => ApprovedHasMoved
  BY DEF Init, ApprovedHasMoved, NoRequest
<1>2. LocksHold /\ ApprovedHasMoved /\ [Next]_vars => ApprovedHasMoved'
  BY StepDecides
<1> QED
  BY <1>1, <1>2, LocksInductive, PTL DEF Spec

-----------------------------------------------------------------------------
(* The cost layers *)

Seeds(s) == s.do \in {"open", "legacy"}
Draws(s) == s.do \in {"legacy", "draw", "insert", "move"}

\* Layers are looked at before any is drawn or added.
InOrder(todo) ==
    /\ \A i, j \in 1..Len(todo) : i < j /\ Draws(todo[i]) => ~Seeds(todo[j])
    /\ \A i \in 1..Len(todo) : todo[i].do \in {"insert", "move"} => todo[i].qty >= 0

Seeding(todo) == \E i \in 1..Len(todo) : Seeds(todo[i])

\* What a transaction may still draw is there: in the layers it has locked
\* with what it did to them, and elsewhere in those it has added itself.
Covered(t, c, lock, lay) ==
    /\ InOrder(t.todo)
    /\ Seeding(t.todo) => \A w \in Warehouses : t.drawn[w] = 0
    /\ \A w \in Warehouses :
        /\ t.left[w] >= 0
        /\ t.drawn[w] + (IF lock[w] = c THEN lay[w] ELSE 0) >= t.left[w]

LayersCover ==
    /\ layerLock \in [Warehouses -> Connections \union {Nobody}]
    /\ \A w \in Warehouses : layers[w] >= 0
    /\ \A c \in Connections : Covered(tx[c], c, layerLock, layers)

LEMMA ProgramsInOrder ==
    ASSUME NEW v \in Warehouses, NEW w \in Warehouses, NEW q \in Nat,
           NEW over \in BOOLEAN
    PROVE  /\ InOrder(SaleStatements(w, q)) /\ InOrder(RestoreStatements(w, q))
           /\ InOrder(PurchaseStatements(w, q)) /\ InOrder(IncreaseStatements(w, q))
           /\ InOrder(DecreaseStatements(w, q, over))
           /\ InOrder(TransferStatements(v, w, q)) /\ InOrder(ApproveStatements(v, w, q))
           /\ InOrder(<<>>)
<1>1. InOrder(SaleStatements(w, q))
  BY DEF InOrder, SaleStatements, Do, Seeds, Draws
<1>2. InOrder(RestoreStatements(w, q))
  BY DEF InOrder, RestoreStatements, Do, Seeds, Draws
<1>3. InOrder(PurchaseStatements(w, q))
  BY DEF InOrder, PurchaseStatements, Do, Seeds, Draws
<1>4. InOrder(IncreaseStatements(w, q))
  BY DEF InOrder, IncreaseStatements, Do, Seeds, Draws
<1>5. InOrder(DecreaseStatements(w, q, over))
  BY DEF InOrder, DecreaseStatements, Do, Seeds, Draws
<1>6. InOrder(TransferStatements(v, w, q))
  BY DEF InOrder, TransferStatements, Do, Seeds, Draws
<1>7. InOrder(ApproveStatements(v, w, q))
  BY DEF InOrder, ApproveStatements, Do, Seeds, Draws
<1>8. InOrder(<<>>)
  BY DEF InOrder
<1> QED
  BY <1>1, <1>2, <1>3, <1>4, <1>5, <1>6, <1>7, <1>8

\* The statements that remain after the first.
LEMMA Rest ==
    ASSUME NEW s \in Seq(Statement), s # <<>>, InOrder(s)
    PROVE  /\ InOrder(Tail(s))
           /\ Draws(Head(s)) => ~Seeding(Tail(s))
           /\ Seeding(Tail(s)) => Seeding(s)
           /\ Seeds(Head(s)) => Seeding(s)
           /\ Head(s).do \in {"insert", "move"} => Head(s).qty >= 0
<1>1. /\ Len(s) \in Nat /\ Len(s) >= 1 /\ Len(Tail(s)) = Len(s) - 1
      /\ Head(s) = s[1]
      /\ \A i \in 1..Len(Tail(s)) : Tail(s)[i] = s[i + 1]
  OBVIOUS
<1>2. \A i \in 1..Len(Tail(s)) : i + 1 \in 1..Len(s)
  BY <1>1
<1>3. InOrder(Tail(s))
  <2>1. ASSUME NEW i \in 1..Len(Tail(s)), NEW j \in 1..Len(Tail(s)), i < j,
               Draws(Tail(s)[i])
        PROVE  ~Seeds(Tail(s)[j])
    <3>1. Draws(s[i + 1]) /\ i + 1 \in 1..Len(s) /\ j + 1 \in 1..Len(s) /\ i + 1 < j + 1
      BY <1>1, <1>2, <2>1
    <3>2. ~Seeds(s[j + 1])
      BY <3>1 DEF InOrder
    <3> QED
      BY <1>1, <3>2
  <2>2. ASSUME NEW i \in 1..Len(Tail(s)), Tail(s)[i].do \in {"insert", "move"}
        PROVE  Tail(s)[i].qty >= 0
    BY <1>1, <1>2, <2>2 DEF InOrder
  <2> QED
    BY <2>1, <2>2 DEF InOrder
<1>4. ASSUME Draws(Head(s)), NEW i \in 1..Len(Tail(s)) PROVE ~Seeds(Tail(s)[i])
  <2>1. 1 \in 1..Len(s) /\ i + 1 \in 1..Len(s) /\ 1 < i + 1 /\ Draws(s[1])
    BY <1>1, <1>2, <1>4
  <2>2. ~Seeds(s[i + 1])
    BY <2>1 DEF InOrder
  <2> QED
    BY <1>1, <2>2
<1>5. Seeding(Tail(s)) => Seeding(s)
  BY <1>1, <1>2 DEF Seeding
<1>6. 1 \in 1..Len(s)
  BY <1>1
<1> QED
  BY <1>1, <1>3, <1>4, <1>5, <1>6 DEF Seeding, InOrder

\* A step of one connection that commits nothing.
LEMMA CoverStep ==
    ASSUME LayersCover, NEW c \in Connections,
           \A d \in Connections \ {c} : tx'[d] = tx[d], layers' = layers,
           layerLock' \in [Warehouses -> Connections \union {Nobody}],
           \A w \in Warehouses : layerLock'[w] = layerLock[w]
                                 \/ (layerLock[w] \in {Nobody, c} /\ layerLock'[w] = c),
           Covered(tx'[c], c, layerLock', layers)
    PROVE  LayersCover'
<1>1. ASSUME NEW d \in Connections PROVE Covered(tx'[d], d, layerLock', layers')
  <2>1. CASE d = c
    BY <2>1
  <2>2. CASE d # c
    <3>1. tx'[d] = tx[d] /\ Covered(tx[d], d, layerLock, layers)
      BY <2>2 DEF LayersCover
    <3>2. \A w \in Warehouses : layerLock'[w] = d <=> layerLock[w] = d
      BY <2>2, InventoryAssumption
    <3> QED
      BY <3>1, <3>2 DEF Covered
  <2> QED
    BY <2>1, <2>2
<1> QED
  BY <1>1 DEF LayersCover

\* What a statement leaves to be covered: the layers and what it drew.
LEMMA CoverStatement ==
    ASSUME LocksHold, LayersCover, NEW c \in Connections, Pending(c),
           \A d \in Connections \ {c} : tx'[d] = tx[d], layers' = layers,
           layerLock' \in [Warehouses -> Connections \union {Nobody}],
           \A w \in Warehouses : layerLock'[w] = layerLock[w]
                                 \/ (layerLock[w] \in {Nobody, c} /\ layerLock'[w] = c),
           tx'[c].todo = Tail(tx[c].todo),
           tx'[c].drawn = tx[c].drawn \/ Draws(Now(c)),
           \A w \in Warehouses :
               /\ tx'[c].left[w] >= 0
               /\ tx'[c].drawn[w] + (IF layerLock'[w] = c THEN layers[w] ELSE 0)
                    >= tx'[c].left[w]
    PROVE  LayersCover'
<1>1. /\ tx[c].todo \in Seq(Statement) /\ tx[c].todo # <<>> /\ InOrder(tx[c].todo)
      /\ Now(c) = Head(tx[c].todo)
      /\ Seeding(tx[c].todo) => \A w \in Warehouses : tx[c].drawn[w] = 0
  BY DEF LocksHold, Shape, LooseTx, Pending, Now, LayersCover, Covered
<1>2. /\ InOrder(tx'[c].todo)
      /\ Seeding(tx'[c].todo) => \A w \in Warehouses : tx'[c].drawn[w] = 0
  BY <1>1, Rest
<1>3. Covered(tx'[c], c, layerLock', layers)
  BY <1>2 DEF Covered
<1> QED
  BY <1>3, CoverStep

\* The rest of a transaction after a statement that works on the layers.
Later(c, d, l) == [tx[c] EXCEPT !.drawn = d, !.left = l,
                                !.todo = Tail(tx[c].todo), !.ready = FALSE]

LEMMA LaterIs ==
    ASSUME LocksHold, NEW c \in Connections, NEW d, NEW l,
           tx' = [tx EXCEPT ![c] = Later(c, d, l)]
    PROVE  /\ tx'[c].drawn = d /\ tx'[c].left = l /\ tx'[c].todo = Tail(tx[c].todo)
           /\ \A e \in Connections \ {c} : tx'[e] = tx[e]
<1>1. tx'[c] = Later(c, d, l) /\ \A e \in Connections \ {c} : tx'[e] = tx[e]
  BY DEF LocksHold, Shape
<1>2. tx[c] \in LooseTx
  BY DEF LocksHold, Shape
<1>3. Later(c, d, l).drawn = d /\ Later(c, d, l).left = l
      /\ Later(c, d, l).todo = Tail(tx[c].todo)
  BY <1>2 DEF Later, LooseTx
<1> QED
  BY <1>1, <1>3

\* Statements on the stock row.
LEMMA RowsCover ==
    ASSUME LocksHold, LayersCover, NEW c \in Connections,
           LockStockRow(c) \/ ChangeStock(c)
    PROVE  LayersCover'
<1> DEFINE w == Now(c).at
<1>1. tx[c] \in LooseTx /\ tx \in [Connections -> LooseTx]
  BY DEF LocksHold, Shape
<1>2. /\ Pending(c) /\ layers' = layers /\ layerLock' = layerLock
      /\ layerLock \in [Warehouses -> Connections \union {Nobody}]
  BY DEF LockStockRow, LocksRow, ChangeStock, tables, locks, LayersCover
<1>3. /\ \A d \in Connections \ {c} : tx'[d] = tx[d]
      /\ tx'[c].drawn = tx[c].drawn /\ tx'[c].left = tx[c].left
      /\ tx'[c].todo = tx[c].todo \/ tx'[c].todo = Tail(tx[c].todo)
  <2>1. CASE LockStockRow(c)
    <3> DEFINE v == IF stockLock[w] = c THEN tx[c].seen[w] ELSE stock[w]
               seen == [tx[c].seen EXCEPT ![w] = v]
               same == [tx[c] EXCEPT !.seen = seen]
               next == [tx[c] EXCEPT !.seen = seen, !.todo = Tail(tx[c].todo),
                                     !.ready = FALSE]
               held == [tx[c] EXCEPT !.seen = seen, !.ready = TRUE]
    <3>1. [tx[c] EXCEPT !.seen[w] = v] = same
      BY <1>1 DEF LooseTx
    <3>2. tx' = [tx EXCEPT ![c] = next] \/ tx' = [tx EXCEPT ![c] = held]
      BY <2>1, <3>1 DEF LockStockRow, Executed
    <3> HIDE DEF seen
    <3>3. /\ next.drawn = tx[c].drawn /\ next.left = tx[c].left
          /\ next.todo = Tail(tx[c].todo)
          /\ held.drawn = tx[c].drawn /\ held.left = tx[c].left
          /\ held.todo = tx[c].todo
      BY <1>1 DEF LooseTx
    <3> HIDE DEF next, held
    <3> QED
      BY <1>1, <3>2, <3>3
  <2>2. CASE ChangeStock(c)
    <3> DEFINE q == Now(c).qty
               seen == [tx[c].seen EXCEPT ![w] = tx[c].seen[w] + q]
               changed == [tx[c].changed EXCEPT ![w] = tx[c].changed[w] + q]
               next == [tx[c] EXCEPT !.seen = seen, !.changed = changed,
                            !.wrote = tx[c].wrote \union {w},
                            !.todo = Tail(tx[c].todo), !.ready = FALSE]
    <3>1. Executed(c, [tx[c] EXCEPT
              !.seen[w] = tx[c].seen[w] + q,
              !.changed[w] = tx[c].changed[w] + q,
              !.wrote = tx[c].wrote \union {w}])
      BY <2>2 DEF ChangeStock
    <3>2. tx' = [tx EXCEPT ![c] = next]
      BY <1>1, <3>1 DEF Executed, LooseTx
    <3> HIDE DEF seen, changed
    <3>3. /\ next.drawn = tx[c].drawn /\ next.left = tx[c].left
          /\ next.todo = Tail(tx[c].todo)
      BY <1>1 DEF LooseTx
    <3> HIDE DEF next
    <3> QED
      BY <1>1, <3>2, <3>3
  <2> QED
    BY <2>1, <2>2
<1>4. CASE tx'[c].todo = tx[c].todo
  <2>1. Covered(tx'[c], c, layerLock', layers)
    BY <1>2, <1>3, <1>4 DEF Covered, LayersCover
  <2> QED
    BY <1>2, <1>3, <2>1, CoverStep
<1>5. CASE tx'[c].todo = Tail(tx[c].todo)
  <2>1. \A x \in Warehouses :
            /\ tx'[c].left[x] >= 0
            /\ tx'[c].drawn[x] + (IF layerLock'[x] = c THEN layers[x] ELSE 0)
                 >= tx'[c].left[x]
    BY <1>2, <1>3 DEF Covered, LayersCover
  <2> QED
    BY <1>2, <1>3, <1>5, <2>1, CoverStatement
<1> QED
  BY <1>3, <1>4, <1>5

\* Statements on the layers.
LEMMA LayersCoverAfter ==
    ASSUME LocksHold, LayersCover, NEW c \in Connections,
           OpenLayers(c) \/ SeedLayer(c) \/ DrawLayers(c) \/ InsertLayer(c) \/ MoveLayers(c)
    PROVE  LayersCover'
<1> DEFINE w == Now(c).at
           v == Now(c).to
           q == Now(c).qty
           drawn == tx[c].drawn
           left == tx[c].left
<1>1. /\ tx[c] \in LooseTx /\ tx[c].todo \in Seq(Statement)
      /\ drawn \in [Warehouses -> Int] /\ left \in [Warehouses -> Int]
      /\ layers \in [Warehouses -> Int]
      /\ layerLock \in [Warehouses -> Connections \union {Nobody}]
      /\ Nobody \notin Connections
  BY InventoryAssumption DEF LocksHold, Shape, LooseTx, LayersCover
<1>2. Pending(c) /\ layers' = layers
  BY DEF OpenLayers, SeedLayer, DrawLayers, InsertLayer, MoveLayers, tables
<1>3. w \in Warehouses /\ v \in Warehouses /\ q \in Int
  BY <1>1, <1>2, NextStatement DEF Now, Pending
<1>4. \A x \in Warehouses :
          /\ layers[x] \in Int /\ drawn[x] \in Int /\ left[x] \in Int
          /\ layers[x] >= 0 /\ left[x] >= 0
          /\ drawn[x] + (IF layerLock[x] = c THEN layers[x] ELSE 0) >= left[x]
  BY <1>1 DEF LayersCover, Covered
<1>5. /\ Seeds(Now(c)) => \A x \in Warehouses : drawn[x] = 0
      /\ Now(c).do \in {"insert", "move"} => q >= 0
  <2>1. /\ InOrder(tx[c].todo) /\ tx[c].todo # <<>> /\ Now(c) = Head(tx[c].todo)
        /\ Seeding(tx[c].todo) => \A x \in Warehouses : drawn[x] = 0
    BY <1>2 DEF LayersCover, Covered, Now, Pending
  <2> QED
    BY <1>1, <2>1, Rest
\* What the statement has to show, once it is known what it did.
<1>6. ASSUME NEW d, NEW l, tx' = [tx EXCEPT ![c] = Later(c, d, l)],
             d = drawn \/ Draws(Now(c)),
             layerLock' \in [Warehouses -> Connections \union {Nobody}],
             \A x \in Warehouses :
                /\ layerLock'[x] = layerLock[x]
                   \/ (layerLock[x] \in {Nobody, c} /\ layerLock'[x] = c)
                /\ l[x] >= 0
                /\ d[x] + (IF layerLock'[x] = c THEN layers[x] ELSE 0) >= l[x]
      PROVE  LayersCover'
  <2>1. /\ tx'[c].drawn = d /\ tx'[c].left = l /\ tx'[c].todo = Tail(tx[c].todo)
        /\ \A e \in Connections \ {c} : tx'[e] = tx[e]
    BY <1>6, LaterIs
  <2>2. /\ tx'[c].drawn = tx[c].drawn \/ Draws(Now(c))
        /\ \A x \in Warehouses :
             /\ tx'[c].left[x] >= 0
             /\ tx'[c].drawn[x] + (IF layerLock'[x] = c THEN layers[x] ELSE 0)
                  >= tx'[c].left[x]
    BY <1>6, <2>1
  <2> QED
    BY <1>2, <1>6, <2>1, <2>2, CoverStatement
<1>7. CASE OpenLayers(c)
  <2> DEFINE l == [left EXCEPT ![w] = layers[w]]
  <2>1. tx' = [tx EXCEPT ![c] = Later(c, drawn, l)]
    BY <1>1, <1>7 DEF OpenLayers, Executed, Later, LooseTx
  <2>2. /\ Now(c).do = "open"
        /\ layers[w] > 0 => layerLock[w] \in {Nobody, c}
        /\ layerLock' = IF layers[w] > 0 THEN [layerLock EXCEPT ![w] = c] ELSE layerLock
    BY <1>7 DEF OpenLayers, Free
  <2>3. \A x \in Warehouses : drawn[x] = 0
    BY <1>5, <2>2 DEF Seeds
  <2>4. \A x \in Warehouses : l[x] = IF x = w THEN layers[x] ELSE left[x]
    BY <1>1
  <2>5. /\ layerLock' \in [Warehouses -> Connections \union {Nobody}]
        /\ \A x \in Warehouses :
              layerLock'[x] = IF x = w /\ layers[w] > 0 THEN c ELSE layerLock[x]
    BY <1>1, <1>3, <2>2
  <2> HIDE DEF l, drawn, left, w
  <2>6. \A x \in Warehouses :
          /\ layerLock'[x] = layerLock[x]
             \/ (layerLock[x] \in {Nobody, c} /\ layerLock'[x] = c)
          /\ l[x] >= 0
          /\ drawn[x] + (IF layerLock'[x] = c THEN layers[x] ELSE 0) >= l[x]
    BY <1>3, <1>4, <2>2, <2>3, <2>4, <2>5
  <2> QED
    BY <1>6, <2>1, <2>5, <2>6
<1>8. CASE SeedLayer(c)
  <2> DEFINE seed == Positive(tx[c].seen[w])
             d == [drawn EXCEPT ![w] = drawn[w] + seed]
             l == [left EXCEPT ![w] = layers[w] + seed]
  <2>1. seed \in Int /\ seed >= 0
    <3>1. tx[c].seen[w] \in Int
      BY <1>1, <1>3 DEF LooseTx
    <3> QED
      BY <3>1 DEF Positive
  <2>2. \A x \in Warehouses : drawn[x] = 0
    BY <1>5, <1>8 DEF SeedLayer, Seeds
  <2>3. Draws(Now(c))
    BY <1>8 DEF SeedLayer, Draws
  <2>4. CASE left[w] > 0 \/ seed = 0
    <3>1. tx' = [tx EXCEPT ![c] = Later(c, drawn, left)] /\ layerLock' = layerLock
      <4>1. Executed(c, tx[c]) /\ layerLock' = layerLock
        BY <1>8, <2>4 DEF SeedLayer
      <4>2. Later(c, drawn, left) = [tx[c] EXCEPT !.todo = Tail(tx[c].todo), !.ready = FALSE]
        BY <1>1 DEF Later, LooseTx
      <4> QED
        BY <4>1, <4>2 DEF Executed
    <3> QED
      BY <1>1, <1>4, <1>6, <3>1
  <2>5. CASE ~(left[w] > 0 \/ seed = 0)
    <3>1. /\ layers[w] > 0 => layerLock[w] \in {Nobody, c}
          /\ layerLock' = IF layers[w] > 0 THEN [layerLock EXCEPT ![w] = c] ELSE layerLock
          /\ Executed(c, [tx[c] EXCEPT !.left[w] = layers[w] + seed,
                                       !.drawn[w] = drawn[w] + seed])
      BY <1>8, <2>5 DEF SeedLayer, Free
    <3> HIDE DEF seed
    <3>2. tx' = [tx EXCEPT ![c] = Later(c, d, l)]
      BY <1>1, <3>1 DEF Executed, Later, LooseTx
    <3>3. \A x \in Warehouses :
            /\ d[x] = IF x = w THEN drawn[x] + seed ELSE drawn[x]
            /\ l[x] = IF x = w THEN layers[x] + seed ELSE left[x]
      BY <1>1, <1>3
    <3>4. /\ layerLock' \in [Warehouses -> Connections \union {Nobody}]
          /\ \A x \in Warehouses :
                layerLock'[x] = IF x = w /\ layers[w] > 0 THEN c ELSE layerLock[x]
      BY <1>1, <1>3, <3>1
    <3> HIDE DEF d, l, drawn, left, w
    <3>5. \A x \in Warehouses :
            /\ layerLock'[x] = layerLock[x]
               \/ (layerLock[x] \in {Nobody, c} /\ layerLock'[x] = c)
            /\ l[x] >= 0
            /\ d[x] + (IF layerLock'[x] = c THEN layers[x] ELSE 0) >= l[x]
      BY <1>3, <1>4, <2>1, <2>2, <3>1, <3>3, <3>4
    <3> QED
      BY <1>6, <2>3, <3>2, <3>4, <3>5
  <2> QED
    BY <2>4, <2>5
<1>9. CASE DrawLayers(c)
  <2> DEFINE take == Lesser(q, left[w])
             d == [drawn EXCEPT ![w] = drawn[w] - take]
             l == [left EXCEPT ![w] = left[w] - take]
  <2>1. take \in Int /\ take <= left[w]
    BY <1>3, <1>4 DEF Lesser
  <2>2. /\ Executed(c, [tx[c] EXCEPT !.drawn[w] = drawn[w] - take,
                                     !.left[w] = left[w] - take])
        /\ layerLock' = layerLock /\ Draws(Now(c))
    BY <1>9 DEF DrawLayers, locks, Draws
  <2> HIDE DEF take
  <2>3. tx' = [tx EXCEPT ![c] = Later(c, d, l)]
    BY <1>1, <2>2 DEF Executed, Later, LooseTx
  <2>4. \A x \in Warehouses :
          /\ d[x] = IF x = w THEN drawn[x] - take ELSE drawn[x]
          /\ l[x] = IF x = w THEN left[x] - take ELSE left[x]
    BY <1>1, <1>3
  <2> HIDE DEF d, l, drawn, left, w
  <2>5. \A x \in Warehouses :
          /\ l[x] >= 0
          /\ d[x] + (IF layerLock'[x] = c THEN layers[x] ELSE 0) >= l[x]
    BY <1>4, <2>1, <2>2, <2>4
  <2> QED
    BY <1>1, <1>6, <2>2, <2>3, <2>5
<1>10. CASE InsertLayer(c)
  <2> DEFINE d == [drawn EXCEPT ![w] = drawn[w] + q]
  <2>1. /\ Executed(c, [tx[c] EXCEPT !.drawn[w] = drawn[w] + q])
        /\ layerLock' = layerLock /\ Draws(Now(c)) /\ q >= 0
    BY <1>5, <1>10 DEF InsertLayer, locks, Draws
  <2>2. tx' = [tx EXCEPT ![c] = Later(c, d, left)]
    BY <1>1, <2>1 DEF Executed, Later, LooseTx
  <2>3. \A x \in Warehouses : d[x] = IF x = w THEN drawn[x] + q ELSE drawn[x]
    BY <1>1, <1>3
  <2> HIDE DEF d, drawn, left, w, q
  <2>4. \A x \in Warehouses :
          /\ left[x] >= 0
          /\ d[x] + (IF layerLock'[x] = c THEN layers[x] ELSE 0) >= left[x]
    BY <1>3, <1>4, <2>1, <2>3
  <2> QED
    BY <1>1, <1>6, <2>1, <2>2, <2>4
<1>11. CASE MoveLayers(c)
  <2> DEFINE once == [drawn EXCEPT ![w] = drawn[w] - q]
             d == [once EXCEPT ![v] = drawn[v] + q]
             l == [left EXCEPT ![w] = left[w] - q]
  <2>1. /\ Executed(c, [tx[c] EXCEPT !.drawn[w] = drawn[w] - q,
                                     !.drawn[v] = drawn[v] + q,
                                     !.left[w] = left[w] - q])
        /\ layerLock' = layerLock /\ Draws(Now(c)) /\ q >= 0 /\ ~(left[w] < q)
    BY <1>5, <1>11 DEF MoveLayers, locks, Draws, Uncovered
  <2>2. tx' = [tx EXCEPT ![c] = Later(c, d, l)]
    BY <1>1, <2>1 DEF Executed, Later, LooseTx
  <2>3. \A x \in Warehouses : once[x] = IF x = w THEN drawn[x] - q ELSE drawn[x]
    BY <1>1, <1>3
  <2>4. once \in [Warehouses -> Int]
    BY <1>1, <1>3, <1>4
  <2> HIDE DEF once
  <2>5. \A x \in Warehouses :
          /\ d[x] = IF x = v THEN drawn[x] + q ELSE once[x]
          /\ l[x] = IF x = w THEN left[x] - q ELSE left[x]
    BY <1>1, <1>3, <2>4
  <2> HIDE DEF d, l, drawn, left, w, v, q
  <2>6. \A x \in Warehouses :
          /\ l[x] >= 0
          /\ d[x] + (IF layerLock'[x] = c THEN layers[x] ELSE 0) >= l[x]
    BY <1>3, <1>4, <2>1, <2>3, <2>5
  <2> QED
    BY <1>1, <1>6, <2>1, <2>2, <2>6
<1> QED
  BY <1>7, <1>8, <1>9, <1>10, <1>11

LEMMA RequestsCover ==
    ASSUME LocksHold, LayersCover, NEW c \in Connections, Request(c)
    PROVE  LayersCover'
<1>1. ASSUME NEW op, NEW todo, NEW s, NEW v, Begin(c, op, todo, s, v), InOrder(todo)
      PROVE  LayersCover'
  <2> DEFINE t == [NoTx EXCEPT !.busy = TRUE, !.op = op, !.todo = todo,
                               !.settles = s, !.verdict = v]
  <2>1. tx' = [tx EXCEPT ![c] = t] /\ layers' = layers /\ layerLock' = layerLock
    BY <1>1 DEF Begin, tables, locks
  <2>2. /\ t.todo = todo
        /\ \A w \in Warehouses : t.drawn[w] = 0 /\ t.left[w] = 0
    BY DEF NoTx, Zeros
  <2> HIDE DEF t
  <2>3. tx'[c] = t /\ \A d \in Connections \ {c} : tx'[d] = tx[d]
    BY <2>1 DEF LocksHold, Shape
  <2>4. \A w \in Warehouses : layers[w] \in Int /\ layers[w] >= 0
    BY DEF LocksHold, Shape, LayersCover
  <2>5. Covered(tx'[c], c, layerLock', layers)
    BY <1>1, <2>1, <2>2, <2>3, <2>4 DEF Covered
  <2> QED
    BY <2>1, <2>3, <2>5, CoverStep DEF LayersCover
<1>2. \A q \in Quantities : q \in Nat
  BY InventoryAssumption
<1>3. MayOverdraw \in BOOLEAN
  BY InventoryAssumption
<1>4. CASE BeginSale(c)
  BY <1>1, <1>2, <1>4, ProgramsInOrder DEF BeginSale, Post
<1>5. CASE BeginRestore(c)
  BY <1>1, <1>2, <1>5, ProgramsInOrder DEF BeginRestore, Post
<1>6. CASE BeginPurchase(c)
  BY <1>1, <1>2, <1>6, ProgramsInOrder DEF BeginPurchase, Post
<1>7. CASE BeginAdjust(c)
  BY <1>1, <1>2, <1>3, <1>7, ProgramsInOrder DEF BeginAdjust, Post
<1>8. CASE BeginTransfer(c)
  BY <1>1, <1>2, <1>8, ProgramsInOrder DEF BeginTransfer, Post
<1>9. CASE BeginApprove(c)
  <2>1. \A t \in Transfers : /\ transfer[t].from \in Warehouses
                             /\ transfer[t].to \in Warehouses
                             /\ transfer[t].qty \in Nat
    BY DEF LocksHold, Shape, Transfer
  <2> QED
    BY <1>1, <1>9, <2>1, ProgramsInOrder DEF BeginApprove
<1>10. CASE BeginReject(c)
  <2>1. InOrder(<<>>)
    BY DEF InOrder
  <2> QED
    BY <1>1, <1>10, <2>1 DEF BeginReject
<1> QED
  BY <1>4, <1>5, <1>6, <1>7, <1>8, <1>9, <1>10 DEF Request

\* COMMIT and ROLLBACK: what goes in was covered, and the layers others have
\* locked only grow.
LEMMA LeaveCovers ==
    ASSUME LocksHold, LayersCover, NEW c \in Connections, Leave(c),
           \/ layers' = layers
           \/ layers' = [w \in Warehouses |-> layers[w] + tx[c].drawn[w]]
    PROVE  LayersCover'
<1>1. /\ tx'[c] = NoTx /\ \A d \in Connections \ {c} : tx'[d] = tx[d]
  BY DEF Leave, LocksHold, Shape
<1>2. /\ layerLock' \in [Warehouses -> Connections \union {Nobody}]
      /\ \A w \in Warehouses :
            layerLock'[w] = IF layerLock[w] = c THEN Nobody ELSE layerLock[w]
  BY DEF Leave, Unlocked, LayersCover
<1>3. ASSUME NEW d \in Connections, NEW w \in Warehouses
      PROVE  /\ tx[d].drawn[w] \in Int /\ tx[d].left[w] \in Int /\ layers[w] \in Int
             /\ layers[w] >= 0 /\ tx[d].left[w] >= 0
             /\ tx[d].drawn[w] + (IF layerLock[w] = d THEN layers[w] ELSE 0)
                  >= tx[d].left[w]
  <2>1. tx[d] \in LooseTx /\ layers \in [Warehouses -> Int]
    BY DEF LocksHold, Shape
  <2> QED
    BY <2>1 DEF LooseTx, LayersCover, Covered
<1>4. ASSUME NEW w \in Warehouses
      PROVE  /\ layers'[w] \in Int /\ layers'[w] >= 0
             /\ layerLock[w] # c => layers'[w] >= layers[w]
  BY <1>3
<1>5. ASSUME NEW d \in Connections PROVE Covered(tx'[d], d, layerLock', layers')
  <2>1. CASE d = c
    <3>1. /\ NoTx.todo = <<>> /\ \A w \in Warehouses : NoTx.drawn[w] = 0 /\ NoTx.left[w] = 0
      BY DEF NoTx, Zeros
    <3>2. InOrder(<<>>)
      BY DEF InOrder
    <3> QED
      BY <1>1, <1>4, <2>1, <3>1, <3>2 DEF Covered
  <2>2. CASE d # c
    <3>1. tx'[d] = tx[d] /\ Covered(tx[d], d, layerLock, layers)
      BY <1>1, <2>2 DEF LayersCover
    <3>2. ASSUME NEW w \in Warehouses
          PROVE  tx[d].drawn[w] + (IF layerLock'[w] = d THEN layers'[w] ELSE 0)
                   >= tx[d].left[w]
      <4>1. layerLock'[w] = d <=> layerLock[w] = d
        BY <1>2, <2>2, InventoryAssumption
      <4>2. layerLock[w] = d => layers'[w] >= layers[w]
        BY <1>4, <2>2
      <4> QED
        BY <1>3, <1>4, <4>1, <4>2
    <3> QED
      BY <3>1, <3>2 DEF Covered
  <2> QED
    BY <2>1, <2>2
<1> QED
  BY <1>2, <1>4, <1>5 DEF LayersCover

LEMMA CoverInductive ==
    /\ Init => LayersCover
    /\ LocksHold /\ LayersCover /\ [Next]_vars => LayersCover'
<1>1. ASSUME Init PROVE LayersCover
  <2>1. /\ NoTx.todo = <<>> /\ \A w \in Warehouses : NoTx.drawn[w] = 0 /\ NoTx.left[w] = 0
    BY DEF NoTx, Zeros
  <2>2. InOrder(<<>>)
    BY DEF InOrder
  <2>3. \A w \in Warehouses : layers[w] = OpeningLayers /\ layerLock[w] = Nobody
    BY <1>1 DEF Init
  <2>4. ASSUME NEW c \in Connections PROVE Covered(tx[c], c, layerLock, layers)
    BY <1>1, <2>1, <2>2, <2>3, InventoryAssumption DEF Init, Covered
  <2>5. layerLock \in [Warehouses -> Connections \union {Nobody}]
    BY <1>1 DEF Init
  <2>6. \A w \in Warehouses : layers[w] >= 0
    <3>1. OpeningLayers >= 0
      BY InventoryAssumption
    <3>2. TAKE w \in Warehouses
    <3>3. layers[w] = OpeningLayers
      BY <2>3
    <3> QED
      BY <3>1, <3>3
  <2> QED
    BY <2>4, <2>5, <2>6 DEF LayersCover
<1>2. ASSUME LocksHold, LayersCover, [Next]_vars PROVE LayersCover'
  <2>1. ASSUME NEW c \in Connections, Rollback(c) PROVE LayersCover'
    BY <1>2, <2>1, LeaveCovers DEF Rollback, tables
  <2>2. ASSUME NEW c \in Connections, Commit(c) PROVE LayersCover'
    BY <1>2, <2>2, LeaveCovers DEF Commit
  <2>3. ASSUME NEW c \in Connections, Request(c) \/ Proceed(c) \/ Crash(c)
        PROVE  LayersCover'
    BY <1>2, <2>1, <2>2, <2>3, RequestsCover, RowsCover, LayersCoverAfter
       DEF Proceed, Refuse, Crash
  <2>4. CASE RequestTransfer \/ UNCHANGED vars
    <3>1. UNCHANGED <<layers, layerLock, tx>>
      BY <2>4 DEF RequestTransfer, locks, vars
    <3> QED
      BY <1>2, <3>1 DEF LayersCover
  <2>5. CASE BreakDeadlock
    BY <2>1, <2>5 DEF BreakDeadlock
  <2> QED
    BY <1>2, <2>3, <2>4, <2>5 DEF Next
<1> QED
  BY <1>1, <1>2

LEMMA CoverIsThere ==
    ASSUME LocksHold, LayersCover
    PROVE  LayersStillThere
<1>1. ASSUME NEW w \in Warehouses, NEW c \in Connections
      PROVE  layers[w] + tx[c].drawn[w] >= 0
  <2>1. tx[c] \in LooseTx /\ layers \in [Warehouses -> Int]
    BY DEF LocksHold, Shape
  <2>2. /\ tx[c].drawn[w] \in Int /\ tx[c].left[w] \in Int /\ layers[w] \in Int
        /\ layers[w] >= 0 /\ tx[c].left[w] >= 0
        /\ tx[c].drawn[w] + (IF layerLock[w] = c THEN layers[w] ELSE 0)
             >= tx[c].left[w]
    BY <2>1 DEF LooseTx, LayersCover, Covered
  <2> QED
    BY <2>2
<1> QED
  BY <1>1 DEF LayersStillThere

\* planStockEntryAllocations and consumeStockEntriesTx lock the layers they
\* draw on: whatever postings interleave, are refused, lose their connection
\* or are killed as deadlock victims, no layer is drawn below zero, nor would
\* be if every open transaction committed now.
THEOREM LayersLast == Spec => []LayersStillThere
<1> QED
  BY CoverIsThere, LocksInductive, CoverInductive, PTL DEF Spec

-----------------------------------------------------------------------------
(* Transfers lock in the order of the warehouses *)

\* What a transfer still has to execute, against the rows it has locked: it
\* locks a row above all those it holds or will lock before, and works on
\* the rows and layers of a warehouse only once it holds the row.
Disciplined(c, s, lock) ==
    /\ \A i \in 1..Len(s) : s[i].do \in {"lock", "change", "open", "move"}
    /\ \A i \in 1..Len(s) : s[i].do \in {"change", "open"} =>
          \/ lock[s[i].at] = c
          \/ \E j \in 1..(i - 1) : s[j].do = "lock" /\ s[j].at = s[i].at
    /\ \A i \in 1..Len(s) : s[i].do = "lock" =>
          /\ \A x \in Warehouses : lock[x] = c => x < s[i].at
          /\ \A j \in 1..(i - 1) : s[j].do = "lock" => s[j].at < s[i].at

LockOrder ==
    \A c \in Connections :
        /\ ~tx[c].busy => \A w \in Warehouses : layerLock[w] # c
        /\ tx[c].op = "transfer" =>
              /\ Disciplined(c, tx[c].todo, stockLock)
              /\ \A w \in Warehouses : layerLock[w] = c => stockLock[w] = c

LEMMA TransferDisciplined ==
    ASSUME NEW v \in Warehouses, NEW w \in Warehouses, v # w, NEW q \in Nat,
           NEW c, NEW lock, \A x \in Warehouses : lock[x] # c
    PROVE  Disciplined(c, TransferStatements(v, w, q), lock)
<1>0. v \in Nat /\ w \in Nat
  BY InventoryAssumption
<1> DEFINE low == IF v < w THEN v ELSE w
           high == IF v < w THEN w ELSE v
           s == TransferStatements(v, w, q)
<1>1. low < high /\ {low, high} = {v, w}
  BY <1>0
<1>2. s = <<Do("lock", low, 0), Do("lock", high, 0),
            Do("change", v, -q), Do("change", w, q),
            Do("open", v, q), [Do("move", v, q) EXCEPT !.to = w]>>
  BY DEF TransferStatements
<1> HIDE DEF low, high, s
<1>3. /\ Len(s) = 6
      /\ s[1].do = "lock" /\ s[1].at = low
      /\ s[2].do = "lock" /\ s[2].at = high
      /\ s[3].do = "change" /\ s[3].at = v
      /\ s[4].do = "change" /\ s[4].at = w
      /\ s[5].do = "open" /\ s[5].at = v
      /\ s[6].do = "move"
  BY <1>2 DEF Do
<1>4. \A i \in 1..Len(s) : i \in {1, 2, 3, 4, 5, 6}
  BY <1>3
<1>5. \A i \in 1..Len(s) : s[i].do \in {"lock", "change", "open", "move"}
  BY <1>3, <1>4
<1>6. ASSUME NEW i \in 1..Len(s), s[i].do \in {"change", "open"}
      PROVE  \E j \in 1..(i - 1) : s[j].do = "lock" /\ s[j].at = s[i].at
  <2>1. i \in {3, 4, 5}
    BY <1>3, <1>4, <1>6
  <2>2. 1 \in 1..(i - 1) /\ 2 \in 1..(i - 1)
    BY <2>1
  <2>3. s[i].at \in {low, high}
    BY <1>1, <1>3, <2>1
  <2> QED
    BY <1>3, <2>2, <2>3
<1>7. ASSUME NEW i \in 1..Len(s), s[i].do = "lock", NEW j \in 1..(i - 1)
      PROVE  s[j].at < s[i].at
  <2>1. i \in {1, 2}
    BY <1>3, <1>4, <1>7
  <2>2. i = 2 /\ j = 1
    BY <2>1
  <2> QED
    BY <1>1, <1>3, <2>2
<1>8. Disciplined(c, s, lock)
  BY <1>5, <1>6, <1>7 DEF Disciplined
<1> QED
  BY <1>8 DEF s

\* The discipline of the statements after the first, which locks its row when
\* it is a lock and none otherwise.
LEMMA DisciplinedRest ==
    ASSUME NEW s \in Seq(Statement), s # <<>>, NEW c, NEW lock, NEW next,
           Disciplined(c, s, lock),
           \A x \in Warehouses : next[x] = c <=>
               lock[x] = c \/ (Head(s).do = "lock" /\ x = Head(s).at)
    PROVE  Disciplined(c, Tail(s), next)
<1> DEFINE r == Tail(s)
<1>1. /\ Len(s) \in Nat /\ Len(s) >= 1 /\ Len(r) = Len(s) - 1
      /\ Head(s) = s[1]
      /\ \A i \in 1..Len(r) : r[i] = s[i + 1]
  OBVIOUS
<1>2. \A i \in 1..Len(r) : i + 1 \in 1..Len(s)
  BY <1>1
<1>3. \A i \in 1..Len(s) : s[i].at \in Warehouses
  <2>1. \A i \in 1..Len(s) : s[i] \in Statement
    OBVIOUS
  <2> QED
    BY <2>1 DEF Statement
<1> HIDE DEF r
<1>4. \A i \in 1..Len(r) : r[i].do \in {"lock", "change", "open", "move"}
  BY <1>1, <1>2 DEF Disciplined
<1>5. ASSUME NEW i \in 1..Len(r), r[i].do \in {"change", "open"}
      PROVE  \/ next[r[i].at] = c
             \/ \E j \in 1..(i - 1) : r[j].do = "lock" /\ r[j].at = r[i].at
  <2>1. r[i] = s[i + 1] /\ i + 1 \in 1..Len(s) /\ s[i + 1].at \in Warehouses
    BY <1>1, <1>2, <1>3
  <2>2. \/ lock[s[i + 1].at] = c
        \/ \E j \in 1..((i + 1) - 1) : s[j].do = "lock" /\ s[j].at = s[i + 1].at
    BY <1>5, <2>1 DEF Disciplined
  <2>3. CASE lock[s[i + 1].at] = c
    BY <2>1, <2>3
  <2>4. ASSUME NEW j \in 1..((i + 1) - 1), s[j].do = "lock", s[j].at = s[i + 1].at
        PROVE  \/ next[r[i].at] = c
               \/ \E k \in 1..(i - 1) : r[k].do = "lock" /\ r[k].at = r[i].at
    <3>1. CASE j = 1
      BY <1>1, <2>1, <2>4, <3>1
    <3>2. CASE j # 1
      <4>1. j - 1 \in 1..(i - 1) /\ j - 1 \in 1..Len(r) /\ (j - 1) + 1 = j
        BY <1>1, <3>2
      <4>2. r[j - 1] = s[j]
        BY <1>1, <4>1
      <4> QED
        BY <2>1, <2>4, <4>1, <4>2
    <3> QED
      BY <3>1, <3>2
  <2> QED
    BY <2>2, <2>3, <2>4
<1>6. ASSUME NEW i \in 1..Len(r), r[i].do = "lock"
      PROVE  /\ \A x \in Warehouses : next[x] = c => x < r[i].at
             /\ \A j \in 1..(i - 1) : r[j].do = "lock" => r[j].at < r[i].at
  <2>1. r[i] = s[i + 1] /\ i + 1 \in 1..Len(s)
    BY <1>1, <1>2
  <2>2. /\ \A x \in Warehouses : lock[x] = c => x < s[i + 1].at
        /\ \A j \in 1..((i + 1) - 1) : s[j].do = "lock" => s[j].at < s[i + 1].at
    BY <1>6, <2>1 DEF Disciplined
  <2>3. 1 \in 1..((i + 1) - 1)
    BY <1>1
  <2>4. ASSUME NEW x \in Warehouses, next[x] = c PROVE x < r[i].at
    BY <1>1, <2>1, <2>2, <2>3, <2>4
  <2>5. ASSUME NEW j \in 1..(i - 1), r[j].do = "lock" PROVE r[j].at < r[i].at
    <3>1. j \in 1..Len(r) /\ j + 1 \in 1..((i + 1) - 1)
      BY <1>1
    <3>2. r[j] = s[j + 1]
      BY <1>1, <3>1
    <3> QED
      BY <2>1, <2>2, <2>5, <3>1, <3>2
  <2> QED
    BY <2>4, <2>5
<1>7. Disciplined(c, r, next)
  BY <1>4, <1>5, <1>6 DEF Disciplined
<1> QED
  BY <1>7 DEF r

\* What the discipline says of the statement that comes next.
LEMMA DisciplinedNow ==
    ASSUME NEW s \in Seq(Statement), s # <<>>, NEW c, NEW lock,
           Disciplined(c, s, lock)
    PROVE  /\ Head(s).at \in Warehouses
           /\ Head(s).do \in {"lock", "change", "open", "move"}
           /\ Head(s).do \in {"change", "open"} => lock[Head(s).at] = c
           /\ Head(s).do = "lock" =>
                 \A x \in Warehouses : lock[x] = c => x < Head(s).at
<1>1. 1 \in 1..Len(s) /\ Head(s) = s[1]
  OBVIOUS
<1>2. \A j \in 1..(1 - 1) : FALSE
  OBVIOUS
<1> QED
  BY <1>1, <1>2, NextStatement DEF Disciplined

\* A step of one connection: the others keep their transactions and locks.
LEMMA OrderStep ==
    ASSUME LocksHold, LockOrder, NEW c \in Connections,
           \A d \in Connections \ {c} :
               /\ tx'[d] = tx[d]
               /\ \A w \in Warehouses : /\ stockLock'[w] = d <=> stockLock[w] = d
                                        /\ layerLock'[w] = d <=> layerLock[w] = d,
           ~tx'[c].busy => \A w \in Warehouses : layerLock'[w] # c,
           tx'[c].op = "transfer" =>
               /\ Disciplined(c, tx'[c].todo, stockLock')
               /\ \A w \in Warehouses : layerLock'[w] = c => stockLock'[w] = c
    PROVE  LockOrder'
<1>1. ASSUME NEW d \in Connections, d # c, tx'[d].op = "transfer"
      PROVE  Disciplined(d, tx'[d].todo, stockLock')
  <2>1. /\ tx'[d] = tx[d] /\ Disciplined(d, tx[d].todo, stockLock)
        /\ tx[d].todo \in Seq(Statement)
    BY <1>1 DEF LockOrder, LocksHold, Shape, LooseTx
  <2>2. \A i \in 1..Len(tx[d].todo) : tx[d].todo[i].at \in Warehouses
    <3>1. \A i \in 1..Len(tx[d].todo) : tx[d].todo[i] \in Statement
      BY <2>1
    <3> QED
      BY <3>1 DEF Statement
  <2>3. \A w \in Warehouses : stockLock'[w] = d <=> stockLock[w] = d
    BY <1>1
  <2> QED
    BY <2>1, <2>2, <2>3 DEF Disciplined
<1>2. ASSUME NEW d \in Connections, d # c
      PROVE  /\ ~tx'[d].busy => \A w \in Warehouses : layerLock'[w] # d
             /\ tx'[d].op = "transfer" =>
                   \A w \in Warehouses : layerLock'[w] = d => stockLock'[w] = d
  BY <1>2 DEF LockOrder
<1> QED
  BY <1>1, <1>2 DEF LockOrder

\* A statement that leaves the stock locks as they are.
LEMMA OrderStatement ==
    ASSUME LocksHold, LockOrder, NEW c \in Connections, Pending(c),
           Now(c).do # "lock",
           \A d \in Connections \ {c} : tx'[d] = tx[d],
           tx'[c].todo = Tail(tx[c].todo),
           tx'[c].op = tx[c].op, tx'[c].busy = tx[c].busy,
           stockLock' = stockLock,
           \A w \in Warehouses :
               \/ layerLock'[w] = layerLock[w]
               \/ /\ layerLock[w] \in {Nobody, c} /\ layerLock'[w] = c
                  /\ tx[c].op = "transfer" => stockLock[w] = c
    PROVE  LockOrder'
<1>1. tx[c].todo \in Seq(Statement) /\ tx[c].todo # <<>> /\ Now(c) = Head(tx[c].todo)
  BY DEF LocksHold, Shape, LooseTx, Pending, Now
<1>2. tx[c].busy
  BY <1>1 DEF LocksHold, Fits
<1>3. ASSUME tx[c].op = "transfer"
      PROVE  /\ Disciplined(c, Tail(tx[c].todo), stockLock)
             /\ \A w \in Warehouses : layerLock'[w] = c => stockLock[w] = c
  <2>1. Disciplined(c, tx[c].todo, stockLock)
    BY <1>3 DEF LockOrder
  <2>2. Disciplined(c, Tail(tx[c].todo), stockLock)
    BY <1>1, <2>1, DisciplinedRest
  <2>3. ASSUME NEW w \in Warehouses, layerLock'[w] = c PROVE stockLock[w] = c
    BY <1>3, <2>3 DEF LockOrder
  <2> QED
    BY <2>2, <2>3
<1>4. ASSUME NEW d \in Connections \ {c}, NEW w \in Warehouses
      PROVE  /\ stockLock'[w] = d <=> stockLock[w] = d
             /\ layerLock'[w] = d <=> layerLock[w] = d
  BY InventoryAssumption
<1>5. tx'[c].busy
  BY <1>2
<1>6. ASSUME tx'[c].op = "transfer"
      PROVE  /\ Disciplined(c, tx'[c].todo, stockLock')
             /\ \A w \in Warehouses : layerLock'[w] = c => stockLock'[w] = c
  BY <1>3, <1>6
<1> QED
  BY <1>4, <1>5, <1>6, OrderStep

LEMMA RowsInOrder ==
    ASSUME LocksHold, LockOrder, NEW c \in Connections, LockStockRow(c)
    PROVE  LockOrder'
<1> DEFINE w == Now(c).at
           v == IF stockLock[w] = c THEN tx[c].seen[w] ELSE stock[w]
           seen == [tx[c].seen EXCEPT ![w] = v]
           same == [tx[c] EXCEPT !.seen = seen]
           next == [tx[c] EXCEPT !.seen = seen, !.todo = Tail(tx[c].todo),
                                 !.ready = FALSE]
           held == [tx[c] EXCEPT !.seen = seen, !.ready = TRUE]
<1>1. tx[c] \in LooseTx /\ tx \in [Connections -> LooseTx]
      /\ stockLock \in [Warehouses -> Connections \union {Nobody}]
  BY DEF LocksHold, Shape
<1>2. /\ tx[c].todo \in Seq(Statement) /\ tx[c].todo # <<>>
      /\ Now(c) = Head(tx[c].todo) /\ w \in Warehouses
  <2>1. tx[c].todo \in Seq(Statement) /\ tx[c].todo # <<>>
    BY <1>1 DEF LockStockRow, LocksRow, Pending, LooseTx
  <2> QED
    BY <2>1, NextStatement DEF Now
<1>3. [tx[c] EXCEPT !.seen[w] = v] = same
  BY <1>1 DEF LooseTx
<1>4. tx' = [tx EXCEPT ![c] = IF Now(c).do = "lock" THEN next ELSE held]
  BY <1>3 DEF LockStockRow, Executed
<1> HIDE DEF seen
<1>5. /\ next.op = tx[c].op /\ next.busy = tx[c].busy /\ next.todo = Tail(tx[c].todo)
      /\ held.op = tx[c].op /\ held.busy = tx[c].busy /\ held.todo = tx[c].todo
  BY <1>1 DEF LooseTx
<1> HIDE DEF next, held, same
<1>6. /\ tx'[c].op = tx[c].op /\ tx'[c].busy = tx[c].busy
      /\ tx'[c].todo = IF Now(c).do = "lock" THEN Tail(tx[c].todo) ELSE tx[c].todo
      /\ \A d \in Connections \ {c} : tx'[d] = tx[d]
  BY <1>1, <1>4, <1>5
<1>7. /\ stockLock[w] \in {Nobody, c} /\ layerLock' = layerLock
      /\ \A x \in Warehouses : stockLock'[x] = IF x = w THEN c ELSE stockLock[x]
  BY <1>1, <1>2 DEF LockStockRow, Free
<1>8. tx[c].busy
  BY <1>2 DEF LocksHold, Fits
<1> HIDE DEF w
<1>9. ASSUME tx[c].op = "transfer" PROVE Disciplined(c, tx'[c].todo, stockLock')
  <2>1. Disciplined(c, tx[c].todo, stockLock)
    BY <1>9 DEF LockOrder
  <2>2. CASE Now(c).do = "lock"
    <3>1. \A x \in Warehouses : stockLock'[x] = c <=>
              stockLock[x] = c \/ (Now(c).do = "lock" /\ x = Now(c).at)
      BY <1>7, <2>2 DEF w
    <3> QED
      BY <1>2, <1>6, <2>1, <2>2, <3>1, DisciplinedRest
  <2>3. CASE Now(c).do # "lock"
    <3>1. Now(c).do # "legacy"
      BY <1>2, <2>1, DisciplinedNow
    <3>2. Now(c).do = "change"
      BY <2>3, <3>1 DEF LockStockRow, LocksRow
    <3>3. stockLock[w] = c
      BY <1>2, <2>1, <3>2, DisciplinedNow DEF w
    <3>4. \A x \in Warehouses : stockLock'[x] = stockLock[x]
      BY <1>7, <3>3
    <3>5. \A i \in 1..Len(tx[c].todo) : tx[c].todo[i].at \in Warehouses
      <4>1. \A i \in 1..Len(tx[c].todo) : tx[c].todo[i] \in Statement
        BY <1>2
      <4> QED
        BY <4>1 DEF Statement
    <3>6. Disciplined(c, tx[c].todo, stockLock')
      BY <2>1, <3>4, <3>5 DEF Disciplined
    <3> QED
      BY <1>6, <2>3, <3>6
  <2> QED
    BY <2>2, <2>3
<1>10. ASSUME tx[c].op = "transfer", NEW x \in Warehouses, layerLock'[x] = c
       PROVE  stockLock'[x] = c
  BY <1>7, <1>10 DEF LockOrder
<1>11. ASSUME NEW d \in Connections \ {c}
       PROVE  /\ tx'[d] = tx[d]
              /\ \A x \in Warehouses : /\ stockLock'[x] = d <=> stockLock[x] = d
                                       /\ layerLock'[x] = d <=> layerLock[x] = d
  BY <1>6, <1>7, InventoryAssumption
<1>12. tx'[c].busy
  BY <1>6, <1>8
<1>13. tx'[c].op = "transfer" =>
          /\ Disciplined(c, tx'[c].todo, stockLock')
          /\ \A x \in Warehouses : layerLock'[x] = c => stockLock'[x] = c
  BY <1>6, <1>9, <1>10
<1> QED
  BY <1>11, <1>12, <1>13, OrderStep

LEMMA StatementsInOrder ==
    ASSUME LocksHold, LayersCover, LockOrder, NEW c \in Connections,
           \/ ChangeStock(c) \/ OpenLayers(c) \/ SeedLayer(c)
           \/ DrawLayers(c) \/ InsertLayer(c) \/ MoveLayers(c)
    PROVE  LockOrder'
<1>1. tx[c] \in LooseTx /\ tx \in [Connections -> LooseTx]
  BY DEF LocksHold, Shape
<1>2. /\ Pending(c) /\ Now(c).do # "lock" /\ stockLock' = stockLock
  BY DEF ChangeStock, OpenLayers, SeedLayer, DrawLayers, InsertLayer, MoveLayers,
         Executed, locks
<1>3. /\ tx[c].todo \in Seq(Statement) /\ tx[c].todo # <<>>
      /\ Now(c) = Head(tx[c].todo) /\ Now(c).at \in Warehouses
  BY <1>1, <1>2, NextStatement DEF Pending, Now, LooseTx
<1>4. ASSUME NEW t, Executed(c, t), t.op = tx[c].op, t.busy = tx[c].busy,
             t = [k \in DOMAIN tx[c] |-> t[k]]
      PROVE  /\ tx'[c].todo = Tail(tx[c].todo) /\ tx'[c].op = tx[c].op
             /\ tx'[c].busy = tx[c].busy
             /\ \A d \in Connections \ {c} : tx'[d] = tx[d]
  <2> DEFINE u == [t EXCEPT !.todo = Tail(tx[c].todo), !.ready = FALSE]
  <2>1. u.todo = Tail(tx[c].todo) /\ u.op = tx[c].op /\ u.busy = tx[c].busy
    BY <1>1, <1>4 DEF LooseTx
  <2>2. tx' = [tx EXCEPT ![c] = u]
    BY <1>4 DEF Executed
  <2> HIDE DEF u
  <2> QED
    BY <1>1, <2>1, <2>2
<1>5. PICK t : /\ Executed(c, t) /\ t.op = tx[c].op /\ t.busy = tx[c].busy
               /\ t = [k \in DOMAIN tx[c] |-> t[k]]
  <2> DEFINE w == Now(c).at
             Kept(t) == /\ t.op = tx[c].op /\ t.busy = tx[c].busy
                        /\ t = [k \in DOMAIN tx[c] |-> t[k]]
  <2>1. ASSUME NEW a, NEW b, NEW d
        PROVE  /\ Kept(tx[c])
               /\ Kept([tx[c] EXCEPT !.seen[w] = a, !.changed[w] = b, !.wrote = d])
               /\ Kept([tx[c] EXCEPT !.left[w] = a])
               /\ Kept([tx[c] EXCEPT !.left[w] = a, !.drawn[w] = b])
               /\ Kept([tx[c] EXCEPT !.drawn[w] = a, !.left[w] = b])
               /\ Kept([tx[c] EXCEPT !.drawn[w] = a])
               /\ Kept([tx[c] EXCEPT !.drawn[w] = a, !.drawn[Now(c).to] = b, !.left[w] = d])
    BY <1>1 DEF LooseTx
  <2> SUFFICES \E t : Executed(c, t) /\ Kept(t)
    OBVIOUS
  <2> HIDE DEF Kept
  <2>2. CASE ChangeStock(c)
    BY <2>1, <2>2 DEF ChangeStock
  <2>3. CASE OpenLayers(c)
    BY <2>1, <2>3 DEF OpenLayers
  <2>4. CASE SeedLayer(c)
    <3> DEFINE seed == Positive(tx[c].seen[w])
               t == [tx[c] EXCEPT !.left[w] = layers[w] + seed,
                                  !.drawn[w] = tx[c].drawn[w] + seed]
    <3>1. Kept(tx[c]) /\ Kept(t)
      BY <2>1
    <3>2. Executed(c, tx[c]) \/ Executed(c, t)
      BY <2>4 DEF SeedLayer
    <3> QED
      BY <3>1, <3>2
  <2>5. CASE DrawLayers(c)
    <3> DEFINE take == Lesser(Now(c).qty, tx[c].left[w])
               t == [tx[c] EXCEPT !.drawn[w] = tx[c].drawn[w] - take,
                                  !.left[w] = tx[c].left[w] - take]
    <3>1. Kept(t)
      BY <2>1
    <3>2. Executed(c, t)
      BY <2>5 DEF DrawLayers
    <3> QED
      BY <3>1, <3>2
  <2>6. CASE InsertLayer(c)
    BY <2>1, <2>6 DEF InsertLayer
  <2>7. CASE MoveLayers(c)
    <3> DEFINE q == Now(c).qty
               t == [tx[c] EXCEPT !.drawn[w] = tx[c].drawn[w] - q,
                                  !.drawn[Now(c).to] = tx[c].drawn[Now(c).to] + q,
                                  !.left[w] = tx[c].left[w] - q]
    <3>1. Kept(t)
      BY <2>1
    <3>2. Executed(c, t)
      BY <2>7 DEF MoveLayers
    <3> QED
      BY <3>1, <3>2
  <2> QED
    BY <2>2, <2>3, <2>4, <2>5, <2>6, <2>7
<1>6. /\ tx'[c].todo = Tail(tx[c].todo) /\ tx'[c].op = tx[c].op
      /\ tx'[c].busy = tx[c].busy
      /\ \A d \in Connections \ {c} : tx'[d] = tx[d]
  BY <1>4, <1>5
<1>7. tx[c].op = "transfer" =>
          /\ Now(c).do # "legacy"
          /\ Now(c).do = "open" => stockLock[Now(c).at] = c
  BY <1>3, DisciplinedNow DEF LockOrder
<1>8. ASSUME NEW w \in Warehouses
      PROVE  \/ layerLock'[w] = layerLock[w]
             \/ /\ layerLock[w] \in {Nobody, c} /\ layerLock'[w] = c
                /\ tx[c].op = "transfer" => stockLock[w] = c
  <2>0. layerLock \in [Warehouses -> Connections \union {Nobody}]
    BY DEF LayersCover
  <2>1. CASE layerLock' = layerLock
    BY <2>1
  <2>2. CASE layerLock' = [layerLock EXCEPT ![Now(c).at] = c]
             /\ layerLock[Now(c).at] \in {Nobody, c}
             /\ Now(c).do \in {"open", "legacy"}
    BY <1>3, <1>7, <2>0, <2>2
  <2>3. \/ layerLock' = layerLock
        \/ /\ layerLock' = [layerLock EXCEPT ![Now(c).at] = c]
           /\ layerLock[Now(c).at] \in {Nobody, c}
           /\ Now(c).do \in {"open", "legacy"}
    BY DEF ChangeStock, OpenLayers, SeedLayer, DrawLayers, InsertLayer, MoveLayers,
           locks, Free
  <2> QED
    BY <2>1, <2>2, <2>3
<1> QED
  BY <1>2, <1>6, <1>8, OrderStatement

LEMMA RequestsInOrder ==
    ASSUME LocksHold, LayersCover, LockOrder, NEW c \in Connections, Request(c)
    PROVE  LockOrder'
<1>1. ASSUME NEW op, NEW todo, NEW s, NEW v, Begin(c, op, todo, s, v),
             op = "transfer" => Disciplined(c, todo, stockLock)
      PROVE  LockOrder'
  <2> DEFINE t == [NoTx EXCEPT !.busy = TRUE, !.op = op, !.todo = todo,
                               !.settles = s, !.verdict = v]
  <2>1. /\ tx' = [tx EXCEPT ![c] = t] /\ ~tx[c].busy
        /\ layerLock' = layerLock /\ stockLock' = stockLock
    BY <1>1 DEF Begin, tables, locks
  <2>2. t.todo = todo /\ t.op = op /\ t.busy = TRUE
    BY DEF NoTx
  <2> HIDE DEF t
  <2>3. tx'[c] = t /\ \A d \in Connections \ {c} : tx'[d] = tx[d]
    BY <2>1 DEF LocksHold, Shape
  <2>4. \A w \in Warehouses : layerLock[w] # c
    BY <2>1 DEF LockOrder
  <2> QED
    BY <1>1, <2>1, <2>2, <2>3, <2>4, OrderStep
<1>2. CASE BeginTransfer(c)
  <2>1. PICK v \in Warehouses, w \in Warehouses, q \in Quantities :
            v # w /\ Begin(c, "transfer", TransferStatements(v, w, q),
                           NoTransfer, "approved")
    BY <1>2 DEF BeginTransfer, Post
  <2>2. q \in Nat
    BY InventoryAssumption
  <2>3. \A x \in Warehouses : stockLock[x] # c
    BY <2>1 DEF Begin, LocksHold, Fits
  <2>4. Disciplined(c, TransferStatements(v, w, q), stockLock)
    BY <2>1, <2>2, <2>3, TransferDisciplined
  <2> QED
    BY <1>1, <2>1, <2>4
<1>3. CASE BeginSale(c)
  BY <1>1, <1>3 DEF BeginSale, Post
<1>4. CASE BeginRestore(c)
  BY <1>1, <1>4 DEF BeginRestore, Post
<1>5. CASE BeginPurchase(c)
  BY <1>1, <1>5 DEF BeginPurchase, Post
<1>6. CASE BeginAdjust(c)
  BY <1>1, <1>6 DEF BeginAdjust, Post
<1>7. CASE BeginApprove(c)
  BY <1>1, <1>7 DEF BeginApprove
<1>8. CASE BeginReject(c)
  BY <1>1, <1>8 DEF BeginReject
<1> QED
  BY <1>2, <1>3, <1>4, <1>5, <1>6, <1>7, <1>8 DEF Request

LEMMA OrderInductive ==
    /\ Init => LockOrder
    /\ LocksHold /\ LayersCover /\ LockOrder /\ [Next]_vars => LockOrder'
<1>1. ASSUME Init PROVE LockOrder
  <2>1. NoTx.op = "none" /\ "none" # "transfer"
    BY DEF NoTx
  <2> QED
    BY <1>1, <2>1, InventoryAssumption DEF Init, LockOrder
<1>2. ASSUME LocksHold, LayersCover, LockOrder, [Next]_vars PROVE LockOrder'
  <2>1. ASSUME NEW c \in Connections, Leave(c) PROVE LockOrder'
    <3>1. tx'[c] = NoTx /\ \A d \in Connections \ {c} : tx'[d] = tx[d]
      BY <1>2, <2>1 DEF Leave, LocksHold, Shape
    <3>2. NoTx.op = "none" /\ "none" # "transfer"
      BY DEF NoTx
    <3>3. \A w \in Warehouses :
            /\ stockLock'[w] = IF stockLock[w] = c THEN Nobody ELSE stockLock[w]
            /\ layerLock'[w] = IF layerLock[w] = c THEN Nobody ELSE layerLock[w]
      BY <2>1 DEF Leave, Unlocked
    <3>4. /\ \A w \in Warehouses : layerLock'[w] # c
          /\ \A d \in Connections \ {c}, w \in Warehouses :
                /\ stockLock'[w] = d <=> stockLock[w] = d
                /\ layerLock'[w] = d <=> layerLock[w] = d
      BY <3>3, InventoryAssumption
    <3> QED
      BY <1>2, <3>1, <3>2, <3>4, OrderStep
  <2>2. ASSUME NEW c \in Connections, Request(c) \/ Proceed(c) \/ Crash(c)
        PROVE  LockOrder'
    BY <1>2, <2>1, <2>2, RequestsInOrder, RowsInOrder, StatementsInOrder
       DEF Proceed, Refuse, Crash, Rollback, Commit
  <2>3. CASE RequestTransfer \/ UNCHANGED vars
    <3>1. UNCHANGED <<stockLock, layerLock, tx>>
      BY <2>3 DEF RequestTransfer, locks, vars
    <3> QED
      BY <1>2, <3>1 DEF LockOrder, Disciplined
  <2>4. CASE BreakDeadlock
    BY <2>1, <2>4 DEF BreakDeadlock, Rollback
  <2> QED
    BY <1>2, <2>2, <2>3, <2>4 DEF Next
<1> QED
  BY <1>1, <1>2

\* Of transfers that wait for each other in a circle, each waits for a row
\* below the one its holder waits for: there is no last one.
LEMMA OrderUncrosses ==
    ASSUME LocksHold, LayersCover, LockOrder
    PROVE  TransfersNeverCross
<1> SUFFICES ASSUME NEW group \in SUBSET {c \in Connections : tx[c].op = "transfer"},
                    Deadlocked(group)
             PROVE  FALSE
  BY DEF TransfersNeverCross
<1>1. ASSUME NEW c \in group, NEW d \in group, Waits(c, d)
      PROVE  /\ Now(c).at \in Warehouses /\ Now(c).do = "lock"
             /\ stockLock[Now(c).at] = d
  <2>1. /\ tx[c].op = "transfer" /\ tx[d].op = "transfer"
        /\ c \in Connections /\ d \in Connections /\ c # d /\ Pending(c)
    BY <1>1 DEF Waits
  <2>2. /\ tx[c].todo \in Seq(Statement) /\ tx[c].todo # <<>>
        /\ Now(c) = Head(tx[c].todo)
        /\ Disciplined(c, tx[c].todo, stockLock)
    BY <2>1 DEF LocksHold, Shape, LooseTx, Pending, Now, LockOrder
  <2>3. /\ Now(c).at \in Warehouses
        /\ Now(c).do # "legacy"
        /\ Now(c).do \in {"change", "open"} => stockLock[Now(c).at] = c
    BY <2>2, DisciplinedNow
  <2>4. CASE LocksRow(c) /\ stockLock[Now(c).at] = d
    BY <2>1, <2>3, <2>4 DEF LocksRow
  <2>5. CASE ~(LocksRow(c) /\ stockLock[Now(c).at] = d)
    <3>1. Now(c).do = "open" /\ layerLock[Now(c).at] = d
      BY <1>1, <2>3, <2>5 DEF Waits
    <3>2. stockLock[Now(c).at] = d
      BY <2>1, <2>3, <3>1 DEF LockOrder
    <3> QED
      BY <2>1, <2>3, <3>1, <3>2
  <2> QED
    BY <2>4, <2>5
<1>2. ASSUME NEW c \in group, NEW d \in group, Waits(c, d)
      PROVE  Now(c).at < Now(d).at
  <2>1. PICK e \in group : Waits(d, e)
    BY DEF Deadlocked
  <2>2. /\ Now(d).do = "lock" /\ Now(c).at \in Warehouses /\ stockLock[Now(c).at] = d
    BY <1>1, <1>2, <2>1
  <2>3. /\ tx[d].todo \in Seq(Statement) /\ tx[d].todo # <<>>
        /\ Now(d) = Head(tx[d].todo)
        /\ Disciplined(d, tx[d].todo, stockLock)
    BY <2>1 DEF LocksHold, Shape, LooseTx, Waits, Pending, Now, LockOrder
  <2> QED
    BY <2>2, <2>3, DisciplinedNow
<1> DEFINE Above(c) == {x \in Warehouses : x > Now(c).at}
           Bad == {Above(c) : c \in group}
<1>3. PICK U \in Bad : \A V \in SUBSET U : V # U => V \notin Bad
  <2>1. Bad \in SUBSET (SUBSET Warehouses)
    OBVIOUS
  <2>2. Bad # {}
    BY DEF Deadlocked
  <2> HIDE DEF Bad
  <2> QED
    BY <2>1, <2>2, InventoryAssumption, Smallest
<1>4. PICK c \in group : U = Above(c)
  OBVIOUS
<1>5. PICK d \in group : Waits(c, d)
  BY DEF Deadlocked
<1>6. PICK e \in group : Waits(d, e)
  BY DEF Deadlocked
<1>7. /\ Now(c).at < Now(d).at
      /\ Now(c).at \in Warehouses /\ Now(d).at \in Warehouses
      /\ Warehouses \subseteq Nat
  BY <1>1, <1>2, <1>5, <1>6, InventoryAssumption
<1>8. Above(d) \in SUBSET Above(c) /\ Now(d).at \in Above(c) /\ Now(d).at \notin Above(d)
  <2>1. ASSUME NEW x \in Warehouses, x > Now(d).at PROVE x > Now(c).at
    BY <1>7, <2>1
  <2>2. ~(Now(d).at > Now(d).at)
    BY <1>7
  <2> QED
    BY <1>7, <2>1, <2>2
<1>9. Above(d) \in Bad
  OBVIOUS
<1> QED
  BY <1>3, <1>4, <1>8, <1>9

LEMMA HandledBounded ==
    /\ Init => handled \in 0..MaxRequests
    /\ handled \in 0..MaxRequests /\ [Next]_vars => (handled \in 0..MaxRequests)'
<1>1. Init => handled \in 0..MaxRequests
  BY InventoryAssumption DEF Init
<1>2. ASSUME handled \in 0..MaxRequests, [Next]_vars
      PROVE  handled' = handled \/ (handled < MaxRequests /\ handled' = handled + 1)
  <2>1. ASSUME NEW c \in Connections, Rollback(c) PROVE handled' = handled
    BY <2>1 DEF Rollback, Leave
  <2>2. ASSUME NEW c \in Connections, Request(c)
        PROVE  handled < MaxRequests /\ handled' = handled + 1
    BY <2>2 DEF Request, BeginSale, BeginRestore, BeginPurchase, BeginAdjust,
                BeginTransfer, BeginApprove, BeginReject, Post, Begin
  <2>3. ASSUME NEW c \in Connections, Proceed(c) PROVE handled' = handled
    BY <2>1, <2>3 DEF Proceed, LockStockRow, ChangeStock, OpenLayers, SeedLayer,
        DrawLayers, InsertLayer, MoveLayers, Refuse, Commit, Leave
  <2>4. CASE RequestTransfer
    BY <2>4 DEF RequestTransfer
  <2>5. CASE BreakDeadlock
    BY <2>1, <2>5 DEF BreakDeadlock
  <2>6. CASE UNCHANGED vars
    BY <2>6 DEF vars
  <2> QED
    BY <1>2, <2>1, <2>2, <2>3, <2>4, <2>5, <2>6 DEF Next, Crash
<1>3. ASSUME handled \in 0..MaxRequests, [Next]_vars PROVE handled' \in 0..MaxRequests
  <2>1. MaxRequests \in Nat /\ handled \in Nat /\ handled <= MaxRequests
    BY <1>3, InventoryAssumption
  <2> QED
    BY <1>2, <1>3, <2>1
<1> QED
  BY <1>1, <1>3

\* transferStock's comment: "Deterministic lock order by warehouse id to avoid
\* deadlocks".  Whatever the connections do and however many warehouses there
\* are, opposite transfers never wait for each other in a circle, no layer is
\* drawn twice, and what a transaction may still draw stays a quantity.
THEOREM LocksAreEnough == Spec => []LocksSuffice
<1>1. LocksHold /\ LayersCover => LayersStillThere
  BY CoverIsThere
<1>2. LocksHold /\ LayersCover /\ handled \in 0..MaxRequests => TypeOK
  <2> SUFFICES ASSUME LocksHold, LayersCover, handled \in 0..MaxRequests PROVE TypeOK
    OBVIOUS
  <2>1. layers \in [Warehouses -> Nat]
    BY DEF LocksHold, Shape, LayersCover
  <2>2. ASSUME NEW c \in Connections PROVE tx[c] \in Transaction
    <3>1. tx[c] \in LooseTx
      BY DEF LocksHold, Shape
    <3>2. tx[c].left \in [Warehouses -> Nat]
      <4>1. tx[c].left \in [Warehouses -> Int]
        BY <3>1 DEF LooseTx
      <4>2. \A w \in Warehouses : tx[c].left[w] >= 0
        BY DEF LayersCover, Covered
      <4> QED
        BY <4>1, <4>2
    <3> QED
      BY <3>1, <3>2 DEF LooseTx, Transaction
  <2>3. tx \in [Connections -> Transaction]
    BY <2>2 DEF LocksHold, Shape
  <2> QED
    BY <2>1, <2>3 DEF LocksHold, Shape, LayersCover, TypeOK
<1>3. LocksHold /\ LayersCover /\ LockOrder /\ handled \in 0..MaxRequests => LocksSuffice
  BY <1>1, <1>2, OrderUncrosses DEF LocksSuffice
<1> QED
  BY <1>3, LocksInductive, CoverInductive, OrderInductive, HandledBounded, PTL DEF Spec

=============================================================================
