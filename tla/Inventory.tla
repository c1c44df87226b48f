------------------------------ MODULE Inventory ------------------------------
(***************************************************************************)
(* The stock postings of backend/src/services/inventoryService.js and the  *)
(* approval flow of warehouseTransferService.js, statement by statement.   *)
(*                                                                         *)
(* Every posting runs in a READ COMMITTED transaction that takes row locks *)
(* as it goes (SELECT .. FOR UPDATE) and keeps them to the end.  Two kinds *)
(* of rows are locked: the product_stock row of a warehouse, and its open  *)
(* cost layers (product_stock_entries with remaining_quantity > 0).  A     *)
(* transaction is the list of statements it has still to execute; each     *)
(* statement is one step, the others see its writes only after COMMIT.     *)
(*                                                                         *)
(* One product; quantities are in base units.  Layers do not expire here,  *)
(* and those of a warehouse are added up.                                  *)
(***************************************************************************)
EXTENDS Integers, Sequences, FiniteSets

CONSTANTS
    Warehouses,     \* warehouse ids: locks are taken in their order
    Connections,    \* pooled connections, each with at most one transaction
    Nobody,         \* the owner of a free lock
    Transfers,      \* ids of warehouse_transfers rows
    NoTransfer,     \* the transfer of a posting that settles none
    Ops,            \* the operations the clients of this instance call
    Quantities,     \* base-unit quantities a request can ask for
    Opening,        \* quantity of every warehouse at the start
    OpeningLayers,  \* what the cost layers of a warehouse add up to
    MayOverdraw,    \* some adjustments pass allowNegative
    MaxRequests     \* bound: requests accepted over a behaviour

ASSUME InventoryAssumption ==
    /\ Warehouses \subseteq Nat /\ Warehouses # {} /\ IsFiniteSet(Warehouses)
    /\ Nobody \notin Connections
    /\ NoTransfer \notin Transfers
    /\ Quantities \subseteq Nat \ {0}
    /\ Opening \in Nat
    /\ OpeningLayers \in Nat
    /\ MayOverdraw \in BOOLEAN
    /\ MaxRequests \in Nat

VARIABLES
    stock,          \* product_stock.quantity, committed
    logged,         \* sum of the committed stock_movements
    layers,         \* sum of the committed remaining_quantity
    stockLock,      \* who holds the product_stock row
    layerLock,      \* who holds the cost layers
    transfer,       \* the warehouse_transfers rows
    tx,             \* the transaction on each connection
    handled         \* requests accepted so far, capped by MaxRequests

vars == <<stock, logged, layers, stockLock, layerLock, transfer, tx, handled>>
tables == <<stock, logged, layers, transfer>>
locks == <<stockLock, layerLock>>

\* "lock" and "change" act on a stock row, "open" locks the cost layers,
\* "legacy", "draw", "insert" and "move" write them.
Statement ==
    {s \in [do : {"lock", "change", "open", "legacy", "draw", "insert", "move"},
            at : Warehouses, to : Warehouses, qty : Int, overdraw : BOOLEAN] :
        s.overdraw /\ s.qty < 0 => MayOverdraw}

Transfer == [status : {"none", "pending", "approved", "rejected"},
             from : Warehouses, to : Warehouses, qty : Nat, moves : Nat]

\* seen and changed: the transaction's own version of the stock rows it has
\* locked, and what it logged; drawn: what it did to the layers; left: what
\* it can still draw; settles/verdict: the status it will give a transfer.
Transaction ==
    [busy : BOOLEAN, op : Ops \union {"none"}, todo : Seq(Statement),
     ready : BOOLEAN, wrote : SUBSET Warehouses,
     seen : [Warehouses -> Int], changed : [Warehouses -> Int],
     drawn : [Warehouses -> Int], left : [Warehouses -> Nat],
     settles : Transfers \union {NoTransfer}, verdict : {"approved", "rejected"}]

NoRequest == LET w == CHOOSE w \in Warehouses : TRUE
             IN  [status |-> "none", from |-> w, to |-> w, qty |-> 0, moves |-> 0]

Zeros == [w \in Warehouses |-> 0]

NoTx == [busy |-> FALSE, op |-> "none", todo |-> <<>>, ready |-> FALSE,
         wrote |-> {}, seen |-> Zeros, changed |-> Zeros, drawn |-> Zeros,
         left |-> Zeros, settles |-> NoTransfer, verdict |-> "approved"]

Do(what, w, q) == [do |-> what, at |-> w, to |-> w, qty |-> q, overdraw |-> FALSE]
Lesser(a, b) == IF a <= b THEN a ELSE b
Positive(a) == IF a < 0 THEN 0 ELSE a

-----------------------------------------------------------------------------
(* What each operation executes *)

\* applySaleStockMovement: the FIFO layers first, the stock row last.
SaleStatements(w, q) ==
    <<Do("open", w, q), Do("legacy", w, q), Do("draw", w, q), Do("change", w, -q)>>

\* restoreSaleStockMovement: a change that may not fail, and no layers.
RestoreStatements(w, q) == <<[Do("change", w, q) EXCEPT !.overdraw = TRUE]>>

\* applyPurchaseStockMovement: one new layer, then the stock row.
PurchaseStatements(w, q) == <<Do("insert", w, q), Do("change", w, q)>>

\* adjustStock: an increase adds a layer, a decrease leaves the layers alone.
IncreaseStatements(w, q) == <<Do("change", w, q), Do("insert", w, q)>>
DecreaseStatements(w, q, over) ==
    <<[Do("change", w, -q) EXCEPT !.overdraw = over]>>

\* transferStock: both stock rows locked in warehouse order, then written,
\* then the cost layers of the source, whose goods move with their cost.
TransferStatements(v, w, q) ==
    LET low == IF v < w THEN v ELSE w
        high == IF v < w THEN w ELSE v
    IN  <<Do("lock", low, 0), Do("lock", high, 0),
          Do("change", v, -q), Do("change", w, q),
          Do("open", v, q), [Do("move", v, q) EXCEPT !.to = w]>>

\* approve: the two changes, source first; the layers stay where they are.
ApproveStatements(v, w, q) == <<Do("change", v, -q), Do("change", w, q)>>

-----------------------------------------------------------------------------
(* Requests *)

Begin(c, op, todo, t, verdict) ==
    /\ op \in Ops
    /\ ~tx[c].busy
    /\ handled < MaxRequests
    /\ handled' = handled + 1
    /\ tx' = [tx EXCEPT ![c] = [NoTx EXCEPT !.busy = TRUE, !.op = op,
                    !.todo = todo, !.settles = t, !.verdict = verdict]]
    /\ UNCHANGED <<tables, locks>>

Post(c, op, todo) == Begin(c, op, todo, NoTransfer, "approved")

\* validateSaleStock reads the quantity without a lock.
BeginSale(c) ==
    \E w \in Warehouses, q \in Quantities :
        /\ q <= stock[w]
        /\ Post(c, "sale", SaleStatements(w, q))

BeginRestore(c) ==
    \E w \in Warehouses, q \in Quantities :
        Post(c, "restore", RestoreStatements(w, q))

BeginPurchase(c) ==
    \E w \in Warehouses, q \in Quantities :
        Post(c, "purchase", PurchaseStatements(w, q))

BeginAdjust(c) ==
    \E w \in Warehouses, q \in Quantities, over \in {MayOverdraw, FALSE} :
        \/ Post(c, "adjust", IncreaseStatements(w, q))
        \/ Post(c, "adjust", DecreaseStatements(w, q, over))

BeginTransfer(c) ==
    \E v, w \in Warehouses, q \in Quantities :
        /\ v # w
        /\ Post(c, "transfer", TransferStatements(v, w, q))

\* warehouseTransferService.create inserts a pending row.
RequestTransfer ==
    \E t \in Transfers, v, w \in Warehouses, q \in Quantities :
        /\ "approve" \in Ops
        /\ transfer[t].status = "none"
        /\ v # w
        /\ handled < MaxRequests
        /\ handled' = handled + 1
        /\ transfer' = [transfer EXCEPT ![t] =
                [status |-> "pending", from |-> v, to |-> w, qty |-> q, moves |-> 0]]
        /\ UNCHANGED <<stock, logged, layers, locks, tx>>

ApproveFirst(c) ==  \* mutant: the verdict is written before the goods move
    \E t \in Transfers :
        LET row == transfer[t]
        IN  /\ row.status = "pending"
            /\ "approve" \in Ops
            /\ ~tx[c].busy
            /\ handled < MaxRequests
            /\ handled' = handled + 1
            /\ tx' = [tx EXCEPT ![c] = [NoTx EXCEPT !.busy = TRUE,
                    !.op = "approve", !.settles = t, !.verdict = "approved",
                    !.todo = ApproveStatements(row.from, row.to, row.qty)]]
            /\ transfer' = [transfer EXCEPT ![t] = [row EXCEPT !.status = "approved"]]
            /\ UNCHANGED <<stock, logged, layers, locks>>

\* approve and reject read the row before, and outside, what they then do.
BeginApprove(c) ==
    \E t \in Transfers :
        /\ transfer[t].status = "pending"
        /\ Begin(c, "approve",
                 ApproveStatements(transfer[t].from, transfer[t].to, transfer[t].qty),
                 t, "approved")

BeginReject(c) ==
    \E t \in Transfers :
        /\ transfer[t].status = "pending"
        /\ Begin(c, "reject", <<>>, t, "rejected")

-----------------------------------------------------------------------------
(* Statements *)

Pending(c) == tx[c].todo # <<>>
Now(c) == Head(tx[c].todo)
Free(lock, c) == lock \in {Nobody, c}

\* The statements that start by locking the stock row of their warehouse; a
\* sale that found layers does not look at the stock row for more.
LocksRow(c) ==
    /\ Pending(c)
    /\ ~tx[c].ready
    /\ \/ Now(c).do \in {"lock", "change"}
       \/ Now(c).do = "legacy" /\ tx[c].left[Now(c).at] = 0

\* The connection's transaction after a statement, with one field changed.
Executed(c, t) ==
    tx' = [tx EXCEPT ![c] = [t EXCEPT !.todo = Tail(tx[c].todo), !.ready = FALSE]]

ReadWithoutLock(c) ==  \* mutant: SELECT without FOR UPDATE
    LET w == Now(c).at
        t == [tx[c] EXCEPT !.seen[w] = IF w \in tx[c].wrote THEN tx[c].seen[w] ELSE stock[w]]
    IN  /\ LocksRow(c)
        /\ IF Now(c).do = "lock" THEN Executed(c, t)
           ELSE tx' = [tx EXCEPT ![c] = [t EXCEPT !.ready = TRUE]]
        /\ UNCHANGED <<tables, locks, handled>>

\* lockOrCreateStockRow: waits for the row, then reads its newest version.
LockStockRow(c) ==
    LET w == Now(c).at
        t == [tx[c] EXCEPT !.seen[w] =
                IF stockLock[w] = c THEN tx[c].seen[w] ELSE stock[w]]
    IN  /\ LocksRow(c)
        /\ Free(stockLock[w], c)
        /\ stockLock' = [stockLock EXCEPT ![w] = c]
        /\ IF Now(c).do = "lock" THEN Executed(c, t)
           ELSE tx' = [tx EXCEPT ![c] = [t EXCEPT !.ready = TRUE]]
        /\ UNCHANGED <<tables, layerLock, handled>>

Short(c) ==
    /\ Now(c).do = "change"
    /\ tx[c].seen[Now(c).at] + Now(c).qty < 0
    /\ ~Now(c).overdraw

\* applyStockChangeTx: the absolute new quantity and one movement.
ChangeStock(c) ==
    LET w == Now(c).at
        q == Now(c).qty
    IN  /\ Pending(c)
        /\ Now(c).do = "change"
        /\ tx[c].ready
        /\ ~Short(c)
        /\ Executed(c, [tx[c] EXCEPT
                !.seen[w] = tx[c].seen[w] + q,
                !.changed[w] = tx[c].changed[w] + q,
                !.wrote = tx[c].wrote \union {w}])
        /\ UNCHANGED <<tables, locks, handled>>

OpenUnlocked(c) ==  \* mutant: SELECT without FOR UPDATE
    /\ Pending(c)
    /\ Now(c).do = "open"
    /\ Executed(c, [tx[c] EXCEPT !.left[Now(c).at] = layers[Now(c).at]])
    /\ UNCHANGED <<tables, locks, handled>>

\* SELECT the open layers FOR UPDATE: nothing to lock where there are none.
OpenLayers(c) ==
    LET w == Now(c).at
    IN  /\ Pending(c)
        /\ Now(c).do = "open"
        /\ layers[w] > 0 => Free(layerLock[w], c)
        /\ layerLock' = IF layers[w] > 0
                          THEN [layerLock EXCEPT ![w] = c] ELSE layerLock
        /\ Executed(c, [tx[c] EXCEPT !.left[w] = layers[w]])
        /\ UNCHANGED <<tables, stockLock, handled>>

\* A sale without layers turns the quantity of the locked stock row into
\* one, and reads the layers again (with those committed while it waited).
SeedLayer(c) ==
    LET w == Now(c).at
        seed == Positive(tx[c].seen[w])
    IN  /\ Pending(c)
        /\ Now(c).do = "legacy"
        /\ tx[c].ready \/ tx[c].left[w] > 0
        /\ IF tx[c].left[w] > 0 \/ seed = 0
             THEN Executed(c, tx[c]) /\ UNCHANGED layerLock
             ELSE /\ layers[w] > 0 => Free(layerLock[w], c)
                  /\ layerLock' = IF layers[w] > 0
                                    THEN [layerLock EXCEPT ![w] = c] ELSE layerLock
                  /\ Executed(c, [tx[c] EXCEPT
                        !.left[w] = layers[w] + seed,
                        !.drawn[w] = tx[c].drawn[w] + seed])
        /\ UNCHANGED <<tables, stockLock, handled>>

\* The layers give what they have; a depleted layer is made up for the rest.
DrawLayers(c) ==
    LET w == Now(c).at
        take == Lesser(Now(c).qty, tx[c].left[w])
    IN  /\ Pending(c)
        /\ Now(c).do = "draw"
        /\ Executed(c, [tx[c] EXCEPT
                !.drawn[w] = tx[c].drawn[w] - take,
                !.left[w] = tx[c].left[w] - take])
        /\ UNCHANGED <<tables, locks, handled>>

InsertLayer(c) ==
    LET w == Now(c).at
    IN  /\ Pending(c)
        /\ Now(c).do = "insert"
        /\ Executed(c, [tx[c] EXCEPT !.drawn[w] = tx[c].drawn[w] + Now(c).qty])
        /\ UNCHANGED <<tables, locks, handled>>

\* moveStockEntriesTx: fails when the layers hold less than the transfer.
Uncovered(c) == Now(c).do = "move" /\ tx[c].left[Now(c).at] < Now(c).qty

MoveLayers(c) ==
    LET s == Now(c)
    IN  /\ Pending(c)
        /\ s.do = "move"
        /\ ~Uncovered(c)
        /\ Executed(c, [tx[c] EXCEPT
                !.drawn[s.at] = tx[c].drawn[s.at] - s.qty,
                !.drawn[s.to] = tx[c].drawn[s.to] + s.qty,
                !.left[s.at] = tx[c].left[s.at] - s.qty])
        /\ UNCHANGED <<tables, locks, handled>>

-----------------------------------------------------------------------------
(* COMMIT and ROLLBACK *)

Unlocked(lock, c) == [w \in Warehouses |-> IF lock[w] = c THEN Nobody ELSE lock[w]]

Leave(c) ==
    /\ tx' = [tx EXCEPT ![c] = NoTx]
    /\ stockLock' = Unlocked(stockLock, c)
    /\ layerLock' = Unlocked(layerLock, c)
    /\ UNCHANGED handled

\* The settling UPDATE of approve and reject has no guard on the status.
Settled(t) ==
    LET row == transfer[t.settles]
    IN  IF t.settles = NoTransfer THEN transfer
        ELSE [transfer EXCEPT ![t.settles] =
                [row EXCEPT !.status = t.verdict,
                            !.moves = row.moves + (IF t.verdict = "approved" THEN 1 ELSE 0)]]

Commit(c) ==
    LET t == tx[c]
    IN  /\ t.busy
        /\ t.todo = <<>>
        /\ stock' = [w \in Warehouses |-> IF w \in t.wrote THEN t.seen[w] ELSE stock[w]]
        /\ logged' = [w \in Warehouses |-> logged[w] + t.changed[w]]
        /\ layers' = [w \in Warehouses |-> layers[w] + t.drawn[w]]
        /\ transfer' = Settled(t)
        /\ Leave(c)

LeaveLocked(c) ==  \* mutant: a failed callback returns its client without ROLLBACK
    /\ tx' = [tx EXCEPT ![c] = NoTx]
    /\ UNCHANGED <<locks, tables, handled>>

\* withTransaction's catch.
Rollback(c) ==
    /\ Leave(c)
    /\ UNCHANGED tables

\* A statement throws: the quantity or the layers do not suffice.
Refuse(c) ==
    /\ Pending(c)
    /\ \/ Short(c) /\ tx[c].ready
       \/ Uncovered(c)
    /\ Rollback(c)

\* A check outside this module throws, or the connection is lost.
Crash(c) == tx[c].busy /\ Rollback(c)

-----------------------------------------------------------------------------
(* PostgreSQL's deadlock detector *)

Waits(c, d) ==
    /\ c # d
    /\ Pending(c)
    /\ \/ LocksRow(c) /\ stockLock[Now(c).at] = d
       \/ /\ \/ Now(c).do = "open"
             \/ Now(c).do = "legacy" /\ tx[c].ready /\ tx[c].seen[Now(c).at] > 0
          /\ layers[Now(c).at] > 0
          /\ layerLock[Now(c).at] = d

Deadlocked(group) == group # {} /\ \A c \in group : \E d \in group : Waits(c, d)

BreakDeadlock ==
    \E group \in SUBSET Connections : \E victim \in group :
        /\ Deadlocked(group)
        /\ Rollback(victim)

-----------------------------------------------------------------------------

Init ==
    /\ stock = [w \in Warehouses |-> Opening]
    /\ logged = Zeros
    /\ layers = [w \in Warehouses |-> OpeningLayers]
    /\ stockLock = [w \in Warehouses |-> Nobody]
    /\ layerLock = [w \in Warehouses |-> Nobody]
    /\ transfer = [t \in Transfers |-> NoRequest]
    /\ tx = [c \in Connections |-> NoTx]
    /\ handled = 0

Request(c) ==
    \/ BeginSale(c) \/ BeginRestore(c) \/ BeginPurchase(c) \/ BeginAdjust(c)
    \/ BeginTransfer(c) \/ BeginApprove(c) \/ BeginReject(c)

Proceed(c) ==
    \/ LockStockRow(c) \/ ChangeStock(c)
    \/ OpenLayers(c) \/ SeedLayer(c) \/ DrawLayers(c) \/ InsertLayer(c) \/ MoveLayers(c)
    \/ Refuse(c) \/ Commit(c)

Next ==
    \/ RequestTransfer
    \/ BreakDeadlock
    \/ \E c \in Connections : Request(c) \/ Proceed(c) \/ Crash(c)

Spec == Init /\ [][Next]_vars

\* Node runs every handler to its end; PostgreSQL queues lock waiters in
\* order and looks for deadlocks (deadlock_timeout).
Fairness ==
    /\ \A c \in Connections : SF_vars(Proceed(c))
    /\ WF_vars(BreakDeadlock)

FairSpec == Spec /\ Fairness

-----------------------------------------------------------------------------

TypeOK ==
    /\ stock \in [Warehouses -> Int]
    /\ logged \in [Warehouses -> Int]
    /\ layers \in [Warehouses -> Nat]
    /\ stockLock \in [Warehouses -> Connections \union {Nobody}]
    /\ layerLock \in [Warehouses -> Connections \union {Nobody}]
    /\ transfer \in [Transfers -> Transfer]
    /\ tx \in [Connections -> Transaction]
    /\ handled \in 0..MaxRequests

\* inventoryService's header: "stock rows never diverge from the movement
\* log".  Quantities are read, added up in JavaScript and written back as
\* absolute values, yet whatever the interleaving each transaction looks
\* like one atomic posting that is refused rather than leave a warehouse
\* owing goods: the row lock is held from the read to the commit.
Ledger == INSTANCE StockLedger WITH onHand <- stock
PostsAtomically == Ledger!Spec

\* transferStock: "Deterministic lock order by warehouse id to avoid
\* deadlocks": opposite transfers never wait for each other in a circle.
TransfersNeverCross ==
    \A group \in SUBSET {c \in Connections : tx[c].op = "transfer"} :
        ~Deadlocked(group)

\* No layer is drawn twice: what the open transactions have drawn from the
\* layers of a warehouse is still there to be drawn when they commit.
LayersStillThere ==
    \A w \in Warehouses, c \in Connections : layers[w] + tx[c].drawn[w] >= 0

\* What the row locks are for: transactions neither draw the same layer nor,
\* in opposite transfers, wait for each other.
LocksSuffice == TypeOK /\ LayersStillThere /\ TransfersNeverCross

\* Locks are handed back whatever becomes of their holder, and the deadlocks
\* that do occur are broken: every transaction ends.
EveryTransactionEnds == \A c \in Connections : tx[c].busy ~> ~tx[c].busy

\* warehouseTransferService's header: "Stock is only moved when a branch
\* admin (or global admin) approves the request".  A request that is pending
\* has moved nothing and one that ends approved has moved its goods, whatever
\* decisions raced for it and were rolled back, refused or overwritten.
ApprovedHasMoved ==
    \A t \in Transfers :
        /\ transfer[t].status \in {"none", "pending"} => transfer[t].moves = 0
        /\ transfer[t].status = "approved" => transfer[t].moves > 0
=============================================================================
