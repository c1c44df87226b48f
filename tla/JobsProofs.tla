----------------------------- MODULE JobsProofs -----------------------------
(***************************************************************************)
(* Proofs about the two jobs that work off a table while staff change it:  *)
(* the notification queue (Notifications), for any rows, keys, workers,    *)
(* requests and bounds, and the recurring expenses (Recurring), for any    *)
(* runs, rules, start dates and bounds and any calendar that reaches far   *)
(* enough.  The modules do not meet; they are proved here one after the    *)
(* other.                                                                  *)
(*                                                                         *)
(* Notifications.  What a row says is what became of its message           *)
(* (SendsHold) and a key has one live message (KeysHold).  Repeats are     *)
(* counted by what is still owed: each worker that holds a row and has no  *)
(* answer for it may send it once more (Owing), so the accepted messages   *)
(* and those still owed stay within the excuses and one; when nobody holds *)
(* an unsent row, its one free send must be unused.                        *)
(*                                                                         *)
(* Recurring.  The days before a month are a recursive function; that it   *)
(* exists, and grows, goes by a smallest counterexample.  From that the    *)
(* month of a day is unique, and the dates a rule picks are shown to be    *)
(* all of them (Gap): FirstDueIsFirst and NextIsNext say that              *)
(* firstDueOnOrAfter and nextOccurrenceAfter leave out none.  The          *)
(* invariant RInv then says what each run may count on: that every earlier *)
(* date has its expense (Faithful), that in the calm the cursor is the     *)
(* date due after the last run (InStep), and that nothing after the last   *)
(* run is booked yet (NoDouble).                                           *)
(***************************************************************************)
EXTENDS Notifications, Recurring, FiniteSetTheorems, NaturalsInduction,
        WellFoundedInduction, TLAPS

-----------------------------------------------------------------------------
(* The queue *)

Present(n) == row[n].status # "absent"

\* What a worker and a request in flight may count on.
WorkerFits(w) ==
    /\ worker[w].pc = "idle" => worker[w] = Resting
    /\ \A n \in worker[w].ids : Present(n)
    /\ worker[w].pc \in {"calling", "accepted", "failed"} =>
          worker[w].at \in Rows /\ Present(worker[w].at)
    /\ worker[w].pc \in {"idle", "selected", "batch"} => worker[w].at = NoRow
    /\ \A n \in Rows : worker[w].seen[n] < MaxAttempts
    /\ worker[w].pc = "accepted" => accepted[worker[w].at] > 0

RequestFits(r) ==
    /\ req[r].op = "enqueue" => req[r].key \in Keys
    /\ req[r].op = "retry" => req[r].row \in Rows /\ Present(req[r].row)

RowFits(n) ==
    /\ Present(n) => row[n].key \in Keys
    /\ row[n].status \in {"pending", "processing"} => row[n].attempts < MaxAttempts
    /\ row[n].status = "failed" => row[n].key \in spoilt

Known ==
    /\ TypeOK
    /\ \A w \in Workers : WorkerFits(w)
    /\ \A r \in Requests : RequestFits(r)
    /\ \A n \in Rows : RowFits(n)

\* w holds n and may still send it.
Owes(w, n) == Holds(w, n) /\ ~(worker[w].pc = "accepted" /\ worker[w].at = n)
Owing(n) == {w \in Workers : Owes(w, n)}

Counted(n) ==
    /\ accepted[n] + Cardinality(Owing(n)) <= excuses[n] + 1
    /\ row[n].status # "sent" /\ (\A w \in Workers : ~Holds(w, n)) =>
          accepted[n] <= excuses[n]

Sends == SentMeansAccepted /\ \A n \in Rows : Counted(n)

Enqueues(r, k) == req[r].op = "enqueue" /\ req[r].key = k
LiveOf(n, k) == Live(n) /\ row[n].key = k

\* What two requests that read at once, or a failed row, may spoil.
Deduped(k) ==
    /\ \A m, n \in Rows : LiveOf(m, k) /\ LiveOf(n, k) => m = n
    /\ \A q, r \in Requests : Enqueues(q, k) /\ Enqueues(r, k) => q = r
    /\ \A r \in Requests, n \in Rows : ~(Enqueues(r, k) /\ LiveOf(n, k))

Dedupes == \A k \in Keys \ spoilt : Deduped(k)

IInv == Known /\ Sends /\ Dedupes

-----------------------------------------------------------------------------
(* Rows and workers by themselves *)

BoundsKnown ==
    /\ deployment \in Deployments
    /\ faults \in 0..deployment.faults
    /\ retries \in 0..deployment.retries
    /\ configures \in 0..deployment.configures

\* What every step leaves of the rows: their keys, and that they are there.
RowsMove ==
    /\ row' \in [Rows -> Row]
    /\ spoilt \subseteq spoilt' /\ spoilt' \subseteq Keys
    /\ \A n \in Rows : /\ row'[n].key = row[n].key
                       /\ row'[n].status = "absent" <=> row[n].status = "absent"
                       /\ RowFits(n)'

\* Nothing an account forgets.
CountsGrow ==
    /\ accepted' \in [Rows -> Nat] /\ excuses' \in [Rows -> Nat]
    /\ \A n \in Rows : accepted'[n] >= accepted[n] /\ excuses'[n] >= excuses[n]

LEMMA Excused ==
    ASSUME NEW S, excuses \in [Rows -> Nat], Excuse(S)
    PROVE  /\ excuses' \in [Rows -> Nat]
           /\ \A n \in Rows : excuses'[n] = IF n \in S THEN excuses[n] + 1 ELSE excuses[n]
  BY DEF Excuse

LEMMA ChannelsKnown ==
    ASSUME NEW pref \in Preferences, NEW conf \in Configurations \union {Off},
           NEW channel
    PROVE  /\ InitialChannel(pref, conf) \subseteq Channels
           /\ FallbackChannel(channel, pref, conf) \subseteq Channels
<1>1. conf.channels \subseteq Channels
  BY NotificationsAssumption DEF Off
<1> QED
  BY <1>1, NotificationsAssumption DEF InitialChannel, FallbackChannel, Channels

LEMMA RestingFits ==
    /\ Resting \in Worker
    /\ Resting.pc = "idle" /\ Resting.ids = {} /\ Resting.at = NoRow
    /\ \A n \in Rows : Resting.seen[n] < MaxAttempts
  BY NotificationsAssumption DEF Resting, Worker, Channels

\* What is left of a batch.
LEMMA Remaining ==
    ASSUME Known, NEW w \in Workers, NEW n \in Rows
    PROVE  LET t == DoneWith(w, n)
           IN  /\ t \in Worker
               /\ t.pc \in {"idle", "batch"} /\ (t.pc = "idle" => t = Resting)
               /\ t.ids = worker[w].ids \ {n} /\ t.at = NoRow
               /\ \A m \in Rows : t.seen[m] < MaxAttempts
<1> DEFINE t == DoneWith(w, n)
           left == worker[w].ids \ {n}
           batch == [worker[w] EXCEPT !.pc = "batch", !.ids = left, !.at = NoRow,
                                      !.seen[n] = 0, !.channel = "sms"]
<1>1. /\ worker[w] \in Worker /\ left \in SUBSET Rows
      /\ worker[w].seen \in [Rows -> 0..MaxAttempts]
      /\ \A m \in Rows : worker[w].seen[m] < MaxAttempts
  BY DEF Known, TypeOK, WorkerFits, Worker
<1>2. CASE left = {}
  BY <1>2, RestingFits DEF DoneWith
<1>3. CASE left # {}
  <2> DEFINE seen == [worker[w].seen EXCEPT ![n] = 0]
  <2>1. /\ seen \in [Rows -> 0..MaxAttempts]
        /\ \A m \in Rows : seen[m] < MaxAttempts
    BY <1>1, NotificationsAssumption
  <2>2. t = batch
    BY <1>3 DEF DoneWith
  <2>3. batch = [worker[w] EXCEPT !.pc = "batch", !.ids = left, !.at = NoRow,
                                  !.seen = seen, !.channel = "sms"]
    BY <1>1 DEF Worker
  <2> HIDE DEF seen, left
  <2>4. /\ batch \in Worker
        /\ batch.pc = "batch" /\ batch.ids = left /\ batch.at = NoRow /\ batch.seen = seen
    BY <1>1, <2>1, <2>3 DEF Worker, Channels
  <2> HIDE DEF batch, t
  <2> QED
    BY <2>1, <2>2, <2>4 DEF t, left
<1> QED
  BY <1>2, <1>3

-----------------------------------------------------------------------------
(* The account of one row *)

One(b) == IF b THEN 1 ELSE 0

\* A step of w keeps the account of n: what it adds to the accepted messages
\* and to those owed is excused, and it lets go of an unsent row only with a
\* send to spare.  A first claim of a row nobody holds takes its free send.
Accounted(w, n) ==
    \/ /\ accepted'[n] + One(Owes(w, n)') - excuses'[n]
             <= accepted[n] + One(Owes(w, n)) - excuses[n]
       /\ row'[n].status # "sent" /\ ~Holds(w, n)' =>
             \/ accepted'[n] + 1 - excuses'[n] <= accepted[n] + One(Owes(w, n)) - excuses[n]
             \/ /\ row[n].status # "sent" /\ ~Holds(w, n)
                /\ accepted'[n] - excuses'[n] <= accepted[n] - excuses[n]
    \/ /\ row[n].status # "sent" /\ \A v \in Workers : ~Holds(v, n)
       /\ accepted'[n] = accepted[n] /\ excuses'[n] = excuses[n]
       /\ Holds(w, n)'

LEMMA AccountKept ==
    ASSUME NEW w \in Workers, NEW n \in Rows, Counted(n), Accounted(w, n),
           accepted[n] \in Nat, excuses[n] \in Nat,
           accepted'[n] \in Nat, excuses'[n] \in Nat,
           \A v \in Workers \ {w} : worker'[v] = worker[v]
    PROVE  Counted(n)'
<1>1. ASSUME NEW v \in Workers \ {w}
      PROVE  (Owes(v, n)' <=> Owes(v, n)) /\ (Holds(v, n)' <=> Holds(v, n))
  <2>1. worker'[v] = worker[v]
    OBVIOUS
  <2> QED
    BY <2>1 DEF Owes, Holds
<1> DEFINE S == Owing(n)
           T == Owing(n)'
           others == S \ {w}
<1>2. /\ IsFiniteSet(S) /\ IsFiniteSet(T) /\ IsFiniteSet(others)
      /\ Cardinality(S) \in Nat /\ Cardinality(T) \in Nat /\ Cardinality(others) \in Nat
  <2>1. S \subseteq Workers /\ T \subseteq Workers
    BY DEF Owing
  <2>2. IsFiniteSet(S) /\ IsFiniteSet(T) /\ IsFiniteSet(others)
    BY <2>1, FS_Subset, NotificationsAssumption
  <2> QED
    BY <2>2, FS_CardinalityType
<1>3. others = T \ {w}
  BY <1>1 DEF Owing
<1>4. Cardinality(S) = Cardinality(others) + One(Owes(w, n))
  <2>1. w \in S <=> Owes(w, n)
    BY DEF Owing
  <2>2. Cardinality(others) = IF w \in S THEN Cardinality(S) - 1 ELSE Cardinality(S)
    BY <1>2, FS_RemoveElement
  <2> QED
    BY <1>2, <2>1, <2>2 DEF One
<1>5. Cardinality(T) = Cardinality(others) + One(Owes(w, n)')
  <2>1. w \in T <=> Owes(w, n)'
    BY DEF Owing
  <2>2. Cardinality(others) = IF w \in T THEN Cardinality(T) - 1 ELSE Cardinality(T)
    BY <1>2, <1>3, FS_RemoveElement
  <2> QED
    BY <1>2, <2>1, <2>2 DEF One
<1>6. /\ Owes(w, n) => Holds(w, n)
      /\ (\A v \in Workers : ~Holds(v, n)) => Cardinality(S) = 0
  <2>1. (\A v \in Workers : ~Holds(v, n)) => S = {}
    BY DEF Owing, Owes
  <2> QED
    BY <2>1, FS_EmptySet DEF Owes
<1>7. /\ accepted[n] + Cardinality(S) <= excuses[n] + 1
      /\ row[n].status # "sent" /\ (\A v \in Workers : ~Holds(v, n)) =>
            accepted[n] <= excuses[n]
  BY DEF Counted
<1>8. /\ One(Owes(w, n)) \in {0, 1} /\ One(Owes(w, n)') \in {0, 1}
      /\ Owes(w, n)' => Holds(w, n)'
  BY DEF One, Owes
<1> DEFINE o == One(Owes(w, n))
           p == One(Owes(w, n)')
<1> HIDE DEF S, T, others, o, p
<1>9. /\ o \in {0, 1} /\ p \in {0, 1}
      /\ Cardinality(S) = Cardinality(others) + o
      /\ Cardinality(T) = Cardinality(others) + p
  BY <1>4, <1>5, <1>8 DEF o, p
<1>10. accepted'[n] + Cardinality(T) <= excuses'[n] + 1
  <2>1. CASE accepted'[n] + p - excuses'[n] <= accepted[n] + o - excuses[n]
    BY <1>2, <1>7, <1>9, <2>1
  <2>2. CASE /\ row[n].status # "sent" /\ \A v \in Workers : ~Holds(v, n)
             /\ accepted'[n] = accepted[n] /\ excuses'[n] = excuses[n]
    BY <1>2, <1>6, <1>7, <1>9, <2>2
  <2> QED
    BY <2>1, <2>2 DEF Accounted, o, p
<1>11. ASSUME row'[n].status # "sent", \A v \in Workers : ~Holds(v, n)'
       PROVE  accepted'[n] <= excuses'[n]
  <2>1. \A v \in Workers \ {w} : ~Holds(v, n)
    BY <1>1, <1>11
  <2>2. ~Holds(w, n)'
    BY <1>11
  <2>3. CASE accepted'[n] + 1 - excuses'[n] <= accepted[n] + o - excuses[n]
    BY <1>2, <1>7, <1>9, <2>3
  <2>4. CASE /\ row[n].status # "sent" /\ ~Holds(w, n)
             /\ accepted'[n] - excuses'[n] <= accepted[n] - excuses[n]
    <3>1. accepted[n] <= excuses[n]
      BY <1>7, <2>1, <2>4
    <3> QED
      BY <2>4, <3>1
  <2> QED
    BY <1>11, <2>2, <2>3, <2>4 DEF Accounted, o
<1> QED
  BY <1>10, <1>11 DEF Counted, T

\* A row whose account a step of w does not touch.
LEMMA NotTouched ==
    ASSUME NEW w \in Workers, NEW n \in Rows,
           accepted[n] \in Nat, excuses[n] \in Nat, excuses'[n] \in Nat,
           accepted'[n] = accepted[n], excuses'[n] >= excuses[n],
           row'[n].status # "sent" => row[n].status # "sent",
           Holds(w, n)' <=> Holds(w, n), Owes(w, n)' <=> Owes(w, n)
    PROVE  Accounted(w, n)
<1> DEFINE o == One(Owes(w, n))
           p == One(Owes(w, n)')
<1>1. o = p /\ o \in {0, 1} /\ (Owes(w, n) => Holds(w, n))
  BY DEF One, Owes
<1> HIDE DEF o, p
<1>2. accepted'[n] + p - excuses'[n] <= accepted[n] + o - excuses[n]
  BY <1>1
<1>3. accepted'[n] - excuses'[n] <= accepted[n] - excuses[n]
  OBVIOUS
<1> QED
  BY <1>2, <1>3 DEF Accounted, o, p

-----------------------------------------------------------------------------
(* A step of one worker *)

\* What the step of a worker has to show for the three parts of IInv.
LEMMA WorkerSteps ==
    ASSUME IInv, NEW w \in Workers, NEW t \in Worker,
           worker' = [worker EXCEPT ![w] = t], RowsMove, CountsGrow, BoundsKnown',
           req' = req, settings' = settings,
           t.pc = "idle" => t = Resting,
           \A n \in t.ids : Present(n),
           t.pc \in {"calling", "accepted", "failed"} => t.at \in Rows /\ Present(t.at),
           t.pc \in {"idle", "selected", "batch"} => t.at = NoRow,
           \A n \in Rows : t.seen[n] < MaxAttempts,
           t.pc = "accepted" => accepted'[t.at] > 0,
           \A n \in Rows : row'[n].status = "sent" => accepted'[n] > 0,
           \A n \in Rows : Accounted(w, n)
    PROVE  IInv'
<1>1. /\ worker \in [Workers -> Worker] /\ worker' \in [Workers -> Worker]
      /\ worker'[w] = t /\ \A v \in Workers \ {w} : worker'[v] = worker[v]
      /\ \A v \in Workers : worker[v].ids \subseteq Rows /\ worker'[v].ids \subseteq Rows
  BY DEF IInv, Known, TypeOK, Worker
<1>2. \A n \in Rows : Present(n) <=> Present(n)'
  BY DEF RowsMove, Present
<1>3. Known'
  <2>1. TypeOK'
    BY <1>1 DEF IInv, Known, TypeOK, RowsMove, CountsGrow, BoundsKnown
  <2>2. WorkerFits(w)'
    BY <1>1, <1>2 DEF WorkerFits
  <2>3. ASSUME NEW v \in Workers \ {w} PROVE WorkerFits(v)'
    <3>1. WorkerFits(v) /\ worker'[v] = worker[v] /\ worker[v].ids \subseteq Rows
      BY <1>1 DEF IInv, Known
    <3>2. worker[v].pc = "accepted" => accepted'[worker[v].at] > 0
      <4>1. ASSUME worker[v].pc = "accepted" PROVE accepted'[worker[v].at] > 0
        <5>1. worker[v].at \in Rows /\ accepted[worker[v].at] > 0
          BY <3>1, <4>1 DEF WorkerFits
        <5> DEFINE n == worker[v].at
        <5>2. /\ accepted[n] \in Nat /\ accepted'[n] \in Nat
              /\ accepted[n] > 0 /\ accepted'[n] >= accepted[n]
          BY <5>1 DEF IInv, Known, TypeOK, CountsGrow
        <5> HIDE DEF n
        <5>3. accepted'[n] > 0
          BY <5>2
        <5> QED
          BY <5>3 DEF n
      <4> QED
        BY <4>1
    <3> QED
      BY <1>2, <3>1, <3>2 DEF WorkerFits
  <2>4. ASSUME NEW r \in Requests PROVE RequestFits(r)'
    BY <1>2 DEF IInv, Known, RequestFits
  <2> QED
    BY <2>1, <2>2, <2>3, <2>4 DEF Known, RowsMove
<1>4. Sends'
  <2>1. ASSUME NEW n \in Rows PROVE Counted(n)'
    <3>1. /\ accepted[n] \in Nat /\ excuses[n] \in Nat
          /\ accepted'[n] \in Nat /\ excuses'[n] \in Nat /\ Counted(n)
      BY DEF IInv, Known, TypeOK, CountsGrow, Sends
    <3> QED
      BY <1>1, <3>1, AccountKept
  <2> QED
    BY <2>1 DEF Sends, SentMeansAccepted
<1>5. Dedupes'
  <2>1. ASSUME NEW k \in Keys \ spoilt', NEW n \in Rows, LiveOf(n, k)'
        PROVE  LiveOf(n, k)
    <3>1. /\ row'[n].key = k /\ row[n].key = k /\ k \notin spoilt
          /\ row[n].status # "absent" /\ row[n] \in Row
      BY <2>1 DEF LiveOf, Live, RowsMove, IInv, Known, TypeOK
    <3>2. row[n].status # "failed"
      BY <3>1 DEF IInv, Known, RowFits
    <3> QED
      BY <3>1, <3>2 DEF LiveOf, Live, Row
  <2>2. ASSUME NEW k \in Keys \ spoilt' PROVE Deduped(k)'
    <3>1. Deduped(k)
      BY DEF IInv, Dedupes, RowsMove
    <3>2. \A r \in Requests : Enqueues(r, k)' <=> Enqueues(r, k)
      BY DEF Enqueues
    <3>3. /\ \A m, n \in Rows : LiveOf(m, k)' /\ LiveOf(n, k)' => m = n
          /\ \A r \in Requests, n \in Rows : ~(Enqueues(r, k)' /\ LiveOf(n, k)')
      BY <2>1, <3>1, <3>2 DEF Deduped
    <3>4. \A q, r \in Requests : Enqueues(q, k)' /\ Enqueues(r, k)' => q = r
      BY <3>1, <3>2 DEF Deduped
    <3> QED
      BY <3>3, <3>4 DEF Deduped
  <2> QED
    BY <2>2 DEF Dedupes
<1> QED
  BY <1>3, <1>4, <1>5 DEF IInv

\* The parts of the tables a step leaves alone.
LEMMA Untouched ==
    ASSUME IInv
    PROVE  /\ row' = row /\ spoilt' = spoilt => RowsMove
           /\ accepted' = accepted /\ excuses' = excuses => CountsGrow
           /\ \A S : accepted' = accepted /\ Excuse(S) => CountsGrow
           /\ UNCHANGED bounds => BoundsKnown'
           /\ Fault => BoundsKnown'
<1>1. row' = row /\ spoilt' = spoilt => RowsMove
  BY DEF IInv, Known, TypeOK, RowsMove, RowFits, Present
<1>2. accepted' = accepted /\ excuses' = excuses => CountsGrow
  BY DEF IInv, Known, TypeOK, CountsGrow
<1>3. ASSUME NEW S, accepted' = accepted, Excuse(S) PROVE CountsGrow
  <2>1. accepted \in [Rows -> Nat] /\ excuses \in [Rows -> Nat]
    BY DEF IInv, Known, TypeOK
  <2> QED
    BY <1>3, <2>1, Excused DEF CountsGrow
<1>4. UNCHANGED bounds => BoundsKnown'
  BY DEF IInv, Known, TypeOK, bounds, BoundsKnown
<1>5. ASSUME Fault PROVE BoundsKnown'
  <2>1. deployment \in Deployment
    BY NotificationsAssumption DEF IInv, Known, TypeOK
  <2>2. deployment.faults \in Nat
    BY <2>1 DEF Deployment
  <2> QED
    BY <1>5, <2>2 DEF Fault, IInv, Known, TypeOK, BoundsKnown
<1> QED
  BY <1>1, <1>2, <1>3, <1>4, <1>5

\* What IInv says of one worker, and of what it has at hand.
LEMMA AtHand ==
    ASSUME IInv, NEW w \in Workers
    PROVE  /\ worker[w] \in Worker /\ WorkerFits(w)
           /\ worker[w].ids \subseteq Rows
           /\ worker[w].settings \in Configurations \union {Off}
           /\ NoRow \notin Rows
           /\ \A n \in Rows : /\ accepted[n] \in Nat /\ excuses[n] \in Nat
                              /\ row[n] \in Row
                              /\ row[n].status = "sent" => accepted[n] > 0
  BY NotificationsAssumption DEF IInv, Known, TypeOK, Worker, Sends, SentMeansAccepted

LEMMA SelectKeeps ==
    ASSUME IInv, NEW w \in Workers, Select(w)
    PROVE  IInv'
<1>1. PICK S \in SUBSET {n \in Rows : Claimable(n)} :
         /\ worker[w] = Resting
         /\ worker' = [worker EXCEPT ![w].pc = "selected", ![w].ids = S,
                                     ![w].settings = settings]
         /\ UNCHANGED <<row, settings, req, accepted, excuses, spoilt, bounds>>
  BY DEF Select
<1> DEFINE t == [worker[w] EXCEPT !.pc = "selected", !.ids = S, !.settings = settings]
<1>2. S \in SUBSET Rows /\ \A n \in S : Present(n)
  BY <1>1 DEF Claimable, Present
<1>3. /\ worker[w] \in Worker /\ worker[w].at = NoRow /\ worker[w].pc = "idle"
      /\ settings \in Configurations /\ worker \in [Workers -> Worker]
  BY <1>1, RestingFits DEF IInv, Known, TypeOK
<1>4. worker' = [worker EXCEPT ![w] = t]
  BY <1>1, <1>3
<1>5. /\ t \in Worker /\ t.pc = "selected" /\ t.ids = S /\ t.at = NoRow
      /\ t.seen = worker[w].seen
  BY <1>2, <1>3 DEF Worker
<1> HIDE DEF t
<1>6. worker'[w] = t
  BY <1>3, <1>4
<1>7. ASSUME NEW n \in Rows PROVE Accounted(w, n)
  <2>1. ~Holds(w, n) /\ ~Holds(w, n)' /\ ~Owes(w, n) /\ ~Owes(w, n)'
    BY <1>3, <1>5, <1>6, NotificationsAssumption DEF Holds, Owes
  <2> QED
    BY <1>1, <2>1, AtHand, NotTouched
<1> QED
  BY <1>1, <1>2, <1>4, <1>5, <1>7, AtHand, Untouched, WorkerSteps, RestingFits DEF WorkerFits

LEMMA ClaimKeeps ==
    ASSUME IInv, NEW w \in Workers, Claim(w)
    PROVE  IInv'
<1> DEFINE S == ClaimedOf(worker[w].ids)
           seen == [n \in Rows |-> IF n \in S THEN row[n].attempts ELSE 0]
           batch == [worker[w] EXCEPT !.pc = "batch", !.ids = S, !.seen = seen]
           t == IF S = {} THEN Resting ELSE batch
           taken == {n \in S : \E v \in Workers \ {w} : Holds(v, n)}
<1>1. /\ worker[w].pc = "selected"
      /\ row' = [n \in Rows |-> IF n \in S
                  THEN [row[n] EXCEPT !.status = "processing", !.stale = FALSE]
                  ELSE row[n]]
      /\ worker' = [worker EXCEPT ![w] = t]
      /\ Excuse(taken)
      /\ UNCHANGED <<settings, req, accepted, spoilt, bounds>>
  BY DEF Claim
<1>2. /\ S \subseteq Rows /\ worker \in [Workers -> Worker]
      /\ \A n \in S : row[n].status \in {"pending", "processing"} /\ Present(n)
  BY AtHand DEF ClaimedOf, Present, IInv, Known, TypeOK
<1>3. /\ seen \in [Rows -> 0..MaxAttempts]
      /\ \A n \in Rows : seen[n] < MaxAttempts
  <2>1. ASSUME NEW n \in Rows
        PROVE  /\ row[n].attempts \in 0..MaxAttempts
               /\ n \in S => row[n].attempts < MaxAttempts
    BY <1>2, AtHand DEF Row, IInv, Known, RowFits
  <2> QED
    BY <2>1, NotificationsAssumption
<1> HIDE DEF seen
<1>4. /\ t \in Worker /\ t.pc \in {"idle", "batch"} /\ t.ids = S /\ t.at = NoRow
      /\ (t.pc = "idle" => t = Resting) /\ \A n \in Rows : t.seen[n] < MaxAttempts
  <2>1. CASE S = {}
    BY <2>1, RestingFits
  <2>2. CASE S # {}
    <3>1. /\ batch \in Worker /\ batch.pc = "batch" /\ batch.ids = S
          /\ batch.at = NoRow /\ batch.seen = seen
      <4>1. worker[w].at = NoRow /\ worker[w] \in Worker
        BY <1>1, AtHand DEF WorkerFits
      <4> HIDE DEF S
      <4> QED
        BY <1>2, <1>3, <4>1 DEF Worker
    <3> HIDE DEF batch
    <3> QED
      BY <1>3, <2>2, <3>1
  <2> QED
    BY <2>1, <2>2
<1> HIDE DEF t
<1>5. worker'[w] = t
  BY <1>1, <1>2
<1>6. \A n \in Rows : row[n] \in Row
  BY AtHand
<1>7. ASSUME NEW n \in Rows
      PROVE  /\ row'[n] \in Row /\ row'[n].key = row[n].key
             /\ row'[n].attempts = row[n].attempts
             /\ row'[n].status = IF n \in S THEN "processing" ELSE row[n].status
  <2> DEFINE r == [row[n] EXCEPT !.status = "processing", !.stale = FALSE]
  <2>1. /\ r \in Row /\ r.key = row[n].key /\ r.attempts = row[n].attempts
        /\ r.status = "processing"
    BY <1>6 DEF Row
  <2>2. row'[n] = IF n \in S THEN r ELSE row[n]
    BY <1>1
  <2> HIDE DEF r, S
  <2> QED
    BY <1>6, <2>1, <2>2
<1>8. RowsMove
  <2>1. row' \in [Rows -> Row]
    BY <1>1, <1>7
  <2>2. spoilt \subseteq Keys /\ spoilt' = spoilt
    BY <1>1 DEF IInv, Known, TypeOK
  <2>3. ASSUME NEW n \in Rows
        PROVE  /\ row'[n].key = row[n].key
               /\ row'[n].status = "absent" <=> row[n].status = "absent"
               /\ RowFits(n)'
    <3>1. RowFits(n)
      BY DEF IInv, Known
    <3> QED
      BY <1>2, <1>7, <2>2, <3>1 DEF RowFits, Present
  <2> QED
    BY <2>1, <2>2, <2>3 DEF RowsMove
<1>9. ASSUME NEW n \in Rows
      PROVE  /\ excuses'[n] \in Nat
             /\ excuses'[n] = IF n \in taken THEN excuses[n] + 1 ELSE excuses[n]
  BY <1>1, Excused DEF IInv, Known, TypeOK
<1>10. ASSUME NEW n \in Rows PROVE Accounted(w, n)
  <2>1. ~Holds(w, n) /\ ~Owes(w, n)
    BY <1>1, AtHand, NotificationsAssumption DEF Holds, Owes, WorkerFits
  <2>2. n \notin S => ~Holds(w, n)' /\ ~Owes(w, n)'
    BY <1>4, <1>5, NotificationsAssumption DEF Holds, Owes
  <2>3. n \in S => Holds(w, n)' /\ Owes(w, n)'
    <3>1. n \in S => t.pc = "batch"
      BY <1>4, RestingFits
    <3> QED
      BY <1>4, <1>5, <3>1 DEF Holds, Owes
  <2>4. CASE n \notin S
    <3>1. /\ accepted[n] \in Nat /\ excuses[n] \in Nat /\ excuses'[n] \in Nat
          /\ accepted'[n] = accepted[n] /\ excuses'[n] >= excuses[n]
          /\ row'[n].status = row[n].status
      <4>1. accepted' = accepted
        BY <1>1
      <4> HIDE DEF S, taken
      <4> QED
        BY <1>7, <1>9, <2>4, <4>1, AtHand
    <3> QED
      BY <2>1, <2>2, <2>4, <3>1, NotTouched
  <2>5. CASE n \in S /\ n \in taken
    <3>1. accepted[n] \in Nat /\ excuses[n] \in Nat /\ accepted'[n] = accepted[n]
      BY <1>1, AtHand
    <3>2. One(Owes(w, n)) = 0 /\ One(Owes(w, n)') = 1
      BY <2>1, <2>3, <2>5 DEF One
    <3> QED
      BY <1>9, <2>3, <2>5, <3>1, <3>2 DEF Accounted
  <2>6. CASE n \in S /\ n \notin taken
    <3>1. row[n].status # "sent"
      BY <1>2, <2>6
    <3>2. \A v \in Workers : ~Holds(v, n)
      BY <2>1, <2>6
    <3> QED
      BY <1>1, <1>9, <2>3, <2>6, <3>1, <3>2 DEF Accounted
  <2> QED
    BY <2>4, <2>5, <2>6
<1>11. ASSUME NEW n \in Rows, row'[n].status = "sent" PROVE accepted'[n] > 0
  <2>1. row[n].status = "sent"
    BY <1>7, <1>11
  <2> QED
    BY <1>1, <2>1, AtHand
<1> HIDE DEF S, taken
<1> QED
  BY <1>1, <1>2, <1>4, <1>8, <1>10, <1>11, Untouched, WorkerSteps

LEMMA PickKeeps ==
    ASSUME IInv, NEW w \in Workers, Pick(w)
    PROVE  IInv'
<1>0. PICK n \in worker[w].ids :
         \E c \in InitialChannel(row[n].pref, worker[w].settings) :
            /\ worker[w].pc = "batch"
            /\ worker' = [worker EXCEPT ![w].pc = "calling", ![w].at = n,
                                        ![w].ids = @ \ {n}, ![w].channel = c]
            /\ UNCHANGED <<row, settings, req, accepted, excuses, spoilt, bounds>>
  BY DEF Pick
<1>1. PICK c \in InitialChannel(row[n].pref, worker[w].settings) :
         /\ worker[w].pc = "batch"
         /\ worker' = [worker EXCEPT ![w].pc = "calling", ![w].at = n,
                                     ![w].ids = @ \ {n}, ![w].channel = c]
         /\ UNCHANGED <<row, settings, req, accepted, excuses, spoilt, bounds>>
  BY <1>0
<1> DEFINE left == worker[w].ids \ {n}
           t == [worker[w] EXCEPT !.pc = "calling", !.at = n, !.ids = left, !.channel = c]
<1>2. /\ worker[w] \in Worker /\ worker \in [Workers -> Worker]
      /\ worker[w].ids \subseteq Rows /\ n \in Rows /\ Present(n)
      /\ worker[w].at = NoRow /\ NoRow \notin Rows
      /\ \A m \in worker[w].ids : Present(m)
      /\ \A m \in Rows : worker[w].seen[m] < MaxAttempts
  BY <1>1, AtHand DEF WorkerFits, IInv, Known, TypeOK
<1>3. c \in Channels
  BY <1>2, AtHand, ChannelsKnown DEF Row
<1>4. worker' = [worker EXCEPT ![w] = t]
  BY <1>1, <1>2
<1> HIDE DEF left
<1>5. /\ t \in Worker /\ t.pc = "calling" /\ t.ids = left /\ t.at = n
      /\ t.seen = worker[w].seen
  BY <1>2, <1>3 DEF Worker, left
<1> HIDE DEF t
<1>6. worker'[w] = t
  BY <1>2, <1>4
<1>7. ASSUME NEW m \in Rows PROVE Accounted(w, m)
  <2>1. Holds(w, m)' <=> Holds(w, m)
    BY <1>1, <1>2, <1>5, <1>6 DEF Holds, left
  <2>2. Owes(w, m)' <=> Owes(w, m)
    BY <1>1, <1>5, <1>6, <2>1 DEF Owes
  <2> QED
    BY <1>1, <2>1, <2>2, AtHand, NotTouched
<1> QED
  BY <1>1, <1>2, <1>4, <1>5, <1>7, AtHand, Untouched, WorkerSteps DEF left

\* A worker marks the row it is at, or one of its batch, and lets go of it.
LEMMA MarkKeeps ==
    ASSUME IInv, NEW w \in Workers, NEW n \in Rows, Present(n),
           NEW r \in Row, row' = [row EXCEPT ![n] = r],
           r.key = row[n].key, r.status \in {"pending", "sent", "failed"},
           r.status = "pending" => r.attempts < MaxAttempts,
           r.status = "failed" => r.key \in spoilt',
           spoilt' \in {spoilt, spoilt \union {row[n].key}},
           \/ worker[w].pc = "batch" /\ n \in worker[w].ids
           \/ worker[w].pc \in {"accepted", "failed"} /\ n = worker[w].at,
           r.status = "sent" <=> worker[w].pc = "accepted",
           worker' = [worker EXCEPT ![w] = DoneWith(w, n)],
           UNCHANGED <<settings, req, accepted, excuses, bounds>>
    PROVE  IInv'
<1> DEFINE t == DoneWith(w, n)
<1>1. /\ t \in Worker
      /\ t.pc \in {"idle", "batch"} /\ (t.pc = "idle" => t = Resting)
      /\ t.ids = worker[w].ids \ {n} /\ t.at = NoRow
      /\ \A m \in Rows : t.seen[m] < MaxAttempts
  BY Remaining DEF IInv
<1>2. worker' = [worker EXCEPT ![w] = t] /\ worker \in [Workers -> Worker]
  BY DEF IInv, Known, TypeOK
<1> HIDE DEF t
<1>3. worker'[w] = t
  BY <1>2
<1>4. \A m \in Rows : row'[m] = IF m = n THEN r ELSE row[m]
  BY DEF IInv, Known, TypeOK
<1>5. RowsMove
  <2>1. row' \in [Rows -> Row] /\ spoilt \subseteq Keys
    BY DEF IInv, Known, TypeOK
  <2>2. row[n].key \in Keys /\ \A m \in Rows : RowFits(m)
    BY DEF IInv, Known, RowFits
  <2>3. ASSUME NEW m \in Rows
        PROVE  /\ row'[m].key = row[m].key
               /\ row'[m].status = "absent" <=> row[m].status = "absent"
               /\ RowFits(m)'
    <3>1. CASE m = n
      BY <1>4, <2>2, <3>1 DEF RowFits, Present
    <3>2. CASE m # n
      <4>1. row'[m] = row[m] /\ spoilt \subseteq spoilt' /\ RowFits(m)
        BY <1>4, <2>2, <3>2
      <4> QED
        BY <4>1 DEF RowFits, Present
    <3> QED
      BY <3>1, <3>2
  <2> QED
    BY <2>1, <2>2, <2>3 DEF RowsMove
<1>6. /\ worker[w].ids \subseteq Rows /\ NoRow \notin Rows
      /\ \A m \in worker[w].ids : Present(m)
      /\ worker[w].pc = "batch" => worker[w].at = NoRow
      /\ worker[w].pc = "accepted" => accepted[worker[w].at] > 0
  BY AtHand DEF WorkerFits
<1>7. ASSUME NEW m \in Rows PROVE Accounted(w, m)
  <2>1. accepted[m] \in Nat /\ excuses[m] \in Nat
        /\ accepted'[m] = accepted[m] /\ excuses'[m] = excuses[m]
    BY AtHand
  <2>2. Holds(w, m)' <=> m \in worker[w].ids \ {n}
    BY <1>1, <1>3, <1>6, RestingFits DEF Holds
  <2>3. Owes(w, m)' <=> Holds(w, m)'
    BY <1>1, <1>3, <1>6 DEF Owes
  <2>4. CASE m = n
    <3>1. ~Holds(w, m)' /\ One(Owes(w, m)') = 0
      BY <2>2, <2>3, <2>4 DEF One
    <3>2. One(Owes(w, m)) = IF worker[w].pc = "accepted" THEN 0 ELSE 1
      BY <1>6, <2>4 DEF Holds, Owes, One
    <3>3. row'[m].status = "sent" <=> worker[w].pc = "accepted"
      BY <1>4, <2>4
    <3> QED
      BY <2>1, <3>1, <3>2, <3>3 DEF Accounted
  <2>5. CASE m # n
    <3>1. Holds(w, m) <=> m \in worker[w].ids
      BY <1>6, <2>5 DEF Holds
    <3>2. Owes(w, m) <=> Holds(w, m)
      BY <1>6, <2>5 DEF Owes
    <3>3. row'[m] = row[m]
      BY <1>4, <2>5
    <3> QED
      BY <2>1, <2>2, <2>3, <2>5, <3>1, <3>2, <3>3, NotTouched
  <2> QED
    BY <2>4, <2>5
<1>8. ASSUME NEW m \in Rows, row'[m].status = "sent" PROVE accepted'[m] > 0
  BY <1>4, <1>6, <1>8, AtHand
<1>9. CountsGrow /\ BoundsKnown'
  BY Untouched
<1> QED
  BY <1>1, <1>2, <1>5, <1>6, <1>7, <1>8, <1>9, WorkerSteps

LEMMA MarksKeep ==
    ASSUME IInv, NEW w \in Workers, FailOutright(w) \/ MarkSent(w) \/ MarkFailed(w)
    PROVE  IInv'
<1>1. /\ worker[w].ids \subseteq Rows /\ WorkerFits(w)
      /\ row \in [Rows -> Row] /\ worker[w] \in Worker
      /\ \A n \in Rows : row[n] \in Row
      /\ \A n \in Rows : worker[w].seen[n] \in 0..MaxAttempts
                         /\ worker[w].seen[n] < MaxAttempts
      /\ MaxAttempts \in Nat \ {0}
  BY AtHand, NotificationsAssumption DEF IInv, Known, TypeOK, WorkerFits, Worker
<1>2. CASE FailOutright(w)
  <2>1. PICK n \in worker[w].ids :
          /\ worker[w].pc = "batch"
          /\ row' = [row EXCEPT ![n].status = "failed", ![n].due = FALSE,
                                ![n].attempts = worker[w].seen[n] + 1]
          /\ worker' = [worker EXCEPT ![w] = DoneWith(w, n)]
          /\ spoilt' = spoilt \union {row[n].key}
          /\ UNCHANGED <<settings, req, accepted, excuses, bounds>>
    BY <1>2 DEF FailOutright
  <2> DEFINE k == worker[w].seen[n] + 1
             r == [row[n] EXCEPT !.status = "failed", !.due = FALSE, !.attempts = k]
  <2>2. n \in Rows /\ Present(n) /\ k \in 0..MaxAttempts
    BY <1>1, <2>1 DEF WorkerFits
  <2>3. row' = [row EXCEPT ![n] = r]
    BY <1>1, <2>1, <2>2
  <2> HIDE DEF k
  <2>4. r \in Row /\ r.key = row[n].key /\ r.status = "failed"
    BY <1>1, <2>2 DEF Row
  <2> HIDE DEF r
  <2> QED
    BY <2>1, <2>2, <2>3, <2>4, MarkKeeps
<1>3. CASE MarkSent(w)
  <2> DEFINE n == worker[w].at
             r == [row[n] EXCEPT !.status = "sent"]
  <2>1. /\ worker[w].pc = "accepted"
        /\ row' = [row EXCEPT ![n].status = "sent"]
        /\ worker' = [worker EXCEPT ![w] = DoneWith(w, n)]
        /\ UNCHANGED <<settings, req, accepted, excuses, spoilt, bounds>>
    BY <1>3 DEF MarkSent
  <2>2. n \in Rows /\ Present(n)
    BY <1>1, <2>1 DEF WorkerFits
  <2>3. row' = [row EXCEPT ![n] = r]
    BY <1>1, <2>1, <2>2
  <2>4. r \in Row /\ r.key = row[n].key /\ r.status = "sent"
    BY <1>1, <2>2 DEF Row
  <2> HIDE DEF r
  <2> QED
    BY <2>1, <2>2, <2>3, <2>4, MarkKeeps
<1>4. CASE MarkFailed(w)
  <2> DEFINE n == worker[w].at
             k == worker[w].seen[n] + 1
             s == StatusAfter(k)
             r == [row[n] EXCEPT !.status = s, !.attempts = k, !.due = FALSE,
                                 !.stale = FALSE]
  <2>1. /\ worker[w].pc = "failed"
        /\ row' = [row EXCEPT ![n].status = s, ![n].attempts = k,
                              ![n].due = FALSE, ![n].stale = FALSE]
        /\ spoilt' = IF s = "failed" THEN spoilt \union {row[n].key} ELSE spoilt
        /\ worker' = [worker EXCEPT ![w] = DoneWith(w, n)]
        /\ UNCHANGED <<settings, req, accepted, excuses, bounds>>
    BY <1>4 DEF MarkFailed
  <2>2. /\ n \in Rows /\ Present(n) /\ k \in 0..MaxAttempts
        /\ s \in {"pending", "failed"} /\ (s = "pending" => k < MaxAttempts)
    BY <1>1, <2>1 DEF WorkerFits, StatusAfter
  <2>3. row' = [row EXCEPT ![n] = r]
    BY <1>1, <2>1, <2>2
  <2> HIDE DEF k, s
  <2>4. r \in Row /\ r.key = row[n].key /\ r.status = s /\ r.attempts = k
    <3>1. row[n] \in Row
      BY <1>1, <2>2
    <3> HIDE DEF n
    <3>2. r \in Row
      BY <2>2, <3>1 DEF Row
    <3> QED
      BY <3>1, <3>2 DEF Row
  <2> HIDE DEF r
  <2>5. /\ spoilt' \in {spoilt, spoilt \union {row[n].key}}
        /\ r.status = "failed" => r.key \in spoilt'
    BY <2>1, <2>4
  <2> QED
    BY <2>1, <2>2, <2>3, <2>4, <2>5, MarkKeeps
<1> QED
  BY <1>2, <1>3, <1>4

-----------------------------------------------------------------------------
(* The provider's answer *)

\* What the answer does to the account of the row at hand, n.
LEMMA AnswerKeeps ==
    ASSUME IInv, NEW w \in Workers, NEW t \in Worker,
           worker' = [worker EXCEPT ![w] = t],
           worker[w].pc \in {"calling", "accepted"},
           t.pc \in {"calling", "accepted", "failed"},
           t.ids = worker[w].ids, t.at = worker[w].at, t.seen = worker[w].seen,
           CountsGrow, BoundsKnown', UNCHANGED <<row, settings, req, spoilt>>,
           \A m \in Rows \ {worker[w].at} : accepted'[m] = accepted[m],
           t.pc = "accepted" => accepted'[t.at] > 0,
           LET n == worker[w].at
           IN  accepted'[n] + One(t.pc # "accepted") - excuses'[n]
                 <= accepted[n] + One(worker[w].pc # "accepted") - excuses[n]
    PROVE  IInv'
<1> DEFINE n == worker[w].at
<1>1. /\ WorkerFits(w) /\ worker[w].ids \subseteq Rows
      /\ n \in Rows /\ Present(n)
      /\ \A m \in worker[w].ids : Present(m)
      /\ \A m \in Rows : worker[w].seen[m] < MaxAttempts
  BY AtHand DEF WorkerFits
<1>2. worker'[w] = t
  BY DEF IInv, Known, TypeOK
<1>3. ASSUME NEW m \in Rows
      PROVE  /\ accepted[m] \in Nat /\ excuses[m] \in Nat
             /\ accepted'[m] \in Nat /\ excuses'[m] \in Nat
             /\ accepted'[m] >= accepted[m] /\ excuses'[m] >= excuses[m]
             /\ row[m].status = "sent" => accepted[m] > 0
  BY AtHand DEF CountsGrow
<1>4. ASSUME NEW m \in Rows PROVE Accounted(w, m)
  <2>1. Holds(w, m)' <=> Holds(w, m)
    BY <1>2 DEF Holds
  <2>2. CASE m = n
    <3>1. Holds(w, m)
      BY <2>2 DEF Holds
    <3>2. /\ One(Owes(w, m)) = One(worker[w].pc # "accepted")
          /\ One(Owes(w, m)') = One(t.pc # "accepted")
      BY <1>2, <2>1, <2>2, <3>1 DEF Owes, One
    <3> QED
      BY <2>1, <2>2, <3>1, <3>2 DEF Accounted
  <2>3. CASE m # n
    <3>1. Owes(w, m)' <=> Owes(w, m)
      BY <1>2, <2>1, <2>3 DEF Owes
    <3>2. accepted'[m] = accepted[m]
      BY <2>3
    <3> QED
      BY <1>3, <2>1, <3>1, <3>2, NotTouched
  <2> QED
    BY <2>2, <2>3
<1>5. ASSUME NEW m \in Rows, row'[m].status = "sent" PROVE accepted'[m] > 0
  BY <1>3, <1>5
<1> QED
  BY <1>1, <1>4, <1>5, Untouched, WorkerSteps

\* One more message accepted of row n.
LEMMA OneMore ==
    ASSUME IInv, NEW n \in Rows, accepted' = [accepted EXCEPT ![n] = @ + 1],
           \/ excuses' = excuses
           \/ Excuse({n})
    PROVE  /\ CountsGrow /\ accepted'[n] = accepted[n] + 1
           /\ \A m \in Rows \ {n} : accepted'[m] = accepted[m]
<1>1. accepted \in [Rows -> Nat] /\ excuses \in [Rows -> Nat]
  BY DEF IInv, Known, TypeOK
<1>2. accepted' \in [Rows -> Nat]
      /\ \A m \in Rows : accepted'[m] = IF m = n THEN accepted[m] + 1 ELSE accepted[m]
  BY <1>1
<1>3. /\ excuses' \in [Rows -> Nat]
      /\ \A m \in Rows : excuses'[m] \in {excuses[m], excuses[m] + 1}
  BY <1>1, Excused
<1> QED
  BY <1>1, <1>2, <1>3 DEF CountsGrow

LEMMA RefusalKnown ==
    ASSUME IInv, NEW w \in Workers, worker[w].pc = "calling"
    PROVE  LET t == AfterRefusal(w)
           IN  /\ t \in Worker /\ t.pc \in {"calling", "failed"}
               /\ t.ids = worker[w].ids /\ t.at = worker[w].at
               /\ t.seen = worker[w].seen
<1> DEFINE next == FallbackChannel(worker[w].channel, row[worker[w].at].pref,
                                   worker[w].settings)
<1>1. worker[w] \in Worker /\ worker[w].at \in Rows
  BY AtHand DEF WorkerFits
<1>2. next \subseteq Channels
  BY <1>1, AtHand, ChannelsKnown DEF Row
<1> DEFINE c == CHOOSE c \in next : TRUE
<1>3. CASE next = {}
  <2>1. AfterRefusal(w) = [worker[w] EXCEPT !.pc = "failed"]
    BY <1>3 DEF AfterRefusal
  <2> QED
    BY <1>1, <2>1 DEF Worker
<1>4. CASE next # {}
  <2>1. AfterRefusal(w) = [worker[w] EXCEPT !.channel = c]
    BY <1>4 DEF AfterRefusal
  <2>2. c \in Channels
    BY <1>2, <1>4
  <2> HIDE DEF c
  <2> QED
    BY <1>1, <2>1, <2>2 DEF Worker
<1> QED
  BY <1>3, <1>4

LEMMA AnswersKeep ==
    ASSUME IInv, NEW w \in Workers,
           Accepted(w) \/ Refused(w) \/ AnswerLost(w) \/ WriteFails(w)
    PROVE  IInv'
<1> DEFINE n == worker[w].at
<1>1. /\ worker[w] \in Worker /\ WorkerFits(w)
      /\ worker[w].pc \in {"calling", "accepted"} =>
            n \in Rows /\ accepted[n] \in Nat /\ excuses[n] \in Nat
  BY AtHand DEF WorkerFits
<1>2. /\ worker \in [Workers -> Worker] /\ excuses \in [Rows -> Nat]
  BY DEF IInv, Known, TypeOK
<1>3. \A t \in Worker : One(t.pc # "accepted") = IF t.pc = "accepted" THEN 0 ELSE 1
  BY DEF One
<1>4. CASE Accepted(w)
  <2> DEFINE t == [worker[w] EXCEPT !.pc = "accepted"]
  <2>1. /\ worker[w].pc = "calling"
        /\ accepted' = [accepted EXCEPT ![n] = @ + 1]
        /\ worker' = [worker EXCEPT ![w] = t]
        /\ UNCHANGED <<row, settings, req, excuses, spoilt, bounds>>
    BY <1>2, <1>4 DEF Accepted
  <2>2. t \in Worker /\ t.pc = "accepted" /\ t.ids = worker[w].ids
        /\ t.at = worker[w].at /\ t.seen = worker[w].seen
    BY <1>1 DEF Worker
  <2> HIDE DEF t
  <2>3. /\ CountsGrow /\ BoundsKnown'
        /\ accepted'[n] = accepted[n] + 1 /\ excuses'[n] = excuses[n]
        /\ \A m \in Rows \ {n} : accepted'[m] = accepted[m]
    BY <1>1, <2>1, OneMore, Untouched
  <2>4. accepted'[n] > 0
    BY <1>1, <2>1, <2>3
  <2>5. accepted'[n] + One(t.pc # "accepted") - excuses'[n]
          <= accepted[n] + One(worker[w].pc # "accepted") - excuses[n]
    <3>1. One(t.pc # "accepted") = 0 /\ One(worker[w].pc # "accepted") = 1
      BY <1>1, <1>3, <2>1, <2>2
    <3> QED
      BY <1>1, <2>1, <2>3, <3>1
  <2> QED
    BY <2>1, <2>2, <2>3, <2>4, <2>5, AnswerKeeps
<1>5. CASE Refused(w)
  <2> DEFINE t == AfterRefusal(w)
  <2>1. /\ worker[w].pc = "calling"
        /\ worker' = [worker EXCEPT ![w] = t]
        /\ UNCHANGED <<row, settings, req, accepted, excuses, spoilt, bounds>>
    BY <1>5 DEF Refused
  <2>2. t \in Worker /\ t.pc \in {"calling", "failed"} /\ t.ids = worker[w].ids
        /\ t.at = worker[w].at /\ t.seen = worker[w].seen
    BY <2>1, RefusalKnown
  <2> HIDE DEF t
  <2>3. CountsGrow /\ BoundsKnown'
    BY <2>1, Untouched
  <2>4. accepted'[n] + One(t.pc # "accepted") - excuses'[n]
          <= accepted[n] + One(worker[w].pc # "accepted") - excuses[n]
    <3>1. One(t.pc # "accepted") = 1 /\ One(worker[w].pc # "accepted") = 1
      BY <1>1, <1>3, <2>1, <2>2
    <3> QED
      BY <1>1, <2>1, <3>1
  <2> QED
    BY <2>1, <2>2, <2>3, <2>4, AnswerKeeps
<1>6. CASE AnswerLost(w)
  <2> DEFINE t == AfterRefusal(w)
  <2>1. /\ worker[w].pc = "calling" /\ Fault
        /\ accepted' = [accepted EXCEPT ![n] = @ + 1]
        /\ worker' = [worker EXCEPT ![w] = t]
        /\ Excuse({n})
        /\ UNCHANGED <<row, settings, req, spoilt>>
    BY <1>6 DEF AnswerLost, Fault
  <2>2. t \in Worker /\ t.pc \in {"calling", "failed"} /\ t.ids = worker[w].ids
        /\ t.at = worker[w].at /\ t.seen = worker[w].seen
    BY <2>1, RefusalKnown
  <2> HIDE DEF t
  <2>3. /\ CountsGrow /\ BoundsKnown' /\ accepted'[n] = accepted[n] + 1
        /\ \A m \in Rows \ {n} : accepted'[m] = accepted[m]
    BY <1>1, <2>1, OneMore, Untouched
  <2>4. excuses'[n] = excuses[n] + 1
    BY <1>1, <1>2, <2>1, Excused
  <2>5. accepted'[n] + One(t.pc # "accepted") - excuses'[n]
          <= accepted[n] + One(worker[w].pc # "accepted") - excuses[n]
    <3>1. One(t.pc # "accepted") = 1 /\ One(worker[w].pc # "accepted") = 1
      BY <1>1, <1>3, <2>1, <2>2
    <3> QED
      BY <1>1, <2>1, <2>3, <2>4, <3>1
  <2> QED
    BY <2>1, <2>2, <2>3, <2>5, AnswerKeeps
<1>7. CASE WriteFails(w)
  <2> DEFINE t == [worker[w] EXCEPT !.pc = "failed"]
  <2>1. /\ worker[w].pc = "accepted" /\ Fault
        /\ worker' = [worker EXCEPT ![w] = t]
        /\ Excuse({n})
        /\ UNCHANGED <<row, settings, req, accepted, spoilt>>
    BY <1>2, <1>7 DEF WriteFails, Fault
  <2>2. t \in Worker /\ t.pc = "failed" /\ t.ids = worker[w].ids
        /\ t.at = worker[w].at /\ t.seen = worker[w].seen
    BY <1>1 DEF Worker
  <2> HIDE DEF t
  <2>3. CountsGrow /\ BoundsKnown' /\ accepted'[n] = accepted[n]
    BY <2>1, Untouched
  <2>4. excuses'[n] = excuses[n] + 1
    BY <1>1, <1>2, <2>1, Excused
  <2>5. accepted'[n] + One(t.pc # "accepted") - excuses'[n]
          <= accepted[n] + One(worker[w].pc # "accepted") - excuses[n]
    <3>1. One(t.pc # "accepted") = 1 /\ One(worker[w].pc # "accepted") = 0
      BY <1>1, <1>3, <2>1, <2>2
    <3> QED
      BY <1>1, <2>1, <2>3, <2>4, <3>1
  <2> QED
    BY <2>1, <2>2, <2>3, <2>5, AnswerKeeps
<1> QED
  BY <1>4, <1>5, <1>6, <1>7

LEMMA CrashKeeps ==
    ASSUME IInv, NEW w \in Workers, Crash(w)
    PROVE  IInv'
<1> DEFINE lost == {n \in Rows : worker[w].pc = "accepted" /\ worker[w].at = n}
<1>1. /\ Fault /\ accepted' = accepted /\ Excuse(lost)
      /\ worker' = [worker EXCEPT ![w] = Resting]
      /\ UNCHANGED <<row, settings, req, spoilt>>
  BY DEF Crash, Fault
<1>2. worker'[w] = Resting
  BY <1>1 DEF IInv, Known, TypeOK
<1>3. ASSUME NEW n \in Rows
      PROVE  /\ accepted[n] \in Nat /\ excuses[n] \in Nat /\ excuses'[n] \in Nat
             /\ accepted'[n] = accepted[n]
             /\ excuses'[n] = IF n \in lost THEN excuses[n] + 1 ELSE excuses[n]
  BY <1>1, Excused DEF IInv, Known, TypeOK
<1>4. ASSUME NEW n \in Rows PROVE Accounted(w, n)
  <2>1. ~Holds(w, n)' /\ ~Owes(w, n)' /\ One(Owes(w, n)') = 0
    BY <1>2, RestingFits, NotificationsAssumption DEF Holds, Owes, One
  <2>2. CASE n \in lost
    <3>1. One(Owes(w, n)) = 0
      BY <2>2 DEF Owes, One
    <3> HIDE DEF lost
    <3> QED
      BY <1>3, <2>1, <2>2, <3>1 DEF Accounted
  <2>3. CASE n \notin lost /\ Holds(w, n)
    <3>1. One(Owes(w, n)) = 1
      BY <2>3 DEF Owes, One
    <3> HIDE DEF lost
    <3> QED
      BY <1>3, <2>1, <2>3, <3>1 DEF Accounted
  <2>4. CASE n \notin lost /\ ~Holds(w, n)
    <3>1. ~Owes(w, n) /\ row'[n] = row[n]
      BY <1>1, <2>4 DEF Owes
    <3> HIDE DEF lost
    <3> QED
      BY <1>3, <2>1, <2>4, <3>1, NotTouched
  <2> QED
    BY <2>2, <2>3, <2>4
<1>5. ASSUME NEW n \in Rows, row'[n].status = "sent" PROVE accepted'[n] > 0
  BY <1>1, <1>5, AtHand
<1> QED
  BY <1>1, <1>4, <1>5, RestingFits, Untouched, WorkerSteps

-----------------------------------------------------------------------------
(* Requests, settings and time *)

\* A step that leaves the workers and what was accepted alone.
LEMMA TableSteps ==
    ASSUME IInv, worker' = worker, accepted' = accepted, CountsGrow, BoundsKnown',
           row' \in [Rows -> Row], req' \in [Requests -> Request],
           settings' \in Configurations, spoilt' \subseteq Keys,
           \A n \in Rows : Present(n) => Present(n)',
           \A n \in Rows : RowFits(n)',
           \A r \in Requests : RequestFits(r)',
           \A n \in Rows : row'[n].status = "sent" => row[n].status = "sent",
           \A n \in Rows : row[n].status = "sent" /\ row'[n].status # "sent" =>
                              excuses'[n] > excuses[n],
           \A k \in Keys \ spoilt' : Deduped(k)'
    PROVE  IInv'
<1>1. Known'
  <2>1. TypeOK'
    BY DEF IInv, Known, TypeOK, CountsGrow, BoundsKnown
  <2>2. ASSUME NEW w \in Workers PROVE WorkerFits(w)'
    BY AtHand DEF WorkerFits
  <2> QED
    BY <2>1, <2>2 DEF Known
<1>2. Sends'
  <2>1. SentMeansAccepted'
    BY DEF IInv, Sends, SentMeansAccepted
  <2>2. ASSUME NEW n \in Rows PROVE Counted(n)'
    <3>1. /\ accepted[n] \in Nat /\ excuses[n] \in Nat /\ excuses'[n] \in Nat
          /\ accepted'[n] = accepted[n] /\ excuses'[n] >= excuses[n]
      BY DEF CountsGrow, IInv, Known, TypeOK
    <3>2. /\ Owing(n)' = Owing(n)
          /\ \A w \in Workers : Holds(w, n)' <=> Holds(w, n)
      BY DEF Owing, Owes, Holds
    <3>3. Cardinality(Owing(n)) \in Nat
      <4>1. Owing(n) \subseteq Workers
        BY DEF Owing
      <4> QED
        BY <4>1, FS_Subset, FS_CardinalityType, NotificationsAssumption
    <3>4. Counted(n)
      BY DEF IInv, Sends
    <3>5. accepted'[n] + Cardinality(Owing(n)') <= excuses'[n] + 1
      BY <3>1, <3>2, <3>3, <3>4 DEF Counted
    <3>6. ASSUME row'[n].status # "sent", \A w \in Workers : ~Holds(w, n)'
          PROVE  accepted'[n] <= excuses'[n]
      <4>1. CASE row[n].status # "sent"
        <5>1. accepted[n] <= excuses[n]
          BY <3>2, <3>4, <3>6, <4>1 DEF Counted
        <5> QED
          BY <3>1, <5>1
      <4>2. CASE row[n].status = "sent"
        <5>1. excuses'[n] > excuses[n]
          BY <3>6, <4>2
        <5>2. accepted[n] + Cardinality(Owing(n)) <= excuses[n] + 1
          BY <3>4 DEF Counted
        <5> DEFINE o == Cardinality(Owing(n))
        <5> HIDE DEF o
        <5>3. o \in Nat /\ accepted[n] + o <= excuses[n] + 1
          BY <3>3, <5>2 DEF o
        <5> QED
          BY <3>1, <5>1, <5>3
      <4> QED
        BY <4>1, <4>2
    <3> QED
      BY <3>5, <3>6 DEF Counted
  <2> QED
    BY <2>1, <2>2 DEF Sends
<1> QED
  BY <1>1, <1>2 DEF IInv, Dedupes

\* What two tables say of the live rows and the enqueues of a key.
LEMMA StillDeduped ==
    ASSUME IInv, NEW k \in Keys \ spoilt,
           \A n \in Rows : LiveOf(n, k)' => LiveOf(n, k),
           \A r \in Requests : Enqueues(r, k)' => Enqueues(r, k)
    PROVE  Deduped(k)'
<1>1. Deduped(k)
  BY DEF IInv, Dedupes
<1>2. \A m, n \in Rows : LiveOf(m, k)' /\ LiveOf(n, k)' => m = n
  BY <1>1 DEF Deduped
<1>3. \A q, r \in Requests : Enqueues(q, k)' /\ Enqueues(r, k)' => q = r
  BY <1>1 DEF Deduped
<1>4. \A r \in Requests, n \in Rows : ~(Enqueues(r, k)' /\ LiveOf(n, k)')
  BY <1>1 DEF Deduped
<1> QED
  BY <1>2, <1>3, <1>4 DEF Deduped

LEMMA NoRequestKnown ==
    /\ NoRequest \in Request /\ NoRequest.op = "idle"
  BY NotificationsAssumption DEF NoRequest, Request

LEMMA BeginEnqueueKeeps ==
    ASSUME IInv, NEW r \in Requests, BeginEnqueue(r)
    PROVE  IInv'
<1>1. PICK k \in Keys, p \in Preferences :
        LET found == {n \in Rows : row[n].status # "absent" /\ row[n].key = k}
        IN  /\ req[r] = NoRequest
            /\ found # {} => \E n \in found : ~Duplicate(k, n)
            /\ req' = [req EXCEPT ![r] = [op |-> "enqueue", key |-> k, pref |-> p,
                                          row |-> NoRow]]
            /\ spoilt' = IF \E s \in Requests : req[s].op = "enqueue" /\ req[s].key = k
                         THEN spoilt \union {k} ELSE spoilt
            /\ UNCHANGED <<row, settings, worker, accepted, excuses, bounds>>
  BY DEF BeginEnqueue
<1> DEFINE q == [op |-> "enqueue", key |-> k, pref |-> p, row |-> NoRow]
<1>2. q \in Request /\ q.op = "enqueue" /\ q.key = k
  BY DEF Request
<1>3. req' = [req EXCEPT ![r] = q]
  BY <1>1
<1> HIDE DEF q
<1>4. /\ req \in [Requests -> Request] /\ req' \in [Requests -> Request]
      /\ \A s \in Requests : req'[s] = IF s = r THEN q ELSE req[s]
      /\ spoilt \subseteq spoilt' /\ spoilt' \subseteq Keys /\ row \in [Rows -> Row]
  BY <1>1, <1>2, <1>3 DEF IInv, Known, TypeOK
<1>5. ASSUME NEW n \in Rows PROVE RowFits(n)'
  BY <1>1, <1>4 DEF IInv, Known, RowFits, Present
<1>6. ASSUME NEW s \in Requests PROVE RequestFits(s)'
  BY <1>1, <1>2, <1>4 DEF IInv, Known, RequestFits, Present
<1>7. ASSUME NEW j \in Keys \ spoilt' PROVE Deduped(j)'
  <2>1. \A n \in Rows : LiveOf(n, j)' <=> LiveOf(n, j)
    BY <1>1 DEF LiveOf, Live
  <2>2. Deduped(j) /\ j \notin spoilt
    BY <1>4 DEF IInv, Dedupes
  <2>3. CASE j # k
    <3>1. \A s \in Requests : Enqueues(s, j)' => Enqueues(s, j)
      BY <1>2, <1>4, <2>3 DEF Enqueues
    <3> QED
      BY <2>1, <2>2, <3>1, StillDeduped
  <2>4. CASE j = k
    <3>1. \A s \in Requests : ~Enqueues(s, j)
      BY <1>1, <2>4 DEF Enqueues
    <3>2. \A s \in Requests : Enqueues(s, j)' => s = r
      BY <1>4, <3>1 DEF Enqueues
    <3>3. ASSUME NEW n \in Rows PROVE ~LiveOf(n, j)
      <4>1. SUFFICES ASSUME LiveOf(n, j) PROVE FALSE
        OBVIOUS
      <4>2. row[n].status # "absent" /\ row[n].key = k
        BY <2>4, <4>1 DEF LiveOf, Live
      <4>3. PICK m \in Rows : row[m].status # "absent" /\ row[m].key = k /\ ~Duplicate(k, m)
        BY <1>1, <4>2
      <4>4. row[m].status = "failed"
        BY <1>4, <4>3 DEF Duplicate, Live, Row
      <4> QED
        BY <2>2, <2>4, <4>3, <4>4 DEF IInv, Known, RowFits
    <3>4. \A n \in Rows : ~LiveOf(n, j)'
      BY <2>1, <3>3
    <3> QED
      BY <3>2, <3>4 DEF Deduped
  <2> QED
    BY <2>3, <2>4
<1>8. CountsGrow /\ BoundsKnown' /\ settings' \in Configurations
  BY <1>1, Untouched DEF IInv, Known, TypeOK
<1>9. worker' = worker /\ accepted' = accepted /\ row' = row
  BY <1>1
<1>10. \A n \in Rows : Present(n) => Present(n)'
  BY <1>9 DEF Present
<1> QED
  BY <1>4, <1>5, <1>6, <1>7, <1>8, <1>9, <1>10, TableSteps

LEMMA CommitEnqueueKeeps ==
    ASSUME IInv, NEW q \in Requests, CommitEnqueue(q)
    PROVE  IInv'
<1>1. PICK n \in deployment.rows :
        /\ req[q].op = "enqueue" /\ row[n].status = "absent"
        /\ row' = [row EXCEPT ![n] = [status |-> "pending", key |-> req[q].key,
                                      pref |-> req[q].pref, attempts |-> 0,
                                      due |-> TRUE, stale |-> FALSE]]
        /\ req' = [req EXCEPT ![q] = NoRequest]
        /\ UNCHANGED <<settings, worker, accepted, excuses, spoilt, bounds>>
  BY DEF CommitEnqueue
<1> DEFINE r == [status |-> "pending", key |-> req[q].key, pref |-> req[q].pref,
                 attempts |-> 0, due |-> TRUE, stale |-> FALSE]
<1>2. n \in Rows
  <2>1. deployment \in Deployment
    BY NotificationsAssumption DEF IInv, Known, TypeOK
  <2> QED
    BY <2>1 DEF Deployment
<1>3. req \in [Requests -> Request] /\ req[q] \in Request /\ req[q].key \in Keys
  BY <1>1 DEF IInv, Known, TypeOK, RequestFits
<1>4. /\ r \in Row /\ r.status = "pending" /\ r.key = req[q].key
      /\ r.attempts < MaxAttempts
  BY <1>3, NotificationsAssumption DEF Row, Request
<1>5. row' = [row EXCEPT ![n] = r]
  BY <1>1
<1> HIDE DEF r
<1>6. /\ row' \in [Rows -> Row] /\ row \in [Rows -> Row]
      /\ \A m \in Rows : row'[m] = IF m = n THEN r ELSE row[m]
      /\ req' \in [Requests -> Request]
      /\ \A s \in Requests : req'[s] = IF s = q THEN NoRequest ELSE req[s]
      /\ spoilt' = spoilt /\ spoilt \subseteq Keys
  BY <1>1, <1>2, <1>3, <1>4, <1>5, NoRequestKnown DEF IInv, Known, TypeOK
<1>7. ASSUME NEW m \in Rows PROVE RowFits(m)' /\ (Present(m) => Present(m)')
  <2>1. RowFits(m)
    BY DEF IInv, Known
  <2> QED
    BY <1>3, <1>4, <1>6, <2>1 DEF RowFits, Present
<1>8. ASSUME NEW s \in Requests PROVE RequestFits(s)'
  <2>1. RequestFits(s)
    BY DEF IInv, Known
  <2> QED
    BY <1>6, <1>7, <2>1, NoRequestKnown DEF RequestFits
<1>9. ASSUME NEW k \in Keys \ spoilt' PROVE Deduped(k)'
  <2>1. Deduped(k)
    BY <1>6 DEF IInv, Dedupes
  <2>2. \A s \in Requests : Enqueues(s, k)' => Enqueues(s, k) /\ s # q
    BY <1>6, NoRequestKnown DEF Enqueues
  <2>3. CASE k # req[q].key
    <3>1. \A m \in Rows : LiveOf(m, k)' => LiveOf(m, k)
      BY <1>4, <1>6, <2>3 DEF LiveOf, Live
    <3> QED
      BY <1>6, <2>2, <3>1, StillDeduped
  <2>4. CASE k = req[q].key
    <3>1. Enqueues(q, k)
      BY <1>1, <2>4 DEF Enqueues
    <3>2. \A m \in Rows : ~LiveOf(m, k)
      BY <2>1, <3>1 DEF Deduped
    <3>3. \A m \in Rows : LiveOf(m, k)' => m = n
      BY <1>6, <3>2 DEF LiveOf, Live
    <3>4. \A s \in Requests : ~Enqueues(s, k)'
      BY <2>1, <2>2, <3>1 DEF Deduped
    <3> QED
      BY <3>3, <3>4 DEF Deduped
  <2> QED
    BY <2>3, <2>4
<1>10. CountsGrow /\ BoundsKnown' /\ settings' \in Configurations
  BY <1>1, Untouched DEF IInv, Known, TypeOK
<1>11. /\ worker' = worker /\ accepted' = accepted
       /\ \A m \in Rows : /\ row'[m].status = "sent" => row[m].status = "sent"
                          /\ row[m].status = "sent" => row'[m].status = "sent"
  BY <1>1, <1>4, <1>6
<1> QED
  BY <1>6, <1>7, <1>8, <1>9, <1>10, <1>11, TableSteps

LEMMA BeginRetryKeeps ==
    ASSUME IInv, NEW q \in Requests, BeginRetry(q)
    PROVE  IInv'
<1>1. PICK n \in Rows :
        /\ req[q] = NoRequest
        /\ retries < deployment.retries /\ retries' = retries + 1
        /\ row[n].status \notin {"absent", "sent"}
        /\ req' = [req EXCEPT ![q].op = "retry", ![q].row = n]
        /\ UNCHANGED <<row, settings, worker, accepted, excuses, spoilt, deployment,
                       faults, configures>>
  BY DEF BeginRetry
<1> DEFINE r == [req[q] EXCEPT !.op = "retry", !.row = n]
<1>2. /\ req \in [Requests -> Request] /\ req[q] \in Request
      /\ req' = [req EXCEPT ![q] = r]
  BY <1>1 DEF IInv, Known, TypeOK
<1>3. r \in Request /\ r.op = "retry" /\ r.row = n
  BY <1>2 DEF Request
<1> HIDE DEF r
<1>4. /\ req' \in [Requests -> Request]
      /\ \A s \in Requests : req'[s] = IF s = q THEN r ELSE req[s]
      /\ row' = row /\ spoilt' = spoilt
  BY <1>1, <1>2, <1>3
<1>5. \A m \in Rows : RowFits(m)' /\ (Present(m) <=> Present(m)')
  BY <1>4 DEF IInv, Known, RowFits, Present
<1>6. ASSUME NEW s \in Requests PROVE RequestFits(s)'
  <2>1. RequestFits(s) /\ Present(n)
    BY <1>1 DEF IInv, Known, Present
  <2> QED
    BY <1>3, <1>4, <1>5, <2>1 DEF RequestFits
<1>7. ASSUME NEW k \in Keys \ spoilt' PROVE Deduped(k)'
  <2>1. /\ \A m \in Rows : LiveOf(m, k)' => LiveOf(m, k)
        /\ \A s \in Requests : Enqueues(s, k)' => Enqueues(s, k)
    BY <1>3, <1>4 DEF LiveOf, Live, Enqueues
  <2> QED
    BY <1>4, <2>1, StillDeduped
<1>8. BoundsKnown'
  <2>1. deployment \in Deployment
    BY NotificationsAssumption DEF IInv, Known, TypeOK
  <2>2. deployment.retries \in Nat
    BY <2>1 DEF Deployment
  <2> QED
    BY <1>1, <2>2 DEF IInv, Known, TypeOK, BoundsKnown
<1>9. CountsGrow /\ settings' \in Configurations /\ spoilt' \subseteq Keys
      /\ row' \in [Rows -> Row] /\ worker' = worker /\ accepted' = accepted
  BY <1>1, Untouched DEF IInv, Known, TypeOK
<1> QED
  BY <1>4, <1>5, <1>6, <1>7, <1>8, <1>9, TableSteps

LEMMA CommitRetryKeeps ==
    ASSUME IInv, NEW q \in Requests, CommitRetry(q)
    PROVE  IInv'
<1> DEFINE n == req[q].row
           again == {m \in {n} : row[m].status = "sent" \/ \E w \in Workers : Holds(w, m)}
           r == [row[n] EXCEPT !.status = "pending", !.attempts = 0, !.due = TRUE,
                               !.stale = FALSE]
<1>1. /\ req[q].op = "retry"
      /\ row' = [row EXCEPT ![n].status = "pending", ![n].attempts = 0,
                            ![n].due = TRUE, ![n].stale = FALSE]
      /\ req' = [req EXCEPT ![q] = NoRequest]
      /\ Excuse(again)
      /\ UNCHANGED <<settings, worker, accepted, spoilt, bounds>>
  BY DEF CommitRetry
<1>2. /\ n \in Rows /\ Present(n) /\ row[n] \in Row
      /\ row \in [Rows -> Row] /\ req \in [Requests -> Request]
  BY <1>1 DEF IInv, Known, TypeOK, RequestFits
<1>3. row' = [row EXCEPT ![n] = r]
  BY <1>1, <1>2
<1>4. r \in Row /\ r.status = "pending" /\ r.key = row[n].key /\ r.attempts < MaxAttempts
  <2>1. 0 \in 0..MaxAttempts /\ 0 < MaxAttempts
    BY NotificationsAssumption
  <2> HIDE DEF n
  <2>2. r \in Row
    BY <1>2, <2>1 DEF Row
  <2> QED
    BY <1>2, <2>1, <2>2 DEF Row
<1> HIDE DEF r, n, again
<1>5. /\ row' \in [Rows -> Row]
      /\ \A m \in Rows : row'[m] = IF m = n THEN r ELSE row[m]
      /\ req' \in [Requests -> Request]
      /\ \A s \in Requests : req'[s] = IF s = q THEN NoRequest ELSE req[s]
      /\ spoilt' = spoilt /\ spoilt \subseteq Keys
  <2>1. /\ row' \in [Rows -> Row]
        /\ \A m \in Rows : row'[m] = IF m = n THEN r ELSE row[m]
    BY <1>2, <1>3, <1>4
  <2>2. /\ req' \in [Requests -> Request]
        /\ \A s \in Requests : req'[s] = IF s = q THEN NoRequest ELSE req[s]
    BY <1>1, <1>2, NoRequestKnown
  <2> QED
    BY <1>1, <2>1, <2>2 DEF IInv, Known, TypeOK
<1>6. ASSUME NEW m \in Rows PROVE RowFits(m)' /\ (Present(m) => Present(m)')
  <2>1. RowFits(m)
    BY DEF IInv, Known
  <2> QED
    BY <1>2, <1>4, <1>5, <2>1 DEF RowFits, Present
<1>7. ASSUME NEW s \in Requests PROVE RequestFits(s)'
  <2>1. RequestFits(s)
    BY DEF IInv, Known
  <2> QED
    BY <1>5, <1>6, <2>1, NoRequestKnown DEF RequestFits
<1>8. ASSUME NEW k \in Keys \ spoilt' PROVE Deduped(k)'
  <2>1. ASSUME NEW m \in Rows, LiveOf(m, k)' PROVE LiveOf(m, k)
    <3>1. row[m].key = k
      BY <1>4, <1>5, <2>1 DEF LiveOf
    <3>2. CASE m = n
      <4>1. row[m].status # "failed"
        BY <1>5, <3>1 DEF IInv, Known, RowFits
      <4> QED
        BY <1>2, <3>1, <3>2, <4>1 DEF LiveOf, Live, Row, Present
    <3>3. CASE m # n
      BY <1>5, <2>1, <3>3 DEF LiveOf, Live
    <3> QED
      BY <3>2, <3>3
  <2>2. \A s \in Requests : Enqueues(s, k)' => Enqueues(s, k)
    BY <1>5, NoRequestKnown DEF Enqueues
  <2> QED
    BY <1>5, <2>1, <2>2, StillDeduped
<1>9. ASSUME NEW m \in Rows, row[m].status = "sent", row'[m].status # "sent"
      PROVE  excuses'[m] > excuses[m]
  <2>1. m = n /\ m \in again
    BY <1>5, <1>9 DEF again
  <2>2. excuses[m] \in Nat /\ excuses'[m] = excuses[m] + 1
    BY <1>1, <2>1, Excused DEF IInv, Known, TypeOK
  <2> QED
    BY <2>2
<1>10. \A m \in Rows : row'[m].status = "sent" => row[m].status = "sent"
  BY <1>4, <1>5
<1>11. /\ CountsGrow /\ BoundsKnown' /\ settings' \in Configurations
       /\ worker' = worker /\ accepted' = accepted
  BY <1>1, Untouched DEF IInv, Known, TypeOK
<1> QED
  BY <1>5, <1>6, <1>7, <1>8, <1>9, <1>10, <1>11, TableSteps

LEMMA TimeKeeps ==
    ASSUME IInv, NEW n \in Rows, Time(n)
    PROVE  IInv'
<1>1. row \in [Rows -> Row] /\ row[n] \in Row
  BY DEF IInv, Known, TypeOK
<1>2. PICK x \in Row :
        /\ row' = [row EXCEPT ![n] = x]
        /\ x.status = row[n].status /\ x.key = row[n].key /\ x.attempts = row[n].attempts
  <2>1. CASE ComesDue(n)
    <3> DEFINE x == [row[n] EXCEPT !.due = TRUE]
    <3>1. row' = [row EXCEPT ![n] = x]
      BY <1>1, <2>1 DEF ComesDue
    <3>2. /\ x \in Row /\ x.status = row[n].status /\ x.key = row[n].key
          /\ x.attempts = row[n].attempts
      BY <1>1 DEF Row
    <3> HIDE DEF x
    <3> QED
      BY <3>1, <3>2
  <2>2. CASE LeaseExpires(n)
    <3> DEFINE x == [row[n] EXCEPT !.stale = TRUE]
    <3>1. row' = [row EXCEPT ![n] = x]
      BY <1>1, <2>2 DEF LeaseExpires
    <3>2. /\ x \in Row /\ x.status = row[n].status /\ x.key = row[n].key
          /\ x.attempts = row[n].attempts
      BY <1>1 DEF Row
    <3> HIDE DEF x
    <3> QED
      BY <3>1, <3>2
  <2> QED
    BY <2>1, <2>2 DEF Time
<1>3. UNCHANGED <<settings, worker, req, accepted, excuses, spoilt, bounds>>
  BY DEF Time, ComesDue, LeaseExpires
<1>4. ASSUME NEW m \in Rows
      PROVE  /\ row'[m].status = row[m].status /\ row'[m].key = row[m].key
             /\ row'[m].attempts = row[m].attempts
  BY <1>1, <1>2
<1>5. ASSUME NEW m \in Rows PROVE RowFits(m)' /\ (Present(m) <=> Present(m)')
  <2>1. RowFits(m)
    BY DEF IInv, Known
  <2> QED
    BY <1>3, <1>4, <2>1 DEF RowFits, Present
<1>6. ASSUME NEW s \in Requests PROVE RequestFits(s)'
  <2>1. RequestFits(s)
    BY DEF IInv, Known
  <2> QED
    BY <1>3, <1>5, <2>1 DEF RequestFits
<1>7. ASSUME NEW k \in Keys \ spoilt' PROVE Deduped(k)'
  <2>1. /\ \A m \in Rows : LiveOf(m, k)' => LiveOf(m, k)
        /\ \A s \in Requests : Enqueues(s, k)' => Enqueues(s, k)
    BY <1>3, <1>4 DEF LiveOf, Live, Enqueues
  <2> QED
    BY <1>3, <2>1, StillDeduped
<1>8. /\ CountsGrow /\ BoundsKnown' /\ settings' \in Configurations
      /\ req' \in [Requests -> Request] /\ spoilt' \subseteq Keys
  BY <1>3, Untouched DEF IInv, Known, TypeOK
<1>9. row' \in [Rows -> Row]
  BY <1>1, <1>2
<1>10. worker' = worker /\ accepted' = accepted
  BY <1>3
<1> QED
  BY <1>4, <1>5, <1>6, <1>7, <1>8, <1>9, <1>10, TableSteps

\* Changed settings, or nothing at all.
LEMMA OthersKeep ==
    ASSUME IInv, Configure \/ UNCHANGED vars
    PROVE  IInv'
<1>1. /\ UNCHANGED <<row, worker, req, accepted, excuses, spoilt>>
      /\ settings' \in Configurations
  BY DEF Configure, vars, IInv, Known, TypeOK
<1>2. BoundsKnown'
  <2>1. CASE Configure
    <3>1. deployment \in Deployment
      BY NotificationsAssumption DEF IInv, Known, TypeOK
    <3>2. deployment.configures \in Nat
      BY <3>1 DEF Deployment
    <3> QED
      BY <2>1, <3>2 DEF Configure, IInv, Known, TypeOK, BoundsKnown
  <2>2. CASE UNCHANGED vars
    BY <2>2, Untouched DEF vars, bounds
  <2> QED
    BY <2>1, <2>2
<1>3. \A n \in Rows : RowFits(n)' /\ (Present(n) <=> Present(n)')
  BY <1>1 DEF IInv, Known, RowFits, Present
<1>4. \A r \in Requests : RequestFits(r)'
  BY <1>1 DEF IInv, Known, RequestFits, Present
<1>5. ASSUME NEW k \in Keys \ spoilt' PROVE Deduped(k)'
  <2>1. /\ \A m \in Rows : LiveOf(m, k)' => LiveOf(m, k)
        /\ \A s \in Requests : Enqueues(s, k)' => Enqueues(s, k)
    BY <1>1 DEF LiveOf, Live, Enqueues
  <2> QED
    BY <1>1, <2>1, StillDeduped
<1>6. /\ CountsGrow /\ req' \in [Requests -> Request] /\ spoilt' \subseteq Keys
      /\ row' \in [Rows -> Row]
  BY <1>1, Untouched DEF IInv, Known, TypeOK
<1> QED
  BY <1>1, <1>2, <1>3, <1>4, <1>5, <1>6, TableSteps

-----------------------------------------------------------------------------

LEMMA Inductive ==
    /\ Init => IInv
    /\ IInv /\ [Next]_vars => IInv'
<1>1. ASSUME Init PROVE IInv
  <2>1. NoMessage \in Row /\ NoMessage.status = "absent"
    BY NotificationsAssumption DEF NoMessage, Row
  <2>2. \A w \in Workers : worker[w] = Resting
    BY <1>1 DEF Init
  <2>3. deployment \in Deployment
    BY <1>1, NotificationsAssumption DEF Init
  <2>4. TypeOK
    BY <1>1, <2>1, <2>3, RestingFits, NoRequestKnown DEF Init, TypeOK, Deployment
  <2>5. \A w \in Workers : WorkerFits(w)
    BY <2>2, RestingFits DEF WorkerFits
  <2>6. \A r \in Requests : RequestFits(r)
    BY <1>1, NoRequestKnown DEF Init, RequestFits
  <2>7. \A n \in Rows : RowFits(n) /\ row[n].status = "absent"
    BY <1>1, <2>1 DEF Init, RowFits, Present
  <2>8. ASSUME NEW n \in Rows PROVE Counted(n)
    <3>1. \A w \in Workers : ~Holds(w, n)
      BY <2>2, RestingFits, NotificationsAssumption DEF Holds
    <3>2. Owing(n) = {}
      BY <3>1 DEF Owing, Owes
    <3>3. Cardinality(Owing(n)) = 0
      BY <3>2, FS_EmptySet
    <3> QED
      BY <1>1, <3>3 DEF Init, Counted
  <2>9. SentMeansAccepted
    BY <2>7 DEF SentMeansAccepted
  <2>10. Dedupes
    BY <1>1, <2>7, NoRequestKnown DEF Init, Dedupes, Deduped, LiveOf, Live, Enqueues
  <2> QED
    BY <2>4, <2>5, <2>6, <2>7, <2>8, <2>9, <2>10 DEF IInv, Known, Sends
<1>2. ASSUME IInv, [Next]_vars PROVE IInv'
  <2>1. ASSUME NEW w \in Workers, Work(w) \/ Mishap(w) PROVE IInv'
    BY <1>2, <2>1, SelectKeeps, ClaimKeeps, PickKeeps, MarksKeep, AnswersKeep, CrashKeeps
       DEF Work, Mishap
  <2>2. ASSUME NEW r \in Requests, Ask(r) PROVE IInv'
    BY <1>2, <2>2, BeginEnqueueKeeps, CommitEnqueueKeeps, BeginRetryKeeps, CommitRetryKeeps
       DEF Ask
  <2>3. ASSUME NEW n \in Rows, Time(n) PROVE IInv'
    BY <1>2, <2>3, TimeKeeps
  <2>4. CASE Configure \/ UNCHANGED vars
    BY <1>2, <2>4, OthersKeep
  <2> QED
    BY <1>2, <2>1, <2>2, <2>3, <2>4 DEF Next
<1> QED
  BY <1>1, <1>2

LEMMA Always == Spec => []IInv
<1> QED
  BY Inductive, PTL DEF Spec

\* Whatever workers die, fail, lose answers or claim rows of each other, a row
\* says "sent" only of a message the provider took, and took once unless one
\* of these mishaps explains the repeat (notificationQueue.js, processOne).
THEOREM SendsHold == Spec => []SendsExplained
<1>1. IInv => SendsExplained
  <2>1. ASSUME IInv, NEW n \in Rows PROVE accepted[n] <= 1 + excuses[n]
    <3>1. Owing(n) \subseteq Workers
      BY DEF Owing
    <3> DEFINE o == Cardinality(Owing(n))
    <3>2. o \in Nat
      BY <3>1, FS_Subset, FS_CardinalityType, NotificationsAssumption
    <3>3. accepted[n] + o <= excuses[n] + 1
      BY <2>1 DEF IInv, Sends, Counted
    <3> HIDE DEF o
    <3>4. accepted[n] \in Nat /\ excuses[n] \in Nat
      BY <2>1 DEF IInv, Known, TypeOK
    <3> QED
      BY <3>2, <3>3, <3>4
  <2> QED
    BY <2>1 DEF IInv, Known, Sends, SendsExplained, RepeatsExplained
<1> QED
  BY <1>1, Always, PTL

\* createNotification keeps "skip if an identical un-failed notification
\* already exists" for every key of which no two requests read at once and no
\* row has failed.
THEOREM KeysHold == Spec => []OneLivePerKey
<1>1. IInv => OneLivePerKey
  <2>1. ASSUME IInv, NEW m \in Rows, NEW n \in Rows, m # n, Live(m), Live(n),
               row[m].key = row[n].key, row[m].key \notin spoilt
        PROVE  FALSE
    <3> DEFINE k == row[m].key
    <3>1. k \in Keys
      BY <2>1 DEF IInv, Known, RowFits, Present, Live
    <3>2. LiveOf(m, k) /\ LiveOf(n, k) /\ Deduped(k)
      BY <2>1, <3>1 DEF LiveOf, IInv, Dedupes
    <3> HIDE DEF k
    <3> QED
      BY <2>1, <3>2 DEF Deduped
  <2> QED
    BY <2>1 DEF OneLivePerKey
<1> QED
  BY <1>1, Always, PTL

-----------------------------------------------------------------------------
(* The calendar and the rules *)

LEMMA Least ==
    ASSUME NEW S \in SUBSET Nat, S # {}
    PROVE  \E n \in S : \A m \in S : n <= m
<1>1. IsWellFoundedOn(OpToRel(<, Nat), Nat)
  BY NatLessThanWellFounded
<1>2. PICK n \in S : \A m \in S : ~ (<<m, n>> \in OpToRel(<, Nat))
  BY <1>1, WFMin
<1>3. ASSUME NEW m \in S PROVE n <= m
  <2>1. ~ (<<m, n>> \in OpToRel(<, Nat))
    BY <1>2, <1>3
  <2>2. m \in Nat /\ n \in Nat
    BY <1>3
  <2>3. ~ (m < n)
    BY <2>1, <2>2 DEF OpToRel
  <2> QED
    BY <2>2, <2>3
<1> QED
  BY <1>3

L == Len(MonthLengths)

\* g numbers the days up to month k as Until does.
Numbers(g, k) ==
    /\ g \in [0..L -> Nat]
    /\ \A m \in 0..k : g[m] = IF m = 0 THEN 0 ELSE g[m - 1] + MonthLengths[m]

LEMMA LengthsTyped ==
    L \in Nat /\ \A m \in 1..L : MonthLengths[m] \in Nat /\ MonthLengths[m] >= 1
BY RecurringAssumption DEF RecurringAssumption, L

LEMMA NumbersExist == ASSUME NEW k \in 0..L PROVE \E g : Numbers(g, k)
<1> DEFINE Bad == {n \in 0..L : \A g : ~ Numbers(g, n)}
<1> SUFFICES ASSUME k \in Bad PROVE FALSE
  OBVIOUS
<1>0. L \in Nat
  BY LengthsTyped
<1>1. PICK n \in Bad : \A m \in Bad : n <= m
  <2>1. Bad \in SUBSET Nat /\ Bad # {}
    BY <1>0
  <2> HIDE DEF Bad
  <2> QED
    BY <2>1, Least
<1>2. n \in 0..L /\ \A g : ~ Numbers(g, n)
  BY <1>1
<1>3. CASE n = 0
  <2> DEFINE g == [m \in 0..L |-> 0]
  <2>1. Numbers(g, 0)
    BY <1>0 DEF Numbers
  <2> QED
    BY <1>2, <1>3, <2>1
<1>4. CASE n # 0
  <2>1. n - 1 \in 0..L /\ ~ (n <= n - 1)
    BY <1>0, <1>2, <1>4
  <2>2. n - 1 \notin Bad
    BY <1>1, <2>1
  <2>3. PICK g : Numbers(g, n - 1)
    BY <2>1, <2>2
  <2> DEFINE h == [g EXCEPT ![n] = g[n - 1] + MonthLengths[n]]
  <2>4. g[n - 1] + MonthLengths[n] \in Nat
    <3>1. g[n - 1] \in Nat
      BY <2>1, <2>3 DEF Numbers
    <3>2. MonthLengths[n] \in Nat
      BY <1>0, <1>2, <1>4, LengthsTyped
    <3> QED
      BY <3>1, <3>2
  <2>5. h \in [0..L -> Nat]
    BY <2>3, <2>4 DEF Numbers
  <2>6. ASSUME NEW m \in 0..n
        PROVE  h[m] = IF m = 0 THEN 0 ELSE h[m - 1] + MonthLengths[m]
    <3>1. CASE m = n
      <4>1. h[n] = g[n - 1] + MonthLengths[n]
        BY <1>2, <2>3 DEF Numbers
      <4>2. h[n - 1] = g[n - 1]
        BY <1>0, <1>2, <2>1, <2>3 DEF Numbers
      <4> QED
        BY <1>4, <3>1, <4>1, <4>2
    <3>2. CASE m # n
      <4>1. m \in 0..(n - 1) /\ m \in 0..L
        BY <1>0, <1>2, <2>6, <3>2
      <4>2. h[m] = g[m]
        BY <2>3, <3>2, <4>1 DEF Numbers
      <4>3. m # 0 => h[m - 1] = g[m - 1]
        <5> SUFFICES ASSUME m # 0 PROVE h[m - 1] = g[m - 1]
          OBVIOUS
        <5>1. m - 1 \in 0..L /\ m - 1 # n
          BY <1>0, <1>2, <4>1
        <5> QED
          BY <2>3, <5>1 DEF Numbers
      <4>4. g[m] = IF m = 0 THEN 0 ELSE g[m - 1] + MonthLengths[m]
        BY <2>3, <4>1 DEF Numbers
      <4> QED
        BY <4>2, <4>3, <4>4
    <3> QED
      BY <3>1, <3>2
  <2>7. Numbers(h, n)
    BY <2>5, <2>6 DEF Numbers
  <2> QED
    BY <1>2, <2>7
<1> QED
  BY <1>3, <1>4

LEMMA UntilStep == Numbers(Until, L)
<1>1. L \in Nat
  BY LengthsTyped
<1>2. PICK g : Numbers(g, L)
  BY <1>1, NumbersExist
<1>3. g = [m \in 0..L |-> IF m = 0 THEN 0 ELSE g[m - 1] + MonthLengths[m]]
  BY <1>2 DEF Numbers
<1>4. Until = [m \in 0..L |-> IF m = 0 THEN 0 ELSE Until[m - 1] + MonthLengths[m]]
  BY <1>3 DEF Until, L
<1>5. \A m \in 0..L : Until[m] = IF m = 0 THEN 0 ELSE Until[m - 1] + MonthLengths[m]
  BY <1>4
<1> DEFINE Bad == {n \in 0..L : Until[n] \notin Nat}
<1>6. Bad = {}
  <2> SUFFICES ASSUME Bad # {} PROVE FALSE
    OBVIOUS
  <2>1. PICK n \in Bad : \A m \in Bad : n <= m
    <3>1. Bad \in SUBSET Nat
      BY <1>1
    <3> HIDE DEF Bad
    <3> QED
      BY <3>1, Least
  <2>2. n \in 0..L /\ Until[n] \notin Nat
    BY <2>1
  <2>3. n # 0
    BY <1>5, <2>2
  <2>4. n - 1 \in 0..L /\ ~ (n <= n - 1)
    BY <1>1, <2>2, <2>3
  <2>5. Until[n - 1] \in Nat
    BY <2>1, <2>4
  <2>6. MonthLengths[n] \in Nat
    BY <1>1, <2>2, <2>3, LengthsTyped
  <2>7. Until[n] = Until[n - 1] + MonthLengths[n]
    BY <1>5, <2>2, <2>3
  <2> QED
    BY <2>2, <2>5, <2>6, <2>7
<1>7. Until \in [0..L -> Nat]
  BY <1>4, <1>6
<1> QED
  BY <1>5, <1>7 DEF Numbers

\* Months do not overlap.
LEMMA UntilGrows ==
    ASSUME NEW a \in 0..L, NEW b \in 0..L, a < b
    PROVE  Until[a] < Until[b]
<1> DEFINE Bad == {n \in 0..L : a < n /\ ~ (Until[a] < Until[n])}
<1>1. L \in Nat
  BY LengthsTyped
<1>2. \A m \in 0..L : Until[m] \in Nat
  BY UntilStep DEF Numbers
<1>3. Bad = {}
  <2> SUFFICES ASSUME Bad # {} PROVE FALSE
    OBVIOUS
  <2>1. PICK n \in Bad : \A m \in Bad : n <= m
    <3>1. Bad \in SUBSET Nat
      BY <1>1
    <3> HIDE DEF Bad
    <3> QED
      BY <3>1, Least
  <2>2. n \in 0..L /\ a < n /\ ~ (Until[a] < Until[n])
    BY <2>1
  <2>3. n - 1 \in 0..L /\ ~ (n <= n - 1) /\ n # 0 /\ a <= n - 1
    BY <1>1, <2>2
  <2>4. Until[n] = Until[n - 1] + MonthLengths[n]
    BY <2>2, <2>3, UntilStep DEF Numbers
  <2>5. MonthLengths[n] \in Nat /\ MonthLengths[n] >= 1
    BY <1>1, <2>2, <2>3, LengthsTyped
  <2>6. Until[a] <= Until[n - 1]
    <3>1. CASE a = n - 1
      BY <1>2, <3>1
    <3>2. CASE a # n - 1
      <4>1. a < n - 1 /\ n - 1 \notin Bad
        BY <1>1, <2>1, <2>3, <3>2
      <4>2. Until[a] < Until[n - 1]
        BY <2>3, <4>1
      <4> QED
        BY <1>2, <2>3, <4>2
    <3> QED
      BY <3>1, <3>2
  <2> QED
    BY <1>2, <2>2, <2>3, <2>4, <2>5, <2>6
<1> QED
  BY <1>3

LEMMA MonthFits ==
    ASSUME NEW d \in Days
    PROVE  /\ MonthOf(d) \in 1..L
           /\ Until[MonthOf(d) - 1] <= d /\ d < Until[MonthOf(d)]
<1>1. L \in Nat /\ \A m \in 0..L : Until[m] \in Nat
  BY LengthsTyped, UntilStep DEF Numbers
<1>2. L \in 0..L /\ Until[L] \in Nat
  BY <1>1
<1>3. d \in Nat /\ d < Until[L]
  BY <1>2 DEF Days, L
<1> DEFINE After == {n \in 0..L : d < Until[n]}
<1>4. PICK n \in After : \A m \in After : n <= m
  <2>1. After \in SUBSET Nat /\ After # {}
    BY <1>1, <1>2, <1>3
  <2> HIDE DEF After
  <2> QED
    BY <2>1, Least
<1>5. n \in 0..L /\ d < Until[n]
  BY <1>4
<1>6. n # 0
  BY <1>3, <1>5, UntilStep DEF Numbers
<1>7. n \in 1..L /\ n - 1 \in 0..L /\ ~ (n <= n - 1)
  BY <1>1, <1>5, <1>6
<1>8. Until[n - 1] <= d
  BY <1>1, <1>3, <1>4, <1>7
<1>9. n \in Months /\ Until[n - 1] <= d /\ d < Until[n]
  BY <1>5, <1>7, <1>8 DEF Months, L
<1>10. MonthOf(d) \in Months /\ Until[MonthOf(d) - 1] <= d /\ d < Until[MonthOf(d)]
  BY <1>9 DEF MonthOf
<1> QED
  BY <1>10 DEF Months, L

LEMMA MonthIsUnique ==
    ASSUME NEW d \in Days, NEW m \in 1..L, Until[m - 1] <= d, d < Until[m]
    PROVE  MonthOf(d) = m
<1> DEFINE n == MonthOf(d)
<1>1. n \in 1..L /\ Until[n - 1] <= d /\ d < Until[n]
  BY MonthFits
<1> HIDE DEF n
<1>2. L \in Nat /\ \A k \in 0..L : Until[k] \in Nat
  BY LengthsTyped, UntilStep DEF Numbers
<1>3. d \in Nat
  BY <1>2 DEF Days
<1>4. ~ (n < m)
  <2> SUFFICES ASSUME n < m PROVE FALSE
    OBVIOUS
  <2>1. n \in 0..L /\ m - 1 \in 0..L /\ n <= m - 1
    BY <1>1, <1>2
  <2>2. Until[n] <= Until[m - 1]
    BY <1>2, <2>1, UntilGrows
  <2> QED
    BY <1>1, <1>2, <1>3, <2>1, <2>2
<1>5. ~ (m < n)
  <2> SUFFICES ASSUME m < n PROVE FALSE
    OBVIOUS
  <2>1. m \in 0..L /\ n - 1 \in 0..L /\ m <= n - 1
    BY <1>1, <1>2
  <2>2. Until[m] <= Until[n - 1]
    BY <1>2, <2>1, UntilGrows
  <2> QED
    BY <1>1, <1>2, <1>3, <2>1, <2>2
<1>6. n = m
  BY <1>1, <1>2, <1>4, <1>5
<1> QED
  BY <1>6 DEF n

\* The day of a month that a rule names lies in that month, whose last day
\* stands in for a day it does not have.
LEMMA OccurrenceInMonth ==
    ASSUME NEW m \in 1..L, NEW dom \in Nat, dom >= 1
    PROVE  /\ MonthlyOccurrence(m, dom) \in Days
           /\ MonthOf(MonthlyOccurrence(m, dom)) = m
           /\ MonthlyOccurrence(m, dom) - Until[m - 1] + 1
                = Lesser(dom, MonthLengths[m])
<1> DEFINE d == MonthlyOccurrence(m, dom)
           u == Until[m - 1]
           v == Until[m]
           l == MonthLengths[m]
<1>1. L \in Nat /\ m - 1 \in 0..L /\ m \in 0..L /\ L \in 0..L /\ m # 0
  BY LengthsTyped
<1>2. u \in Nat /\ v \in Nat /\ Until[L] \in Nat
  BY <1>1, UntilStep DEF Numbers
<1>3. l \in Nat /\ l >= 1
  BY LengthsTyped
<1>4. v = u + l
  BY <1>1, UntilStep DEF Numbers
<1>5. v <= Until[L]
  <2>1. CASE m = L
    BY <1>2, <2>1
  <2>2. CASE m # L
    <3>1. m < L
      BY <1>1, <2>2
    <3> QED
      BY <1>1, <1>2, <3>1, UntilGrows
  <2> QED
    BY <2>1, <2>2
<1>6. d = u + Lesser(dom, l) - 1
  BY DEF MonthlyOccurrence
<1> HIDE DEF d, u, v, l
<1> DEFINE q == Lesser(dom, l)
           end == Until[L]
<1>7. q \in Nat /\ 1 <= q /\ q <= l
  BY <1>3 DEF Lesser
<1> HIDE DEF q, end
<1>8. d = u + q - 1 /\ v <= end /\ end \in Nat
  BY <1>2, <1>5, <1>6 DEF q, end
<1>9. d \in Nat /\ u <= d /\ d < v /\ d < end /\ d - u + 1 = q
  BY <1>2, <1>3, <1>4, <1>7, <1>8
<1>10. d \in Days
  BY <1>8, <1>9 DEF Days, L, end
<1>11. MonthOf(d) = m
  BY <1>9, <1>10, MonthIsUnique DEF u, v
<1> QED
  BY <1>9, <1>10, <1>11 DEF d, u, l, q

\* A day in the calendar is told by its month and its number in it.
LEMMA SameDay ==
    ASSUME NEW d \in Days, NEW dom \in Nat, dom >= 1,
           d - Until[MonthOf(d) - 1] + 1 = Lesser(dom, MonthLengths[MonthOf(d)])
    PROVE  d = MonthlyOccurrence(MonthOf(d), dom)
<1> DEFINE m == MonthOf(d)
           u == Until[m - 1]
           l == MonthLengths[m]
<1>1. m \in 1..L
  BY MonthFits
<1>2. L \in Nat /\ m - 1 \in 0..L
  BY <1>1, LengthsTyped
<1>3. u \in Nat /\ l \in Nat
  BY <1>1, <1>2, LengthsTyped, UntilStep DEF Numbers
<1>4. d \in Nat
  <2>1. L \in 0..L /\ Until[L] \in Nat
    BY <1>2, UntilStep DEF Numbers
  <2> QED
    BY <2>1 DEF Days, L
<1>5. MonthlyOccurrence(m, dom) = u + Lesser(dom, l) - 1
  BY DEF MonthlyOccurrence
<1>6. d - u + 1 = Lesser(dom, l)
  OBVIOUS
<1>7. Lesser(dom, l) \in Nat
  BY <1>3 DEF Lesser
<1> HIDE DEF m, u, l
<1>8. d = u + Lesser(dom, l) - 1
  BY <1>3, <1>4, <1>6, <1>7
<1> QED
  BY <1>5, <1>8 DEF m

\* Days of earlier months come earlier.
LEMMA MonthsInOrder ==
    ASSUME NEW c \in Days, NEW d \in Days
    PROVE  /\ MonthOf(c) < MonthOf(d) => c < d
           /\ c <= d => MonthOf(c) <= MonthOf(d)
<1> DEFINE m == MonthOf(c)
           n == MonthOf(d)
<1>1. /\ m \in 1..L /\ Until[m - 1] <= c /\ c < Until[m]
      /\ n \in 1..L /\ Until[n - 1] <= d /\ d < Until[n]
  BY MonthFits
<1> HIDE DEF m, n
<1>2. L \in Nat /\ \A k \in 0..L : Until[k] \in Nat
  BY LengthsTyped, UntilStep DEF Numbers
<1>3. c \in Nat /\ d \in Nat
  <2>1. L \in 0..L /\ Until[L] \in Nat
    BY <1>2
  <2> QED
    BY <2>1 DEF Days, L
<1>4. m < n => c < d
  <2> SUFFICES ASSUME m < n PROVE c < d
    OBVIOUS
  <2>1. m \in 0..L /\ n - 1 \in 0..L /\ m <= n - 1
    BY <1>1, <1>2
  <2>2. Until[m] <= Until[n - 1]
    BY <1>2, <2>1, UntilGrows
  <2> QED
    BY <1>1, <1>2, <1>3, <2>1, <2>2
<1>5. n < m => d < c
  <2> SUFFICES ASSUME n < m PROVE d < c
    OBVIOUS
  <2>1. n \in 0..L /\ m - 1 \in 0..L /\ n <= m - 1
    BY <1>1, <1>2
  <2>2. Until[n] <= Until[m - 1]
    BY <1>2, <2>1, UntilGrows
  <2> QED
    BY <1>1, <1>2, <1>3, <2>1, <2>2
<1>6. c <= d => m <= n
  BY <1>1, <1>2, <1>3, <1>5
<1> QED
  BY <1>4, <1>6 DEF m, n

LEMMA Divides ==
    ASSUME NEW w \in Nat \ {0}, NEW x \in Int
    PROVE  /\ x \div w \in Int /\ x % w \in 0..(w - 1)
           /\ x = w * (x \div w) + (x % w)
OBVIOUS

LEMMA MultipleOf ==
    ASSUME NEW w \in Nat \ {0}, NEW k \in Int
    PROVE  /\ k >= 1 => w * k >= w
           /\ k <= -1 => w * k <= -w
           /\ w * k \in Int
<1>1. w * k \in Int
  OBVIOUS
<1>2. ASSUME k >= 1 PROVE w * k >= w
  <2>1. w * (k - 1) >= 0
    BY <1>2
  <2>2. w * k = w * (k - 1) + w
    OBVIOUS
  <2> QED
    BY <2>1, <2>2
<1>3. ASSUME k <= -1 PROVE w * k <= -w
  <2>1. w * (-1 - k) >= 0
    BY <1>3
  <2>2. w * k = -(w * (-1 - k)) - w
    OBVIOUS
  <2> QED
    BY <2>1, <2>2
<1> QED
  BY <1>1, <1>2, <1>3

\* Quotient and remainder are the only ones.
LEMMA DivModUnique ==
    ASSUME NEW w \in Nat \ {0}, NEW k \in Int, NEW r \in 0..(w - 1)
    PROVE  (w * k + r) % w = r /\ (w * k + r) \div w = k
<1> DEFINE x == w * k + r
           q == x \div w
           s == x % w
<1>1. x \in Int
  OBVIOUS
<1>2. q \in Int /\ s \in 0..(w - 1) /\ x = w * q + s
  BY <1>1, Divides
<1>3. w * k - w * q = w * (k - q)
  BY <1>2
<1> HIDE DEF q, s
<1> DEFINE p == w * (k - q)
<1>4. p = s - r
  BY <1>2, <1>3
<1>5. ~ (k - q >= 1)
  <2> SUFFICES ASSUME k - q >= 1 PROVE FALSE
    OBVIOUS
  <2>1. p >= w /\ p \in Int
    BY <1>2, MultipleOf
  <2> HIDE DEF p
  <2> QED
    BY <1>2, <1>4, <2>1
<1>6. ~ (k - q <= -1)
  <2> SUFFICES ASSUME k - q <= -1 PROVE FALSE
    OBVIOUS
  <2>1. p <= -w /\ p \in Int
    BY <1>2, MultipleOf
  <2> HIDE DEF p
  <2> QED
    BY <1>2, <1>4, <2>1
<1>7. k = q
  BY <1>2, <1>5, <1>6
<1>8. s = r
  BY <1>2, <1>7
<1> QED
  BY <1>7, <1>8 DEF q, s
\* Days a whole number of weeks apart, and only those, are the same day of
\* the week.
LEMMA WeekLater ==
    ASSUME NEW d \in Int
    PROVE  (d + WeekLength) % WeekLength = d % WeekLength
<1> DEFINE w == WeekLength
           q == d \div w
           s == d % w
<1>1. w \in Nat \ {0}
  BY RecurringAssumption DEF RecurringAssumption
<1> HIDE DEF w
<1>2. q \in Int /\ s \in 0..(w - 1) /\ d = w * q + s
  BY <1>1, Divides
<1> HIDE DEF q, s
<1>3. d + w = w * (q + 1) + s
  BY <1>1, <1>2
<1>4. (w * (q + 1) + s) % w = s
  <2>1. q + 1 \in Int
    BY <1>2
  <2> QED
    BY <1>1, <1>2, <2>1, DivModUnique
<1> QED
  BY <1>3, <1>4 DEF w, s

LEMMA WeekBetween ==
    ASSUME NEW c \in Int, NEW d \in Int, c % WeekLength = d % WeekLength, c < d
    PROVE  d >= c + WeekLength
<1> DEFINE w == WeekLength
           q == c \div w
           p == d \div w
           s == c % w
<1>1. w \in Nat \ {0}
  BY RecurringAssumption DEF RecurringAssumption
<1> HIDE DEF w
<1>2. q \in Int /\ p \in Int /\ s \in 0..(w - 1) /\ c = w * q + s /\ d = w * p + s
  <2>1. d % w = s
    BY DEF w
  <2> QED
    BY <1>1, <2>1, Divides
<1> HIDE DEF q, p, s
<1>3. w * p - w * q = w * (p - q)
  BY <1>1, <1>2
<1> DEFINE x == w * (p - q)
<1>4. x = d - c /\ x \in Int
  BY <1>1, <1>2, <1>3
<1>5. p - q >= 1
  <2> SUFFICES ASSUME p - q <= 0 PROVE FALSE
    BY <1>2
  <2>1. CASE p - q = 0
    <3>1. x = 0
      BY <1>1, <1>2, <2>1
    <3> HIDE DEF x
    <3> QED
      BY <1>4, <3>1
  <2>2. CASE p - q <= -1
    <3>1. x <= -w
      BY <1>1, <1>2, <2>2, MultipleOf
    <3> HIDE DEF x
    <3> QED
      BY <1>1, <1>4, <3>1
  <2> QED
    BY <1>2, <2>1, <2>2
<1>6. x >= w
  BY <1>1, <1>2, <1>5, MultipleOf
<1> HIDE DEF x
<1>7. d >= c + w
  BY <1>1, <1>4, <1>6
<1> QED
  BY <1>7 DEF w

\* The next day of the week n from d on.
LEMMA WeekdayNext ==
    ASSUME NEW d \in Int, NEW n \in 0..(WeekLength - 1)
    PROVE  /\ (n - d) % WeekLength \in 0..(WeekLength - 1)
           /\ (d + ((n - d) % WeekLength)) % WeekLength = n
<1> DEFINE w == WeekLength
           q == (n - d) \div w
           s == (n - d) % w
<1>1. w \in Nat \ {0}
  BY RecurringAssumption DEF RecurringAssumption
<1> HIDE DEF w
<1>2. n \in 0..(w - 1) /\ n - d \in Int
  BY <1>1 DEF w
<1>3. q \in Int /\ s \in 0..(w - 1) /\ n - d = w * q + s
  BY <1>1, <1>2, Divides
<1> HIDE DEF q, s
<1> DEFINE x == w * q
<1>4. x \in Int
  BY <1>1, <1>3
<1>5. w * (-q) = -x
  BY <1>1, <1>3
<1>6. d + s = -x + n
  <2>1. n - d = x + s
    BY <1>3
  <2> HIDE DEF x
  <2> QED
    BY <1>2, <1>3, <1>4, <2>1
<1>7. (w * (-q) + n) % w = n
  <2>1. -q \in Int
    BY <1>3
  <2> QED
    BY <1>1, <1>2, <2>1, DivModUnique
<1>8. (d + s) % w = n
  BY <1>5, <1>6, <1>7
<1> QED
  BY <1>3, <1>8 DEF s, w

\* Months of a year.
LEMMA YearFits ==
    ASSUME NEW d \in Days
    PROVE  /\ YearOf(d) \in Nat
           /\ YearOf(d) * YearLength < MonthOf(d)
           /\ MonthOf(d) <= (YearOf(d) + 1) * YearLength
           /\ YearOf(d) * YearLength \in Nat
           /\ (YearOf(d) + 1) * YearLength = YearOf(d) * YearLength + YearLength
           /\ (YearOf(d) + 2) * YearLength = YearOf(d) * YearLength + YearLength + YearLength
           /\ MonthOf(d) = YearOf(d) * YearLength + ((MonthOf(d) - 1) % YearLength) + 1
           /\ (MonthOf(d) - 1) % YearLength \in 0..(YearLength - 1)
<1> DEFINE w == YearLength
           m == MonthOf(d)
           y == (m - 1) \div w
           s == (m - 1) % w
<1>1. w \in Nat \ {0}
  BY RecurringAssumption DEF RecurringAssumption
<1>2. m \in Nat /\ m >= 1
  BY MonthFits, LengthsTyped
<1> HIDE DEF w, m
<1>3. y \in Int /\ s \in 0..(w - 1) /\ m - 1 = w * y + s
  <2>1. m - 1 \in Int
    BY <1>2
  <2> QED
    BY <1>1, <2>1, Divides
<1> HIDE DEF y, s
<1> DEFINE x == w * y
<1>4. x \in Int /\ m - 1 = x + s
  BY <1>1, <1>3
<1>5. y >= 0
  <2> SUFFICES ASSUME y <= -1 PROVE FALSE
    BY <1>3
  <2>1. x <= -w
    BY <1>1, <1>3, MultipleOf
  <2> HIDE DEF x
  <2> QED
    BY <1>1, <1>2, <1>3, <1>4, <2>1
<1>6. x >= 0
  <2>1. CASE y = 0
    <3>1. x = 0
      BY <1>1, <2>1
    <3> QED
      BY <3>1
  <2>2. CASE y >= 1
    <3>1. x >= w
      BY <1>1, <1>3, <2>2, MultipleOf
    <3> HIDE DEF x
    <3> QED
      BY <1>1, <1>4, <3>1
  <2> QED
    BY <1>3, <1>5, <2>1, <2>2
<1>7. y * w = x /\ (y + 1) * w = x + w /\ (y + 2) * w = x + w + w
  BY <1>1, <1>3
<1> HIDE DEF x
<1>8. x < m /\ m <= x + w /\ x \in Nat /\ y \in Nat /\ m = x + s + 1
  BY <1>1, <1>2, <1>3, <1>4, <1>5, <1>6
<1>9. YearOf(d) = y
  BY DEF YearOf, y, m, w
<1> QED
  BY <1>3, <1>7, <1>8, <1>9 DEF w, m, s

LEMMA YearsInOrder ==
    ASSUME NEW c \in Days, NEW d \in Days, c <= d
    PROVE  YearOf(c) <= YearOf(d)
<1> DEFINE w == YearLength
           y == YearOf(c)
           z == YearOf(d)
           m == MonthOf(c)
           n == MonthOf(d)
<1>1. w \in Nat \ {0}
  BY RecurringAssumption DEF RecurringAssumption
<1>2. y \in Nat /\ z \in Nat /\ y * w \in Nat /\ z * w \in Nat
      /\ y * w < m /\ n <= z * w + w
  BY YearFits
<1>3. m <= n /\ m \in Nat /\ n \in Nat
  BY MonthsInOrder, MonthFits, LengthsTyped
<1> HIDE DEF w, y, z, m, n
<1>4. ~ (z < y)
  <2> SUFFICES ASSUME z < y PROVE FALSE
    OBVIOUS
  <2> DEFINE x == w * (y - z)
  <2>1. x >= w /\ x \in Int
    <3>1. y - z \in Int /\ y - z >= 1
      BY <1>2
    <3> QED
      BY <1>1, <3>1, MultipleOf
  <2>2. y * w = z * w + x
    BY <1>1, <1>2
  <2> HIDE DEF x
  <2> DEFINE p == y * w
             q == z * w
  <2>3. p \in Nat /\ q \in Nat /\ p < m /\ n <= q + w /\ p = q + x
    BY <1>2, <2>2
  <2> HIDE DEF p, q
  <2> QED
    BY <1>1, <1>3, <2>1, <2>3
<1>5. y <= z
  BY <1>2, <1>4
<1> QED
  BY <1>5 DEF y, z

-----------------------------------------------------------------------------
(* The rule *)

\* The days at which a run or an edit may start to look for the next date.
Bases == Starts \union (0..(Horizon + 1))

LEMMA BaseFits ==
    ASSUME NEW d \in Bases
    PROVE  /\ d \in Days /\ d \in Nat /\ d + WeekLength \in Days
           /\ MonthOf(d) + 1 \in 1..L
           /\ MonthOf(d) + 1 <= L
           /\ (YearOf(d) + 2) * YearLength <= L
<1>1. d + WeekLength \in Days /\ (YearOf(d) + 2) * YearLength <= L
  BY CalendarAssumption DEF Bases, L
<1>2. d \in Nat /\ WeekLength \in Nat /\ YearLength \in Nat /\ YearLength >= 1
  BY RecurringAssumption DEF RecurringAssumption, Bases
<1>3. L \in Nat /\ L \in 0..L
  BY LengthsTyped
<1>4. Until[L] \in Nat
  BY <1>3, UntilStep DEF Numbers
<1>5. d \in Days
  BY <1>1, <1>2, <1>4 DEF Days, L
<1>6. MonthOf(d) \in 1..L
  BY <1>5, MonthFits
<1>7. MonthOf(d) + 1 <= L
  <2> DEFINE x == YearOf(d) * YearLength
  <2>1. x \in Nat /\ MonthOf(d) <= x + YearLength
        /\ (YearOf(d) + 2) * YearLength = x + YearLength + YearLength
    BY <1>5, YearFits
  <2> DEFINE z == (YearOf(d) + 2) * YearLength
             m == MonthOf(d)
  <2>2. z <= L /\ m \in Nat /\ m <= x + YearLength /\ z = x + YearLength + YearLength
    BY <1>1, <1>3, <1>6, <2>1
  <2> HIDE DEF x, z, m
  <2>3. m + 1 <= L
    BY <1>2, <1>3, <2>1, <2>2
  <2> QED
    BY <2>3 DEF m
<1> QED
  BY <1>1, <1>2, <1>3, <1>5, <1>6, <1>7

LEMMA RuleFits ==
    ASSUME NEW rule \in Rules
    PROVE  /\ rule.frequency \in {"daily", "weekly", "monthly", "yearly"}
           /\ rule.on \in Nat
           /\ rule.frequency = "weekly" => rule.on \in 0..(WeekLength - 1)
           /\ rule.frequency \in {"monthly", "yearly"} => rule.on >= 1
           /\ rule.frequency = "yearly" =>
                rule.month \in Nat /\ rule.month >= 1 /\ rule.month <= YearLength
BY RecurringAssumption DEF RecurringAssumption

\* A month has one date of a monthly rule at most, and the rule finds it.
LEMMA MonthlyDate ==
    ASSUME NEW rule \in Rules, rule.frequency \in {"monthly", "yearly"},
           NEW d \in Days, Occurs(d, rule)
    PROVE  d = MonthlyOccurrence(MonthOf(d), rule.on)
<1>1. rule.on \in Nat /\ rule.on >= 1
  BY RuleFits
<1>2. d - Until[MonthOf(d) - 1] + 1 = Lesser(rule.on, MonthLengths[MonthOf(d)])
  BY DEF Occurs
<1> QED
  BY <1>1, <1>2, SameDay

LEMMA MonthlyFound ==
    ASSUME NEW rule \in Rules, rule.frequency = "monthly", NEW m \in 1..L
    PROVE  /\ MonthlyOccurrence(m, rule.on) \in Days
           /\ MonthOf(MonthlyOccurrence(m, rule.on)) = m
           /\ Occurs(MonthlyOccurrence(m, rule.on), rule)
<1>1. rule.on \in Nat /\ rule.on >= 1
  BY RuleFits
<1> DEFINE d == MonthlyOccurrence(m, rule.on)
<1>2. /\ d \in Days /\ MonthOf(d) = m
      /\ d - Until[m - 1] + 1 = Lesser(rule.on, MonthLengths[m])
  BY <1>1, OccurrenceInMonth
<1> HIDE DEF d
<1>3. Occurs(d, rule)
  BY <1>2 DEF Occurs
<1> QED
  BY <1>2, <1>3 DEF d

\* So has a year of a yearly one.
LEMMA YearlyDate ==
    ASSUME NEW rule \in Rules, rule.frequency = "yearly",
           NEW d \in Days, Occurs(d, rule)
    PROVE  d = YearlyOccurrence(YearOf(d), rule)
<1>1. d = MonthlyOccurrence(MonthOf(d), rule.on)
  BY MonthlyDate
<1>2. ((MonthOf(d) - 1) % YearLength) + 1 = rule.month
  BY DEF Occurs
<1> DEFINE x == YearOf(d) * YearLength
           s == (MonthOf(d) - 1) % YearLength
           m == MonthOf(d)
<1>3. m = x + s + 1 /\ x \in Nat /\ s \in Nat
  <2>1. m = x + s + 1 /\ x \in Nat /\ s \in 0..(YearLength - 1)
    BY YearFits
  <2> HIDE DEF x, s, m
  <2> QED
    BY <2>1
<1>4. s + 1 = rule.month
  BY <1>2
<1> HIDE DEF x, s, m
<1>5. m = x + rule.month
  BY <1>3, <1>4
<1> QED
  BY <1>1, <1>5 DEF YearlyOccurrence, m, x

LEMMA YearlyFound ==
    ASSUME NEW rule \in Rules, rule.frequency = "yearly",
           NEW y \in Nat, (y + 1) * YearLength <= L
    PROVE  /\ YearlyOccurrence(y, rule) \in Days
           /\ YearOf(YearlyOccurrence(y, rule)) = y
           /\ Occurs(YearlyOccurrence(y, rule), rule)
<1> DEFINE w == YearLength
           x == w * y
           r == rule.month - 1
           m == y * YearLength + rule.month
           d == YearlyOccurrence(y, rule)
<1>1. /\ rule.on \in Nat /\ rule.on >= 1 /\ rule.month \in Nat
      /\ rule.month >= 1 /\ rule.month <= w
  BY RuleFits
<1>2. w \in Nat \ {0}
  BY RecurringAssumption DEF RecurringAssumption
<1>3. x \in Nat /\ m = x + rule.month /\ (y + 1) * w = x + w /\ (y + 1) * w <= L
  BY <1>1, <1>2
<1>4. (x + r) % w = r /\ (x + r) \div w = y
  <2>1. r \in 0..(w - 1)
    BY <1>1, <1>2
  <2> HIDE DEF w, r
  <2> QED
    BY <1>2, <2>1, DivModUnique
<1>5. L \in Nat
  BY LengthsTyped
<1> HIDE DEF w, x
<1>6. m \in 1..L /\ m - 1 = x + r
  <2> DEFINE z == (y + 1) * w
  <2>1. z = x + w /\ z <= L
    BY <1>3
  <2> HIDE DEF m, z
  <2> QED
    BY <1>1, <1>2, <1>3, <1>5, <2>1
<1>7. d = MonthlyOccurrence(m, rule.on)
  BY DEF YearlyOccurrence
<1> HIDE DEF m, d
<1>8. /\ d \in Days /\ MonthOf(d) = m
      /\ d - Until[m - 1] + 1 = Lesser(rule.on, MonthLengths[m])
  BY <1>1, <1>6, <1>7, OccurrenceInMonth
<1>9. YearOf(d) = y
  BY <1>4, <1>6, <1>8 DEF YearOf, w
<1>10. ((m - 1) % YearLength) + 1 = rule.month
  <2>1. (m - 1) % YearLength = r
    BY <1>4, <1>6 DEF w
  <2> QED
    BY <1>1, <2>1
<1>11. Occurs(d, rule)
  BY <1>8, <1>10 DEF Occurs
<1> QED
  BY <1>8, <1>9, <1>11 DEF d

-----------------------------------------------------------------------------

\* No date of the rule from one day up to another.
Gap(from, to, rule) == \A d \in Days : from <= d /\ d < to => ~ Occurs(d, rule)

\* firstDueOnOrAfter finds the first date of the rule on or after a day.
LEMMA FirstDueIsFirst ==
    ASSUME NEW rule \in Rules, NEW base \in Bases
    PROVE  /\ FirstDue(base, rule) \in Days
           /\ base <= FirstDue(base, rule)
           /\ Occurs(FirstDue(base, rule), rule)
           /\ Gap(base, FirstDue(base, rule), rule)
<1>0. \A d \in Days : d \in Nat
  <2>1. L \in 0..L
    BY LengthsTyped
  <2>2. Until[L] \in Nat
    BY <2>1, UntilStep DEF Numbers
  <2> QED
    BY <2>2 DEF Days, L
<1>1. base \in Days /\ base \in Nat
  BY BaseFits
<1> DEFINE f == FirstDue(base, rule)
<1>2. CASE rule.frequency = "daily"
  <2>1. f = base
    BY <1>2 DEF FirstDue
  <2>2. Occurs(base, rule)
    BY <1>2 DEF Occurs
  <2>3. Gap(base, base, rule)
    BY <1>0, <1>1 DEF Gap
  <2> QED
    BY <1>1, <2>1, <2>2, <2>3
<1>3. CASE rule.frequency = "weekly"
  <2> DEFINE s == (rule.on - base) % WeekLength
  <2>1. WeekLength \in Nat \ {0} /\ rule.on \in 0..(WeekLength - 1)
    BY <1>3, RuleFits, RecurringAssumption DEF RecurringAssumption
  <2>2. s \in 0..(WeekLength - 1) /\ (base + s) % WeekLength = rule.on
    <3> DEFINE n == rule.on
    <3>1. base \in Int /\ n \in 0..(WeekLength - 1)
      BY <1>1, <2>1
    <3> HIDE DEF n
    <3>2. /\ (n - base) % WeekLength \in 0..(WeekLength - 1)
          /\ (base + ((n - base) % WeekLength)) % WeekLength = n
      BY <3>1, WeekdayNext
    <3> QED
      BY <3>2 DEF n
  <2>3. f = base + s
    BY <1>3 DEF FirstDue
  <2> HIDE DEF s, f
  <2>4. f \in Days
    <3>1. L \in 0..L
      BY LengthsTyped
    <3>2. Until[L] \in Nat
      BY <3>1, UntilStep DEF Numbers
    <3>3. base + WeekLength \in 0..(Until[L] - 1)
      BY BaseFits DEF Days, L
    <3> DEFINE end == Until[L]
    <3>4. end \in Nat /\ base + WeekLength \in 0..(end - 1)
      BY <3>2, <3>3
    <3> HIDE DEF end
    <3>5. f \in 0..(end - 1)
      BY <1>1, <2>1, <2>2, <2>3, <3>4
    <3> QED
      BY <3>5 DEF Days, L, end
  <2>5. base <= f /\ f < base + WeekLength
    BY <1>1, <2>1, <2>2, <2>3
  <2>6. Occurs(f, rule)
    BY <1>3, <2>2, <2>3 DEF Occurs
  <2>7. ASSUME NEW d \in Days, base <= d, d < f, Occurs(d, rule) PROVE FALSE
    <3>1. d % WeekLength = f % WeekLength
      BY <1>3, <2>2, <2>3, <2>7 DEF Occurs
    <3>2. d \in Int /\ f \in Int
      BY <1>0, <2>4, <2>7
    <3>3. f >= d + WeekLength
      BY <2>7, <3>1, <3>2, WeekBetween
    <3> QED
      BY <1>1, <2>1, <2>5, <2>7, <3>2, <3>3
  <2>8. Gap(base, f, rule)
    BY <2>7 DEF Gap
  <2> QED
    BY <2>4, <2>5, <2>6, <2>8 DEF f
<1>4. CASE rule.frequency = "monthly"
  <2> DEFINE m == MonthOf(base)
             c == MonthlyOccurrence(m, rule.on)
             n == MonthlyOccurrence(m + 1, rule.on)
  <2>1. m \in 1..L /\ m + 1 \in 1..L
    BY <1>1, BaseFits, MonthFits
  <2>2. /\ c \in Days /\ MonthOf(c) = m /\ Occurs(c, rule)
        /\ n \in Days /\ MonthOf(n) = m + 1 /\ Occurs(n, rule)
    BY <1>4, <2>1, MonthlyFound
  <2>3. f = IF c < base THEN n ELSE c
    BY <1>4 DEF FirstDue
  <2>4. m \in Nat
    BY <2>1, LengthsTyped
  <2>5. ASSUME NEW d \in Days, base <= d, d < f, Occurs(d, rule) PROVE FALSE
    <3>1. d = MonthlyOccurrence(MonthOf(d), rule.on)
      BY <1>4, <2>5, MonthlyDate
    <3>2. MonthOf(d) \in Nat /\ m <= MonthOf(d)
      BY <1>1, <2>5, MonthsInOrder, MonthFits, LengthsTyped
    <3>3. d \in Nat /\ f \in Nat /\ c \in Nat /\ n \in Nat
      BY <1>0, <2>2, <2>3
    <3>4. CASE c < base
      <4>1. f = n
        BY <2>3, <3>4
      <4>2. d <= n
        BY <2>5, <3>3, <4>1
      <4>3. MonthOf(d) <= m + 1
        BY <2>2, <2>5, <4>2, MonthsInOrder
      <4>4. MonthOf(d) = m \/ MonthOf(d) = m + 1
        BY <2>4, <3>2, <4>3
      <4>5. d = c \/ d = n
        BY <3>1, <4>4
      <4> QED
        BY <1>1, <2>5, <3>3, <3>4, <4>1, <4>5
    <3>5. CASE ~ (c < base)
      <4>1. f = c
        BY <2>3, <3>5
      <4>2. d <= c
        BY <2>5, <3>3, <4>1
      <4>3. MonthOf(d) <= m
        BY <2>2, <2>5, <4>2, MonthsInOrder
      <4>4. MonthOf(d) = m
        BY <2>4, <3>2, <4>3
      <4>5. d = c
        BY <3>1, <4>4
      <4> QED
        BY <2>5, <3>3, <4>1, <4>5
    <3> QED
      BY <3>4, <3>5
  <2>6. base <= f
    <3>1. base < n
      <4> HIDE DEF m, n
      <4>1. MonthOf(base) < MonthOf(n)
        BY <2>2, <2>4 DEF m
      <4> QED
        BY <1>1, <2>2, <4>1, MonthsInOrder
    <3>2. c \in Nat /\ n \in Nat
      BY <1>0, <2>2
    <3> QED
      BY <1>1, <2>3, <3>1, <3>2
  <2>7. f \in Days /\ Occurs(f, rule)
    BY <2>2, <2>3
  <2>8. Gap(base, f, rule)
    BY <2>5 DEF Gap
  <2> QED
    BY <2>6, <2>7, <2>8
<1>5. CASE rule.frequency = "yearly"
  <2> DEFINE y == YearOf(base)
             c == YearlyOccurrence(y, rule)
             n == YearlyOccurrence(y + 1, rule)
  <2>1. y \in Nat /\ y + 1 \in Nat
    BY <1>1, YearFits
  <2>2. (y + 1) * YearLength <= L /\ ((y + 1) + 1) * YearLength <= L
    <3>1. (y + 2) * YearLength <= L
      BY BaseFits
    <3>2. YearLength \in Nat /\ L \in Nat
      BY LengthsTyped, RecurringAssumption DEF RecurringAssumption
    <3> HIDE DEF y
    <3>3. (y + 2) * YearLength = (y + 1) * YearLength + YearLength
          /\ (y + 1) * YearLength \in Nat /\ y + 2 = (y + 1) + 1
      BY <2>1, <3>2
    <3> QED
      BY <2>1, <3>1, <3>2, <3>3
  <2>3. /\ c \in Days /\ YearOf(c) = y /\ Occurs(c, rule)
        /\ n \in Days /\ YearOf(n) = y + 1 /\ Occurs(n, rule)
    BY <1>5, <2>1, <2>2, YearlyFound
  <2>4. f = IF c < base THEN n ELSE c
    BY <1>5 DEF FirstDue
  <2>5. ASSUME NEW d \in Days, base <= d, d < f, Occurs(d, rule) PROVE FALSE
    <3>1. d = YearlyOccurrence(YearOf(d), rule)
      BY <1>5, <2>5, YearlyDate
    <3>2. YearOf(d) \in Nat /\ y <= YearOf(d)
      BY <1>1, <2>5, YearsInOrder, YearFits
    <3>3. d \in Nat /\ f \in Nat /\ c \in Nat /\ n \in Nat
      BY <1>0, <2>3, <2>4
    <3>4. CASE c < base
      <4>1. f = n
        BY <2>4, <3>4
      <4>2. d <= n
        BY <2>5, <3>3, <4>1
      <4>3. YearOf(d) <= y + 1
        BY <2>3, <2>5, <4>2, YearsInOrder
      <4>4. YearOf(d) = y \/ YearOf(d) = y + 1
        BY <2>1, <3>2, <4>3
      <4>5. d = c \/ d = n
        BY <3>1, <4>4
      <4> QED
        BY <1>1, <2>5, <3>3, <3>4, <4>1, <4>5
    <3>5. CASE ~ (c < base)
      <4>1. f = c
        BY <2>4, <3>5
      <4>2. d <= c
        BY <2>5, <3>3, <4>1
      <4>3. YearOf(d) <= y
        BY <2>3, <2>5, <4>2, YearsInOrder
      <4>4. YearOf(d) = y
        BY <2>1, <3>2, <4>3
      <4>5. d = c
        BY <3>1, <4>4
      <4> QED
        BY <2>5, <3>3, <4>1, <4>5
    <3> QED
      BY <3>4, <3>5
  <2>6. base <= f
    <3>1. c \in Nat /\ n \in Nat
      BY <1>0, <2>3
    <3>2. ~ (n <= base)
      <4> SUFFICES ASSUME n <= base PROVE FALSE
        OBVIOUS
      <4>1. YearOf(n) <= YearOf(base)
        BY <1>1, <2>3, YearsInOrder
      <4> QED
        BY <2>1, <2>3, <4>1
    <3> QED
      BY <1>1, <2>4, <3>1, <3>2
  <2>7. f \in Days /\ Occurs(f, rule)
    BY <2>3, <2>4
  <2>8. Gap(base, f, rule)
    BY <2>5 DEF Gap
  <2> QED
    BY <2>6, <2>7, <2>8
<1> QED
  BY <1>2, <1>3, <1>4, <1>5, RuleFits

LEMMA DayIsNat == Days \subseteq Nat
<1>1. L \in 0..L
  BY LengthsTyped
<1>2. Until[L] \in Nat
  BY <1>1, UntilStep DEF Numbers
<1> QED
  BY <1>2 DEF Days, L

\* nextOccurrenceAfter goes on ...
LEMMA NextIsLater ==
    ASSUME NEW rule \in Rules, NEW due \in 0..Horizon
    PROVE  /\ NextAfter(due, rule) \in Days
           /\ due < NextAfter(due, rule)
           /\ rule.frequency \in {"weekly", "monthly", "yearly"}
                /\ Occurs(due, rule) => Occurs(NextAfter(due, rule), rule)
<1>1. due \in Bases /\ due + 1 \in Bases /\ due \in Days /\ due \in Nat
  <2>1. Horizon \in Nat
    BY RecurringAssumption DEF RecurringAssumption
  <2>2. due \in Bases /\ due + 1 \in Bases
    BY <2>1 DEF Bases
  <2> QED
    BY <2>2, BaseFits
<1> DEFINE f == NextAfter(due, rule)
<1>2. CASE rule.frequency = "daily"
  <2>1. f = due + 1
    BY <1>2 DEF NextAfter
  <2>2. f \in Days
    BY <1>1, <2>1, BaseFits
  <2> QED
    BY <1>1, <1>2, <2>1, <2>2
<1>3. CASE rule.frequency = "weekly"
  <2>1. f = due + WeekLength
    BY <1>3 DEF NextAfter
  <2>2. f \in Days
    BY <1>1, <2>1, BaseFits
  <2>3. WeekLength \in Nat /\ WeekLength >= 1
    BY RecurringAssumption DEF RecurringAssumption
  <2>4. due < f
    BY <1>1, <2>1, <2>3
  <2>5. f % WeekLength = due % WeekLength
    BY <1>1, <2>1, WeekLater
  <2>6. Occurs(due, rule) => Occurs(f, rule)
    BY <1>3, <2>5 DEF Occurs
  <2> QED
    BY <2>2, <2>4, <2>6
<1>4. CASE rule.frequency = "monthly"
  <2> DEFINE m == MonthOf(due)
             n == MonthlyOccurrence(m + 1, rule.on)
  <2>1. m \in Nat /\ m + 1 \in 1..L
    BY <1>1, BaseFits, MonthFits, LengthsTyped
  <2>2. n \in Days /\ MonthOf(n) = m + 1 /\ Occurs(n, rule)
    BY <1>4, <2>1, MonthlyFound
  <2>3. f = n
    BY <1>4 DEF NextAfter
  <2> HIDE DEF n
  <2>4. MonthOf(due) < MonthOf(n)
    BY <2>1, <2>2
  <2>5. due < n
    BY <1>1, <2>2, <2>4, MonthsInOrder
  <2> QED
    BY <2>2, <2>3, <2>5
<1>5. CASE rule.frequency = "yearly"
  <2> DEFINE y == YearOf(due)
             n == YearlyOccurrence(y + 1, rule)
  <2>1. y \in Nat
    BY <1>1, YearFits
  <2>2. ((y + 1) + 1) * YearLength <= L
    <3>1. (y + 2) * YearLength <= L
      BY <1>1, BaseFits
    <3>2. y + 2 = (y + 1) + 1
      BY <2>1
    <3> QED
      BY <3>1, <3>2
  <2>3. n \in Days /\ YearOf(n) = y + 1 /\ Occurs(n, rule)
    <3>1. y + 1 \in Nat
      BY <2>1
    <3> QED
      BY <1>5, <2>2, <3>1, YearlyFound
  <2>4. f = n
    BY <1>5 DEF NextAfter
  <2> HIDE DEF n
  <2>5. ~ (n <= due)
    <3> SUFFICES ASSUME n <= due PROVE FALSE
      OBVIOUS
    <3>1. YearOf(n) <= YearOf(due)
      BY <1>1, <2>3, YearsInOrder
    <3> QED
      BY <2>1, <2>3, <3>1
  <2>6. due < n
    BY <1>1, <2>3, <2>5, DayIsNat
  <2> QED
    BY <2>3, <2>4, <2>6
<1> QED
  BY <1>2, <1>3, <1>4, <1>5, RuleFits

\* ... from a date of the rule to the next one.
LEMMA NextIsNext ==
    ASSUME NEW rule \in Rules, NEW due \in 0..Horizon, Occurs(due, rule)
    PROVE  /\ Occurs(NextAfter(due, rule), rule)
           /\ Gap(due + 1, NextAfter(due, rule), rule)
<1>1. due \in Bases /\ due \in Days /\ due \in Nat
  <2>1. Horizon \in Nat
    BY RecurringAssumption DEF RecurringAssumption
  <2>2. due \in Bases
    BY <2>1 DEF Bases
  <2> QED
    BY <2>2, BaseFits
<1> DEFINE f == NextAfter(due, rule)
<1>2. f \in Days /\ due < f /\ f \in Nat
  BY NextIsLater, DayIsNat
<1>3. rule.frequency # "daily" => Occurs(f, rule)
  BY NextIsLater, RuleFits
<1>4. CASE rule.frequency = "daily"
  <2>1. f = due + 1
    BY <1>4 DEF NextAfter
  <2>2. Occurs(f, rule)
    BY <1>4 DEF Occurs
  <2>3. \A d \in Days : ~ (due + 1 <= d /\ d < due + 1)
    BY <1>1, DayIsNat
  <2> QED
    BY <2>1, <2>2, <2>3 DEF Gap
<1>5. CASE rule.frequency # "daily"
  <2> SUFFICES ASSUME NEW d \in Days, due + 1 <= d, d < f, Occurs(d, rule)
               PROVE  FALSE
    BY <1>3, <1>5 DEF Gap
  <2>1. d \in Nat /\ due < d /\ due <= d /\ d <= f
    BY <1>1, <1>2, DayIsNat
  <2>2. CASE rule.frequency = "weekly"
    <3>1. f = due + WeekLength
      BY <2>2 DEF NextAfter
    <3>2. due % WeekLength = d % WeekLength
      BY <2>2 DEF Occurs
    <3>3. d >= due + WeekLength
      BY <1>1, <2>1, <3>2, WeekBetween
    <3>4. WeekLength \in Nat
      BY RecurringAssumption DEF RecurringAssumption
    <3> QED
      BY <1>1, <2>1, <3>1, <3>3, <3>4
  <2>3. CASE rule.frequency = "monthly"
    <3> DEFINE m == MonthOf(due)
               n == MonthlyOccurrence(m + 1, rule.on)
    <3>1. m \in Nat /\ m + 1 \in 1..L /\ MonthOf(d) \in Nat
      BY <1>1, BaseFits, MonthFits, LengthsTyped
    <3>2. n \in Days /\ MonthOf(n) = m + 1
      BY <2>3, <3>1, MonthlyFound
    <3>3. f = n
      BY <2>3 DEF NextAfter
    <3>4. due = MonthlyOccurrence(m, rule.on) /\ d = MonthlyOccurrence(MonthOf(d), rule.on)
      BY <1>1, <2>3, MonthlyDate
    <3>5. m <= MonthOf(d) /\ MonthOf(d) <= MonthOf(n)
      BY <1>1, <2>1, <3>2, <3>3, MonthsInOrder
    <3>6. MonthOf(d) = m \/ MonthOf(d) = m + 1
      BY <3>1, <3>2, <3>5
    <3>7. d = due \/ d = f
      BY <3>3, <3>4, <3>6
    <3> QED
      BY <1>1, <1>2, <2>1, <3>7
  <2>4. CASE rule.frequency = "yearly"
    <3> DEFINE y == YearOf(due)
               n == YearlyOccurrence(y + 1, rule)
    <3>1. y \in Nat /\ YearOf(d) \in Nat
      BY <1>1, YearFits
    <3>2. ((y + 1) + 1) * YearLength <= L
      <4>1. (y + 2) * YearLength <= L
        BY <1>1, BaseFits
      <4>2. y + 2 = (y + 1) + 1
        BY <3>1
      <4> QED
        BY <4>1, <4>2
    <3>3. n \in Days /\ YearOf(n) = y + 1
      <4>1. y + 1 \in Nat
        BY <3>1
      <4> QED
        BY <2>4, <3>2, <4>1, YearlyFound
    <3>4. f = n
      BY <2>4 DEF NextAfter
    <3>5. due = YearlyOccurrence(y, rule) /\ d = YearlyOccurrence(YearOf(d), rule)
      BY <1>1, <2>4, YearlyDate
    <3>6. y <= YearOf(d) /\ YearOf(d) <= YearOf(n)
      BY <1>1, <2>1, <3>3, <3>4, YearsInOrder
    <3>7. YearOf(d) = y \/ YearOf(d) = y + 1
      BY <3>1, <3>3, <3>6
    <3>8. d = due \/ d = f
      BY <3>4, <3>5, <3>7
    <3> QED
      BY <1>1, <1>2, <2>1, <3>8
  <2> QED
    BY <1>5, <2>2, <2>3, <2>4, RuleFits
<1> QED
  BY <1>4, <1>5

-----------------------------------------------------------------------------
(* The recurring expenses *)


\* The dates that a run has dealt with.
Dealt == {Never} \union (0..Horizon)

\* What there is of a template, a run and an edit at any time.
TemplateFits ==
    /\ template.lastRun \in Dealt
    /\ template.exists => template.rule \in Rules /\ template.start \in Starts
    /\ ~template.exists =>
          template = NoTemplate /\ live = {} /\ \A d \in Days : made[d] = 0

RunFits(t) ==
    /\ t.step = "idle" => t = NoRun
    /\ t.step # "idle" => t.rule \in Rules /\ t.asOf \in 0..Horizon
                          /\ t.lastRun \in Dealt

EditFits ==
    /\ edit.step = "idle" => edit = NoEdit
    /\ edit.step = "read" => edit.rule \in Rules /\ edit.start \in Starts
    /\ edit.lastRun \in Dealt

\* There is one template only: nothing is at work before it exists.
Nothing == ~template.exists /\ edit = NoEdit /\ \A j \in Runs : ~Running(j)

\* Every date of the rule from its start up to a day had its expense.
Filled(day) ==
    \A d \in Days : template.start <= d /\ d < day /\ Occurs(d, template.rule)
        => made[d] > 0

\* A rule nobody edits: every run has it, and has left no date behind.
Faithful ==
    ~edited /\ template.exists =>
        /\ Occurs(template.nextDue, template.rule)
        /\ Filled(template.nextDue)
        /\ \A j \in Runs : Running(j) =>
              /\ run[j].rule = template.rule
              /\ Occurs(run[j].cursor, template.rule)
              /\ Filled(run[j].cursor)

\* A date is the next one of the rule after a last run, or from the start.
Due(rule, start, last, next) ==
    /\ Occurs(next, rule)
    /\ last < next
    /\ Gap(IF last = Never THEN start ELSE last + 1, next, rule)

OneAtATime ==
    /\ \A i, j \in Runs : Running(i) /\ Running(j) => i = j
    /\ \A j \in Runs : Running(j) => edit = NoEdit

\* In the calm the template's dates and those of a run are the ones of the
\* rule, and what an edit has read is still so.
InStep ==
    calm =>
        /\ OneAtATime
        /\ template.exists =>
              /\ Due(template.rule, template.start, template.lastRun,
                     template.nextDue)
              /\ edit.step = "read" => edit.lastRun = template.lastRun
              /\ \A j \in Runs : Running(j) =>
                    /\ run[j].rule = template.rule
                    /\ Due(template.rule, template.start, run[j].lastRun,
                           run[j].cursor)

\* As long as no progress is lost, no date after the last run has had its
\* expense, and none has had two.
Reached(day) == \A d \in Days : made[d] > 0 => d <= day

NoDouble ==
    calm /\ kept =>
        /\ \A d \in Days : made[d] <= 1
        /\ \A j \in Runs : Running(j) => Reached(run[j].lastRun)
        /\ (\A j \in Runs : ~Running(j)) => Reached(template.lastRun)

Shape ==
    /\ RecurringTypeOK /\ TemplateFits /\ EditFits
    /\ \A j \in Runs : RunFits(run[j])
    /\ changes = 0 => Nothing
    /\ \A d \in live : made[d] > 0

RInv == Shape /\ Faithful /\ InStep /\ NoDouble

-----------------------------------------------------------------------------

LEMMA HorizonIsNat == Horizon \in Nat /\ MaxChanges \in Nat /\ MaxMishaps \in Nat
BY RecurringAssumption DEF RecurringAssumption

LEMMA DealtFits == Dealt \subseteq Int /\ Dealt \subseteq Days \union {Never} /\ Never = -1
<1>1. \A d \in 0..Horizon : d \in Days
  <2> SUFFICES ASSUME NEW d \in 0..Horizon PROVE d \in Days
    OBVIOUS
  <2>1. d \in Bases
    BY HorizonIsNat DEF Bases
  <2> QED
    BY <2>1, BaseFits
<1> QED
  BY <1>1, HorizonIsNat DEF Dealt, Never

LEMMA FirstDays == 0 \in Days /\ Starts \subseteq Days /\ (0..Horizon) \subseteq Days
<1>1. \A d \in Bases : d \in Days
  BY BaseFits
<1>2. 0 \in Bases /\ Starts \subseteq Bases /\ (0..Horizon) \subseteq Bases
  BY HorizonIsNat DEF Bases
<1> QED
  BY <1>1, <1>2

LEMMA NothingTyped ==
    /\ NoRun \in RunState /\ RunFits(NoRun) /\ NoRun.step = "idle"
    /\ NoEdit \in [step : {"idle", "read"}, rule : Rules \union {NoRule},
                   start : Days, lastRun : Days \union {Never}]
    /\ NoEdit.step = "idle" /\ NoEdit.lastRun = Never
    /\ NoTemplate \in [exists : BOOLEAN, active : BOOLEAN, rule : Rules \union {NoRule},
                       start : Days, lastRun : Days \union {Never}, nextDue : Days]
    /\ NoTemplate.exists = FALSE /\ NoTemplate.lastRun = Never
<1>1. MaxCatchup \in Nat
  BY RecurringAssumption DEF RecurringAssumption
<1> QED
  BY <1>1, FirstDays DEF NoRun, RunState, RunFits, NoEdit, NoTemplate

\* #computeNextDue gives the date that is due after the last run.
LEMMA ComputedIsDue ==
    ASSUME NEW rule \in Rules, NEW start \in Starts, NEW last \in Dealt
    PROVE  /\ ComputeNextDue(rule, start, last) \in Days
           /\ Due(rule, start, last, ComputeNextDue(rule, start, last))
<1> DEFINE base == IF last = Never THEN start ELSE last + 1
           f == FirstDue(base, rule)
<1>1. f = ComputeNextDue(rule, start, last)
  BY DEF ComputeNextDue
<1>2. base \in Bases
  BY HorizonIsNat DEF Bases, Dealt
<1>3. /\ f \in Days /\ base <= f /\ Occurs(f, rule) /\ Gap(base, f, rule)
  <2> HIDE DEF base
  <2> QED
    BY <1>2, FirstDueIsFirst
<1>4. last < f
  <2>1. start \in Nat /\ f \in Nat
    BY <1>3, DayIsNat, FirstDays
  <2> HIDE DEF f
  <2>2. CASE last = Never
    BY <2>1, <2>2 DEF Never
  <2>3. CASE last # Never
    <3>1. last \in Nat /\ last + 1 <= f
      BY <1>3, <2>3, HorizonIsNat DEF Dealt
    <3> QED
      BY <2>1, <3>1
  <2> QED
    BY <2>2, <2>3
<1> HIDE DEF f
<1> QED
  BY <1>1, <1>3, <1>4 DEF Due

LEMMA InitHolds == ASSUME RecurringInit PROVE RInv
<1>1. RecurringTypeOK
  <2>1. made \in [Days -> Nat] /\ run \in [Runs -> RunState]
    BY NothingTyped DEF RecurringInit
  <2>2. today \in 0..Horizon /\ changes \in 0..MaxChanges /\ mishaps \in 0..MaxMishaps
    BY HorizonIsNat DEF RecurringInit
  <2>3. /\ live \subseteq Days /\ accepting \in BOOLEAN
        /\ calm \in BOOLEAN /\ kept \in BOOLEAN /\ edited \in BOOLEAN
    BY DEF RecurringInit
  <2>4. template = NoTemplate /\ edit = NoEdit
    BY DEF RecurringInit
  <2> QED
    BY <2>1, <2>2, <2>3, <2>4, NothingTyped DEF RecurringTypeOK
<1>2. \A j \in Runs : run[j] = NoRun /\ ~Running(j)
  BY NothingTyped DEF RecurringInit, Running
<1>3. TemplateFits /\ EditFits /\ \A j \in Runs : RunFits(run[j])
  BY <1>2, NothingTyped DEF RecurringInit, TemplateFits, EditFits, Dealt
<1>4. Nothing /\ live = {}
  BY <1>2, NothingTyped DEF RecurringInit, Nothing
<1>5. Faithful /\ InStep
  BY <1>2, NothingTyped DEF RecurringInit, Faithful, InStep, OneAtATime
<1>6. NoDouble
  BY <1>2, NothingTyped DEF RecurringInit, NoDouble, Reached
<1> QED
  BY <1>1, <1>3, <1>4, <1>5, <1>6 DEF RInv, Shape

\* What the parts of the invariant say of the state, for use in the steps.
LEMMA Facts ==
    ASSUME Shape
    PROVE  /\ template \in [exists : BOOLEAN, active : BOOLEAN,
                            rule : Rules \union {NoRule}, start : Days,
                            lastRun : Days \union {Never}, nextDue : Days]
           /\ live \subseteq Days /\ made \in [Days -> Nat]
           /\ today \in 0..Horizon /\ accepting \in BOOLEAN
           /\ run \in [Runs -> RunState]
           /\ edit \in [step : {"idle", "read"}, rule : Rules \union {NoRule},
                        start : Days, lastRun : Days \union {Never}]
           /\ changes \in 0..MaxChanges /\ mishaps \in 0..MaxMishaps
           /\ calm \in BOOLEAN /\ kept \in BOOLEAN /\ edited \in BOOLEAN
BY DEF Shape, RecurringTypeOK

LEMMA CreateKeeps == ASSUME RInv, Create PROVE RInv'
<1> USE DEF RInv
<1>1. PICK rule \in Rules, start \in Starts :
          /\ template = NoTemplate /\ changes = 0 /\ Change
          /\ template' = [exists |-> TRUE, active |-> TRUE, rule |-> rule,
                          start |-> start, lastRun |-> Never,
                          nextDue |-> ComputeNextDue(rule, start, Never)]
          /\ UNCHANGED <<live, made, today, accepting, run, edit, mishaps, ghosts>>
  BY DEF Create
<1> DEFINE next == ComputeNextDue(rule, start, Never)
<1>2. next \in Days /\ Due(rule, start, Never, next)
  BY ComputedIsDue DEF Dealt
<1>3. Nothing /\ live = {} /\ \A d \in Days : made[d] = 0
  BY <1>1, NothingTyped DEF Shape, TemplateFits
<1> HIDE DEF next
<1>4. /\ template'.exists /\ template'.rule = rule /\ template'.start = start
      /\ template'.lastRun = Never /\ template'.nextDue = next
  BY <1>1 DEF next
<1>5. template' \in [exists : BOOLEAN, active : BOOLEAN, rule : Rules \union {NoRule},
                     start : Days, lastRun : Days \union {Never}, nextDue : Days]
  BY <1>1, <1>2, FirstDays DEF next
<1>6. changes' = 1 /\ 1 \in 0..MaxChanges
  BY <1>1, HorizonIsNat DEF Change
<1>7. /\ live' = live /\ made' = made /\ today' = today /\ accepting' = accepting
      /\ run' = run /\ edit' = edit /\ mishaps' = mishaps /\ calm' = calm
      /\ kept' = kept /\ edited' = edited
  BY <1>1 DEF ghosts
<1>8. \A j \in Runs : ~Running(j) /\ ~Running(j)'
  BY <1>3, <1>7 DEF Nothing, Running
<1>9. RecurringTypeOK'
  BY <1>5, <1>6, <1>7, Facts DEF RecurringTypeOK
<1>10. Shape'
  BY <1>3, <1>4, <1>6, <1>7, <1>9 DEF Shape, TemplateFits, EditFits, RunFits, Dealt
<1>11. Faithful'
  BY <1>2, <1>4, <1>8 DEF Faithful, Filled, Due, Gap
<1>12. InStep'
  BY <1>2, <1>3, <1>4, <1>7, <1>8, NothingTyped DEF InStep, OneAtATime, Nothing
<1>13. NoDouble'
  BY <1>3, <1>7, <1>8 DEF NoDouble, Reached
<1> QED
  BY <1>10, <1>11, <1>12, <1>13

LEMMA BeginEditKeeps == ASSUME RInv, BeginEdit PROVE RInv'
<1> USE DEF RInv
<1>1. PICK rule \in Rules, start \in Starts :
          /\ template.exists /\ edit = NoEdit /\ Change
          /\ edit' = [step |-> "read", rule |-> rule, start |-> start,
                      lastRun |-> template.lastRun]
          /\ calm' = (calm /\ \A j \in Runs : ~Running(j))
          /\ UNCHANGED <<tables, today, accepting, run, mishaps, kept, edited>>
  BY DEF BeginEdit
<1>2. /\ live' = live /\ made' = made /\ today' = today /\ accepting' = accepting
      /\ run' = run /\ template' = template /\ mishaps' = mishaps
      /\ kept' = kept /\ edited' = edited
  BY <1>1 DEF tables
<1>3. changes' \in 0..MaxChanges /\ changes' # 0
  BY <1>1, Facts, HorizonIsNat DEF Change
<1>4. /\ edit' \in [step : {"idle", "read"}, rule : Rules \union {NoRule},
                    start : Days, lastRun : Days \union {Never}]
      /\ edit'.step = "read" /\ edit'.rule \in Rules /\ edit'.start \in Starts
      /\ edit'.lastRun = template.lastRun
  BY <1>1, Facts, FirstDays
<1>5. calm' \in BOOLEAN
  BY <1>1
<1>6. RecurringTypeOK'
  BY <1>2, <1>3, <1>4, <1>5, Facts DEF RecurringTypeOK
<1>7. Shape'
  BY <1>2, <1>3, <1>4, <1>6 DEF Shape, TemplateFits, EditFits, RunFits
<1>8. Faithful'
  BY <1>2 DEF Faithful, Filled, Running
<1>9. InStep'
  BY <1>1, <1>2, <1>4 DEF InStep, OneAtATime, Running
<1>10. NoDouble'
  <2>1. calm' => calm
    BY <1>1
  <2> QED
    BY <1>2, <2>1 DEF NoDouble, Reached, Running
<1> QED
  BY <1>7, <1>8, <1>9, <1>10

LEMMA CommitEditKeeps == ASSUME RInv, CommitEdit PROVE RInv'
<1> USE DEF RInv
<1> DEFINE next == ComputeNextDue(edit.rule, edit.start, edit.lastRun)
<1>1. /\ edit.step = "read" /\ edit' = NoEdit /\ edited' = TRUE
      /\ live' = live /\ made' = made /\ today' = today /\ accepting' = accepting
      /\ run' = run /\ changes' = changes /\ mishaps' = mishaps /\ calm' = calm
      /\ kept' = kept
      /\ template' = IF ~template.exists THEN template
                     ELSE [template EXCEPT !.rule = edit.rule, !.start = edit.start,
                                           !.nextDue = next]
  BY DEF CommitEdit
<1>2. edit.rule \in Rules /\ edit.start \in Starts /\ edit.lastRun \in Dealt
  BY <1>1 DEF Shape, EditFits
<1>3. next \in Days /\ Due(edit.rule, edit.start, edit.lastRun, next)
  BY <1>2, ComputedIsDue
<1> HIDE DEF next
<1>4. /\ template' \in [exists : BOOLEAN, active : BOOLEAN, rule : Rules \union {NoRule},
                        start : Days, lastRun : Days \union {Never}, nextDue : Days]
      /\ template'.exists = template.exists /\ template'.lastRun = template.lastRun
      /\ ~template.exists => template' = template
      /\ template.exists => /\ template'.rule = edit.rule
                            /\ template'.start = edit.start
                            /\ template'.nextDue = next
  BY <1>1, <1>2, <1>3, Facts, FirstDays
<1>5. edit # NoEdit /\ changes # 0
  BY <1>1, NothingTyped DEF Shape, Nothing
<1>6. RecurringTypeOK'
  BY <1>1, <1>4, NothingTyped, Facts DEF RecurringTypeOK
<1>7. Shape'
  BY <1>1, <1>2, <1>4, <1>5, <1>6, NothingTyped
     DEF Shape, TemplateFits, EditFits, RunFits, Dealt
<1>8. Faithful'
  BY <1>1 DEF Faithful
<1>9. InStep'
  BY <1>1, <1>3, <1>4, <1>5, NothingTyped DEF InStep, OneAtATime, Running
<1>10. NoDouble'
  BY <1>1, <1>4 DEF NoDouble, Reached, Running
<1> QED
  BY <1>7, <1>8, <1>9, <1>10

LEMMA SetActiveKeeps == ASSUME RInv, SetActive PROVE RInv'
<1> USE DEF RInv
<1>1. /\ template.exists /\ Change
      /\ live' = live /\ made' = made /\ today' = today /\ accepting' = accepting
      /\ run' = run /\ edit' = edit /\ mishaps' = mishaps /\ calm' = calm
      /\ kept' = kept /\ edited' = edited
      /\ template' = [template EXCEPT !.active = ~template.active]
  BY DEF SetActive, ghosts
<1>2. /\ template' \in [exists : BOOLEAN, active : BOOLEAN, rule : Rules \union {NoRule},
                        start : Days, lastRun : Days \union {Never}, nextDue : Days]
      /\ template'.exists /\ template'.lastRun = template.lastRun
      /\ template'.rule = template.rule /\ template'.start = template.start
      /\ template'.nextDue = template.nextDue
  BY <1>1, Facts
<1>3. changes' \in 0..MaxChanges /\ changes' # 0
  BY <1>1, Facts, HorizonIsNat DEF Change
<1>4. RecurringTypeOK'
  BY <1>1, <1>2, <1>3, Facts DEF RecurringTypeOK
<1>5. Shape'
  BY <1>1, <1>2, <1>3, <1>4 DEF Shape, TemplateFits, EditFits, RunFits
<1>6. Faithful'
  BY <1>1, <1>2 DEF Faithful, Filled, Running
<1>7. InStep'
  BY <1>1, <1>2 DEF InStep, OneAtATime, Running
<1>8. NoDouble'
  BY <1>1, <1>2 DEF NoDouble, Reached, Running
<1> QED
  BY <1>5, <1>6, <1>7, <1>8

LEMMA DeleteTemplateKeeps == ASSUME RInv, DeleteTemplate PROVE RInv'
<1> USE DEF RInv
<1>1. /\ template.exists /\ Change /\ template' = NoTemplate
      /\ live' = {} /\ made' = [d \in Days |-> 0]
      /\ today' = today /\ accepting' = accepting
      /\ run' = run /\ edit' = edit /\ mishaps' = mishaps /\ calm' = calm
      /\ kept' = kept /\ edited' = edited
  BY DEF DeleteTemplate, ghosts
<1>2. made' \in [Days -> Nat] /\ \A d \in Days : made'[d] = 0
  BY <1>1
<1>3. changes' \in 0..MaxChanges /\ changes' # 0
  BY <1>1, Facts, HorizonIsNat DEF Change
<1>4. template'.exists = FALSE /\ template'.lastRun = Never
  BY <1>1, NothingTyped
<1>5. RecurringTypeOK'
  BY <1>1, <1>2, <1>3, NothingTyped, Facts DEF RecurringTypeOK
<1>6. Shape'
  BY <1>1, <1>2, <1>3, <1>4, <1>5 DEF Shape, TemplateFits, EditFits, RunFits, Dealt
<1>7. Faithful'
  BY <1>4 DEF Faithful
<1>8. InStep'
  BY <1>1, <1>4 DEF InStep, OneAtATime, Running
<1>9. NoDouble'
  BY <1>2 DEF NoDouble, Reached
<1> QED
  BY <1>6, <1>7, <1>8, <1>9

\* An expense is deleted, the period switches, a day passes, or nothing.
LEMMA LittleKeeps ==
    ASSUME RInv, DeleteExpense \/ SwitchPeriod \/ NextDay \/ UNCHANGED recurringVars
    PROVE  RInv'
<1> USE DEF RInv
<1>1. /\ template' = template /\ live' \subseteq live /\ made' = made
      /\ run' = run /\ edit' = edit /\ mishaps' = mishaps /\ calm' = calm
      /\ kept' = kept /\ edited' = edited
      /\ today' \in 0..Horizon /\ accepting' \in BOOLEAN
      /\ changes' \in 0..MaxChanges /\ (changes' = 0 => changes = 0)
  <2>1. CASE DeleteExpense
    BY <2>1, Facts, HorizonIsNat DEF DeleteExpense, Change, ghosts
  <2>2. CASE SwitchPeriod
    BY <2>2, Facts, HorizonIsNat DEF SwitchPeriod, Change, ghosts, tables
  <2>3. CASE NextDay
    BY <2>3, Facts, HorizonIsNat DEF NextDay, ghosts, tables
  <2>4. CASE UNCHANGED recurringVars
    BY <2>4, Facts DEF recurringVars, ghosts, tables
  <2> QED
    BY <2>1, <2>2, <2>3, <2>4
<1>2. live' \subseteq Days
  BY <1>1, Facts
<1>3. RecurringTypeOK'
  BY <1>1, <1>2, Facts DEF RecurringTypeOK
<1>4. Shape'
  BY <1>1, <1>3 DEF Shape, TemplateFits, EditFits, RunFits, Nothing, Running
<1>5. Faithful'
  BY <1>1 DEF Faithful, Filled, Running
<1>6. InStep'
  BY <1>1 DEF InStep, OneAtATime, Running
<1>7. NoDouble'
  BY <1>1 DEF NoDouble, Reached, Running
<1> QED
  BY <1>4, <1>5, <1>6, <1>7

LEMMA BeginRunKeeps == ASSUME RInv, NEW j \in Runs, BeginRun(j) PROVE RInv'
<1> USE DEF RInv
<1> DEFINE t == [step |-> "booking", rule |-> template.rule, asOf |-> today,
                 cursor |-> template.nextDue, lastRun |-> template.lastRun,
                 count |-> 0]
<1>1. /\ run[j] = NoRun /\ template.exists
      /\ run' = [run EXCEPT ![j] = t]
      /\ calm' = (calm /\ edit = NoEdit /\ \A i \in Runs \ {j} : ~Running(i))
      /\ template' = template /\ live' = live /\ made' = made
      /\ today' = today /\ accepting' = accepting /\ edit' = edit
      /\ changes' = changes /\ mishaps' = mishaps /\ kept' = kept
      /\ edited' = edited
  BY DEF BeginRun, tables
<1>2. /\ t.step = "booking" /\ t.rule = template.rule /\ t.asOf = today
      /\ t.cursor = template.nextDue /\ t.lastRun = template.lastRun
  OBVIOUS
<1>3. t \in RunState
  <2>1. 0 \in 0..MaxCatchup
    BY RecurringAssumption DEF RecurringAssumption
  <2> QED
    BY <2>1, FirstDays, Facts DEF RunState
<1> HIDE DEF t
<1>4. RunFits(t)
  BY <1>1, <1>2, Facts DEF RunFits, Shape, TemplateFits
<1>5. run' \in [Runs -> RunState] /\ run'[j] = t
      /\ \A i \in Runs : i # j => run'[i] = run[i]
  BY <1>1, <1>3, Facts
<1>6. /\ Running(j)' /\ ~Running(j)
      /\ \A i \in Runs : i # j => (Running(i)' <=> Running(i))
  BY <1>1, <1>2, <1>5, NothingTyped DEF Running
<1>7. calm' \in BOOLEAN /\ changes # 0
  BY <1>1 DEF Shape, Nothing
<1>8. RecurringTypeOK'
  BY <1>1, <1>5, <1>7, Facts DEF RecurringTypeOK
<1>9. Shape'
  BY <1>1, <1>4, <1>5, <1>7, <1>8 DEF Shape, TemplateFits, EditFits, RunFits
<1>10. Faithful'
  BY <1>1, <1>2, <1>5, <1>6 DEF Faithful, Filled
<1>11. InStep'
  <2> SUFFICES ASSUME calm' PROVE InStep'
    BY DEF InStep
  <2>1. calm /\ edit = NoEdit /\ \A i \in Runs \ {j} : ~Running(i)
    BY <1>1
  <2>2. \A i \in Runs : Running(i)' => i = j
    BY <1>6, <2>1
  <2> QED
    BY <1>1, <1>2, <1>5, <2>1, <2>2 DEF InStep, OneAtATime
<1>12. NoDouble'
  <2> SUFFICES ASSUME calm', kept' PROVE NoDouble'
    BY DEF NoDouble
  <2>1. calm /\ kept /\ \A i \in Runs : ~Running(i)
    BY <1>1, <1>6
  <2>2. \A i \in Runs : Running(i)' => i = j
    BY <1>6, <2>1
  <2> QED
    BY <1>1, <1>2, <1>5, <1>6, <2>1, <2>2 DEF NoDouble, Reached
<1> QED
  BY <1>9, <1>10, <1>11, <1>12

LEMMA BookKeeps == ASSUME RInv, NEW j \in Runs, Book(j) PROVE RInv'
<1> USE DEF RInv
<1> DEFINE t == run[j]
           c == t.cursor
           u == Onward(t)
           n == NextAfter(c, t.rule)
<1>1. /\ t.step = "booking" /\ c <= t.asOf /\ t.count < MaxCatchup
      /\ c \notin live => accepting /\ template.exists
      /\ live' = live \union {c}
      /\ made' = [made EXCEPT ![c] = IF c \in live THEN @ ELSE @ + 1]
      /\ run' = [run EXCEPT ![j] = u]
      /\ template' = template /\ today' = today /\ accepting' = accepting
      /\ edit' = edit /\ changes' = changes /\ mishaps' = mishaps
      /\ calm' = calm /\ kept' = kept /\ edited' = edited
  BY DEF Book, ghosts
<1>2. t \in RunState
  BY Facts
<1>3. t.rule \in Rules /\ t.asOf \in 0..Horizon /\ t.lastRun \in Dealt
  BY <1>1 DEF Shape, RunFits
<1>4. c \in Days /\ c \in 0..Horizon
  <2>1. c \in Days
    BY <1>2 DEF RunState
  <2>2. c \in Nat
    BY <2>1, DayIsNat
  <2> HIDE DEF c
  <2> QED
    BY <1>1, <1>3, <2>1, <2>2, HorizonIsNat
<1>5. n \in Days /\ c < n
  BY <1>3, <1>4, NextIsLater
<1>6. Occurs(c, t.rule) => Occurs(n, t.rule) /\ Gap(c + 1, n, t.rule)
  BY <1>3, <1>4, NextIsNext
<1>7. u \in RunState
  <2>1. t.count + 1 \in 0..MaxCatchup
    <3>1. t.count \in 0..MaxCatchup /\ MaxCatchup \in Nat
      BY <1>2, RecurringAssumption DEF RunState, RecurringAssumption
    <3> QED
      BY <1>1, <3>1
  <2> QED
    BY <1>2, <1>4, <1>5, <2>1 DEF Onward, RunState
<1>8. u.step = t.step /\ u.rule = t.rule /\ u.asOf = t.asOf
      /\ u.lastRun = c /\ u.cursor = n
  BY <1>2 DEF Onward, RunState
<1>9. template.exists
  BY <1>1 DEF Shape, TemplateFits
<1> HIDE DEF n, u, c, t
<1>10. /\ made' \in [Days -> Nat]
       /\ made'[c] = IF c \in live THEN made[c] ELSE made[c] + 1
       /\ \A d \in Days : d # c => made'[d] = made[d]
  BY <1>1, <1>4, Facts
<1>11. made'[c] > 0 /\ \A d \in Days : made[d] > 0 => made'[d] > 0
  <2>1. c \in live => made[c] > 0
    BY DEF Shape
  <2>2. \A d \in Days : made[d] \in Nat
    BY Facts
  <2> QED
    BY <1>4, <1>10, <2>1, <2>2
<1>12. run' \in [Runs -> RunState] /\ run'[j] = u
       /\ \A i \in Runs : i # j => run'[i] = run[i]
  BY <1>1, <1>7, Facts
<1>13. /\ \A i \in Runs : Running(i)' <=> Running(i)
       /\ Running(j)
  BY <1>1, <1>8, <1>12 DEF Running, t
<1>14. RecurringTypeOK'
  BY <1>1, <1>4, <1>10, <1>12, Facts DEF RecurringTypeOK
<1>15. RunFits(u)
  BY <1>1, <1>3, <1>4, <1>8 DEF RunFits, Dealt
<1>16. changes' = 0 => Nothing'
  BY <1>1, <1>9 DEF Shape, Nothing
<1>17. Shape'
  <2>1. \A d \in live' : made'[d] > 0
    BY <1>1, <1>11, Facts DEF Shape
  <2>2. \A i \in Runs : RunFits(run[i])'
    BY <1>12, <1>15 DEF Shape, RunFits
  <2> QED
    BY <1>1, <1>9, <1>14, <1>16, <2>1, <2>2 DEF Shape, TemplateFits, EditFits
<1>18. Faithful'
  <2> SUFFICES ASSUME ~edited PROVE Faithful'
    BY <1>1 DEF Faithful
  <2>1. /\ t.rule = template.rule /\ Occurs(c, template.rule) /\ Filled(c)
    BY <1>9, <1>13 DEF Faithful, t, c
  <2>3. ASSUME NEW d \in Days, template.start <= d, d < n, Occurs(d, template.rule)
        PROVE  made'[d] > 0
    <3>1. ~ (c + 1 <= d)
      BY <1>6, <2>1, <2>3 DEF Gap
    <3>2. d < c \/ d = c
      BY <1>4, <3>1, DayIsNat
    <3> QED
      BY <1>11, <2>1, <2>3, <3>2 DEF Filled
  <2>4. Occurs(n, template.rule)
    BY <1>6, <2>1
  <2>5. /\ Occurs(template.nextDue, template.rule) /\ Filled(template.nextDue)
        /\ \A i \in Runs : Running(i) =>
              /\ run[i].rule = template.rule
              /\ Occurs(run[i].cursor, template.rule)
              /\ Filled(run[i].cursor)
    BY <1>9 DEF Faithful
  <2>6. Filled(template.nextDue)'
    BY <1>1, <1>11, <2>5 DEF Filled
  <2>7. ASSUME NEW i \in Runs, Running(i)'
        PROVE  /\ run'[i].rule = template.rule
               /\ Occurs(run'[i].cursor, template.rule)
               /\ Filled(run[i].cursor)'
    <3>1. CASE i = j
      <4>1. run'[i].cursor = n /\ run'[i].rule = template.rule
        BY <1>8, <1>12, <2>1, <3>1
      <4>2. Filled(run[i].cursor)'
        BY <1>1, <2>3, <4>1 DEF Filled
      <4> QED
        BY <2>4, <4>1, <4>2
    <3>2. CASE i # j
      <4>1. run'[i] = run[i] /\ Running(i)
        BY <1>12, <1>13, <2>7, <3>2
      <4>2. Filled(run[i].cursor)
        BY <2>5, <4>1
      <4> QED
        BY <1>1, <1>11, <2>5, <4>1, <4>2 DEF Filled
    <3> QED
      BY <3>1, <3>2
  <2> QED
    BY <1>1, <2>5, <2>6, <2>7 DEF Faithful
<1>19. InStep'
  <2> SUFFICES ASSUME calm PROVE InStep'
    BY <1>1 DEF InStep
  <2>1. /\ OneAtATime /\ t.rule = template.rule
        /\ Due(template.rule, template.start, t.lastRun, c)
    BY <1>9, <1>13 DEF InStep, t, c
  <2>2. Due(template.rule, template.start, c, n)
    <3>1. c # Never
      BY <1>4 DEF Never
    <3> QED
      BY <1>5, <1>6, <2>1, <3>1 DEF Due
  <2>3. \A i \in Runs : Running(i)' => i = j
    BY <1>13, <2>1 DEF OneAtATime
  <2>4. OneAtATime'
    BY <1>1, <1>13, <2>1 DEF OneAtATime
  <2> QED
    BY <1>1, <1>8, <1>9, <1>12, <2>1, <2>2, <2>3, <2>4 DEF InStep
<1>20. NoDouble'
  <2> SUFFICES ASSUME calm, kept PROVE NoDouble'
    BY <1>1 DEF NoDouble
  <2>1. OneAtATime /\ t.lastRun < c
    BY <1>9, <1>13 DEF InStep, Due, t, c
  <2>2. Reached(t.lastRun) /\ \A d \in Days : made[d] <= 1
    BY <1>13 DEF NoDouble, t
  <2>3. t.lastRun \in Int /\ c \in Nat
    BY <1>3, <1>4, DealtFits, DayIsNat
  <2>4. ~ (made[c] > 0)
    BY <1>4, <2>1, <2>2, <2>3 DEF Reached
  <2>5. made[c] = 0
    <3>1. made[c] \in Nat
      BY <1>4, Facts
    <3> QED
      BY <2>4, <3>1
  <2>6. \A d \in Days : made'[d] <= 1
    BY <1>10, <2>2, <2>5
  <2>7. ASSUME NEW d \in Days, made'[d] > 0 PROVE d <= c
    <3>1. CASE d = c
      BY <2>3, <3>1
    <3>2. CASE d # c
      <4>1. d <= t.lastRun
        BY <1>10, <2>2, <2>7, <3>2 DEF Reached
      <4> QED
        BY <2>1, <2>3, <4>1, DayIsNat
    <3> QED
      BY <3>1, <3>2
  <2>8. \A i \in Runs : Running(i)' => i = j
    BY <1>13, <2>1 DEF OneAtATime
  <2> QED
    BY <1>8, <1>12, <1>13, <2>6, <2>7, <2>8 DEF NoDouble, Reached
<1> QED
  BY <1>17, <1>18, <1>19, <1>20

LEMMA StopKeeps == ASSUME RInv, NEW j \in Runs, Stop(j) PROVE RInv'
<1> USE DEF RInv
<1>1. /\ run[j].step = "booking" /\ run' = [run EXCEPT ![j].step = "stopped"]
      /\ (mishaps' = mishaps \/ (mishaps < MaxMishaps /\ mishaps' = mishaps + 1))
      /\ template' = template /\ live' = live /\ made' = made
      /\ today' = today /\ accepting' = accepting /\ edit' = edit
      /\ changes' = changes /\ calm' = calm /\ kept' = kept /\ edited' = edited
  BY DEF Stop, BookingRefused, tables, ghosts
<1> DEFINE t == run[j]
           u == [t EXCEPT !.step = "stopped"]
<1>2. run' = [run EXCEPT ![j] = u] /\ t \in RunState
  BY <1>1, Facts
<1>3. /\ u \in RunState /\ u.step = "stopped" /\ u.rule = t.rule /\ u.asOf = t.asOf
      /\ u.cursor = t.cursor /\ u.lastRun = t.lastRun
  BY <1>2 DEF RunState
<1> HIDE DEF u
<1>4. run' \in [Runs -> RunState] /\ run'[j] = u
      /\ \A i \in Runs : i # j => run'[i] = run[i]
  BY <1>2, <1>3, Facts
<1>5. /\ Running(j)
      /\ \A i \in Runs : /\ Running(i)' <=> Running(i)
                         /\ run'[i].rule = run[i].rule
                         /\ run'[i].cursor = run[i].cursor
                         /\ run'[i].lastRun = run[i].lastRun
  BY <1>1, <1>3, <1>4 DEF Running
<1>6. mishaps' \in 0..MaxMishaps
  BY <1>1, Facts, HorizonIsNat
<1>7. RecurringTypeOK'
  BY <1>1, <1>4, <1>6, Facts DEF RecurringTypeOK
<1>8. RunFits(u)
  BY <1>1, <1>3 DEF Shape, RunFits
<1>9. changes' = 0 => Nothing'
  BY <1>1, <1>5 DEF Shape, Nothing
<1>10. Shape'
  <2>1. \A i \in Runs : RunFits(run[i])'
    BY <1>4, <1>8 DEF Shape, RunFits
  <2> QED
    BY <1>1, <1>7, <1>9, <2>1 DEF Shape, TemplateFits, EditFits
<1>11. Faithful'
  BY <1>1, <1>5 DEF Faithful, Filled
<1>12. InStep'
  BY <1>1, <1>5 DEF InStep, OneAtATime
<1>13. NoDouble'
  BY <1>1, <1>5 DEF NoDouble, Reached
<1> QED
  BY <1>10, <1>11, <1>12, <1>13

LEMMA PersistKeeps == ASSUME RInv, NEW j \in Runs, Persist(j) PROVE RInv'
<1> USE DEF RInv
<1> DEFINE t == run[j]
<1>1. /\ Done(t)
      /\ template' = IF ~template.exists THEN template
                     ELSE [template EXCEPT !.lastRun = t.lastRun, !.nextDue = t.cursor]
      /\ run' = [run EXCEPT ![j] = NoRun]
      /\ live' = live /\ made' = made /\ today' = today
      /\ accepting' = accepting /\ edit' = edit /\ changes' = changes
      /\ mishaps' = mishaps /\ calm' = calm /\ kept' = kept /\ edited' = edited
  BY DEF Persist, ghosts
<1>2. t \in RunState /\ Running(j)
  BY <1>1, Facts DEF Done, Running
<1>3. t.lastRun \in Dealt /\ t.rule \in Rules
  BY <1>2 DEF Shape, RunFits, Running
<1>4. t.cursor \in Days /\ t.lastRun \in Days \union {Never}
  BY <1>2 DEF RunState
<1>5. /\ template' \in [exists : BOOLEAN, active : BOOLEAN, rule : Rules \union {NoRule},
                        start : Days, lastRun : Days \union {Never}, nextDue : Days]
      /\ template'.exists = template.exists /\ template'.rule = template.rule
      /\ template'.start = template.start
      /\ ~template.exists => template' = template
      /\ template.exists => /\ template'.lastRun = t.lastRun
                            /\ template'.nextDue = t.cursor
  BY <1>1, <1>4, Facts
<1>6. run' \in [Runs -> RunState] /\ run'[j] = NoRun
      /\ \A i \in Runs : i # j => run'[i] = run[i]
  BY <1>1, NothingTyped, Facts
<1>7. ~Running(j)' /\ \A i \in Runs : i # j => (Running(i)' <=> Running(i))
  BY <1>6, NothingTyped DEF Running
<1>8. RecurringTypeOK'
  BY <1>1, <1>5, <1>6, Facts DEF RecurringTypeOK
<1>9. changes' = 0 => Nothing'
  BY <1>1, <1>2 DEF Shape, Nothing
<1>10. TemplateFits'
  BY <1>1, <1>3, <1>5 DEF Shape, TemplateFits
<1>11. Shape'
  <2>1. \A i \in Runs : RunFits(run[i])'
    BY <1>6, NothingTyped DEF Shape, RunFits
  <2> QED
    BY <1>1, <1>8, <1>9, <1>10, <2>1 DEF Shape, EditFits
<1>12. Faithful'
  BY <1>1, <1>2, <1>5, <1>6, <1>7 DEF Faithful, Filled
<1>13. InStep'
  <2> SUFFICES ASSUME calm PROVE InStep'
    BY <1>1 DEF InStep
  <2>1. OneAtATime /\ \A i \in Runs : ~Running(i)'
    BY <1>2, <1>7 DEF InStep, OneAtATime
  <2>2. edit = NoEdit
    BY <1>2, <2>1 DEF OneAtATime
  <2>3. template.exists => Due(template.rule, template.start, t.lastRun, t.cursor)
    BY <1>2 DEF InStep
  <2> QED
    BY <1>1, <1>5, <2>1, <2>2, <2>3, NothingTyped DEF InStep, OneAtATime
<1>14. NoDouble'
  <2> SUFFICES ASSUME calm, kept PROVE NoDouble'
    BY <1>1 DEF NoDouble
  <2>1. \A i \in Runs : ~Running(i)'
    BY <1>2, <1>7 DEF InStep, OneAtATime
  <2>2. Reached(t.lastRun) /\ \A d \in Days : made[d] <= 1
    BY <1>2 DEF NoDouble
  <2>3. Reached(template.lastRun)'
    <3>1. CASE template.exists
      BY <1>1, <1>5, <2>2, <3>1 DEF Reached
    <3>2. CASE ~template.exists
      BY <1>1, <3>2 DEF Reached, Shape, TemplateFits
    <3> QED
      BY <3>1, <3>2
  <2> QED
    BY <1>1, <2>1, <2>2, <2>3 DEF NoDouble
<1> QED
  BY <1>11, <1>12, <1>13, <1>14

\* A run ends without its progress, alone or with everything else.
LEMMA LossKeeps ==
    ASSUME RInv, (\E j \in Runs : PersistFails(j)) \/ Restart
    PROVE  RInv'
<1> USE DEF RInv
<1>1. /\ template' = template /\ live' = live /\ made' = made /\ today' = today
      /\ accepting' = accepting /\ changes' = changes /\ calm' = calm
      /\ edited' = edited /\ kept' = FALSE
      /\ mishaps < MaxMishaps /\ mishaps' = mishaps + 1
      /\ edit' = edit \/ edit' = NoEdit
      /\ run' \in [Runs -> RunState]
      /\ \A i \in Runs : run'[i] = run[i] \/ run'[i] = NoRun
  <2>1. CASE \E j \in Runs : PersistFails(j)
    <3>1. PICK j \in Runs : PersistFails(j)
      BY <2>1
    <3> QED
      BY <3>1, NothingTyped, Facts DEF PersistFails, tables
  <2>2. CASE Restart
    BY <2>2, NothingTyped DEF Restart, tables
  <2> QED
    BY <2>1, <2>2
<1>2. \A i \in Runs : Running(i)' => Running(i) /\ run'[i] = run[i]
  BY <1>1, NothingTyped DEF Running
<1>3. mishaps' \in 0..MaxMishaps
  BY <1>1, Facts, HorizonIsNat
<1>4. RecurringTypeOK'
  BY <1>1, <1>3, NothingTyped, Facts DEF RecurringTypeOK
<1>5. changes' = 0 => Nothing'
  BY <1>1, <1>2 DEF Shape, Nothing
<1>6. Shape'
  <2>1. \A i \in Runs : RunFits(run[i])'
    BY <1>1, NothingTyped DEF Shape, RunFits
  <2>2. EditFits'
    BY <1>1, NothingTyped DEF Shape, EditFits, Dealt
  <2> QED
    BY <1>1, <1>4, <1>5, <2>1, <2>2 DEF Shape, TemplateFits
<1>7. Faithful'
  BY <1>1, <1>2 DEF Faithful, Filled
<1>8. InStep'
  BY <1>1, <1>2, NothingTyped DEF InStep, OneAtATime
<1>9. NoDouble'
  BY <1>1 DEF NoDouble
<1> QED
  BY <1>6, <1>7, <1>8, <1>9

LEMMA StepKeeps == ASSUME RInv, [RecurringNext]_recurringVars PROVE RInv'
<1>1. CASE Create
  BY <1>1, CreateKeeps
<1>2. CASE BeginEdit
  BY <1>2, BeginEditKeeps
<1>3. CASE CommitEdit
  BY <1>3, CommitEditKeeps
<1>4. CASE SetActive
  BY <1>4, SetActiveKeeps
<1>5. CASE DeleteTemplate
  BY <1>5, DeleteTemplateKeeps
<1>6. CASE DeleteExpense \/ SwitchPeriod \/ NextDay \/ UNCHANGED recurringVars
  BY <1>6, LittleKeeps
<1>7. CASE Restart
  BY <1>7, LossKeeps
<1>8. ASSUME NEW j \in Runs, BeginRun(j) \/ RunStep(j) \/ PersistFails(j) PROVE RInv'
  BY <1>8, BeginRunKeeps, BookKeeps, StopKeeps, PersistKeeps, LossKeeps DEF RunStep
<1> QED
  BY <1>1, <1>2, <1>3, <1>4, <1>5, <1>6, <1>7, <1>8 DEF RecurringNext

LEMMA RecurringAlways == RecurringSpec => []RInv
<1> QED
  BY InitHolds, StepKeeps, PTL DEF RecurringSpec

\* generateDue, "A program that was closed across several due dates fills them
\* all": no date of a rule that nobody edited is passed over, whatever overlaps,
\* fails, is paused or restarts.
THEOREM NoDateSkipped == RecurringSpec => []NothingSkipped
<1>1. RInv => NothingSkipped
  <2> SUFFICES ASSUME RInv, template.exists, ~edited,
                      NEW d \in template.start..(template.nextDue - 1),
                      Occurs(d, template.rule)
               PROVE  made[d] > 0
    BY DEF NothingSkipped
  <2>1. Filled(template.nextDue)
    BY DEF RInv, Faithful
  <2>2. template.start \in Nat /\ template.nextDue \in Days
    BY Facts, DayIsNat DEF RInv
  <2>3. d \in Days /\ template.start <= d /\ d < template.nextDue
    <3> DEFINE end == Until[L]
    <3>1. end \in Nat
      <4>1. L \in 0..L
        BY LengthsTyped
      <4> QED
        BY <4>1, UntilStep DEF Numbers
    <3>2. template.nextDue \in 0..(end - 1)
      BY <2>2 DEF Days, L
    <3> HIDE DEF end
    <3>3. d \in 0..(end - 1) /\ template.start <= d /\ d < template.nextDue
      BY <2>2, <3>1, <3>2
    <3> QED
      BY <3>3 DEF Days, L, end
  <2> QED
    BY <2>1, <2>3 DEF Filled
<1> QED
  BY <1>1, RecurringAlways, PTL

\* While runs and edits do not overlap, the next due date is the date of the
\* rule that follows the last run, through edits of rule and start, short
\* months and runs that stop half-way (#computeNextDue, nextOccurrenceAfter).
THEOREM DatesFollowRule == RecurringSpec => []DatesInOrder
<1>1. RInv => DatesInOrder
  <2> SUFFICES ASSUME RInv, calm, template.exists
               PROVE  /\ Occurs(template.nextDue, template.rule)
                      /\ \A d \in Days :
                            /\ d < template.nextDue
                            /\ d > IF template.lastRun = Never
                                   THEN template.start - 1 ELSE template.lastRun
                            => ~Occurs(d, template.rule)
    BY DEF DatesInOrder, StaysOnSchedule, RInv, Shape
  <2>1. Due(template.rule, template.start, template.lastRun, template.nextDue)
    BY DEF RInv, InStep
  <2>2. template.start \in Nat /\ template.lastRun \in Int
    <3>1. template.start \in Days /\ template.lastRun \in Days \union {Never}
      BY Facts DEF RInv
    <3>2. template.start \in Nat
      BY <3>1, DayIsNat
    <3>3. Never \in Int
      BY DEF Never
    <3>4. CASE template.lastRun = Never
      BY <3>2, <3>3, <3>4
    <3>5. CASE template.lastRun # Never
      <4>1. template.lastRun \in Nat
        BY <3>1, <3>5, DayIsNat
      <4> QED
        BY <3>2, <4>1
    <3> QED
      BY <3>4, <3>5
  <2>3. ASSUME NEW d \in Days, d < template.nextDue,
               d > IF template.lastRun = Never
                   THEN template.start - 1 ELSE template.lastRun
        PROVE  ~Occurs(d, template.rule)
    <3>1. (IF template.lastRun = Never THEN template.start
           ELSE template.lastRun + 1) <= d
      BY <2>2, <2>3, DayIsNat
    <3> QED
      BY <2>1, <2>3, <3>1 DEF Due, Gap
  <2> QED
    BY <2>1, <2>3 DEF Due
<1> QED
  BY <1>1, RecurringAlways, PTL

\* "Running it often, or twice in a row, never double-charges": an expense the
\* user has deleted is not created again, unless runs or edits overlapped or a
\* run's progress was lost.
THEOREM ChargedOnce == RecurringSpec => []DeletedStaysDeleted
<1>1. RInv => DeletedStaysDeleted
  BY DEF RInv, NoDouble, DeletedStaysDeleted
<1> QED
  BY <1>1, RecurringAlways, PTL

=============================================================================
