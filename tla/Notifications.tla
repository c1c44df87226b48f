--------------------------- MODULE Notifications ---------------------------
(***************************************************************************)
(* The message queue of backend/src/services/notifications: a row per      *)
(* message, enqueued once per dedupe key (createNotification), claimed in  *)
(* batches, sent through a provider with a fallback channel and marked     *)
(* (notificationQueue.js), put back by staff (retryNotification).          *)
(*                                                                         *)
(* Every statement is a transaction of its own, so a worker that dies, or  *)
(* whose statement fails, leaves its rows "processing" until their lease   *)
(* expires.  A worker is a server process: one, or a second one started by *)
(* mistake.  Time is abstract: a retry comes due and a lease expires at    *)
(* any moment.                                                             *)
(***************************************************************************)
EXTENDS Naturals, FiniteSets

CONSTANTS
    Rows,           \* ids of notifications rows
    NoRow,          \* the row of a worker that handles none
    Keys,           \* dedupe keys
    Workers,        \* server processes with a queue worker
    Requests,       \* requests and overdue scans in flight at the same time
    Preferences,    \* channels a caller may ask for
    Configurations, \* notification settings an administrator may save
    BatchSize,      \* BATCH_SIZE
    MaxAttempts,    \* max_attempts of a row
    Deployments     \* the workers started, and bounds on the rest

Channels == {"sms", "whatsapp"}
Off == [channels |-> {}, fallback |-> FALSE]

\* Bounds: the rows; crashes, failed statements and lost answers; retries
\* ordered by staff; changes of the settings.
Deployment == [workers : SUBSET Workers, rows : SUBSET Rows,
               faults : Nat, retries : Nat, configures : Nat]

ASSUME NotificationsAssumption ==
    /\ NoRow \notin Rows
    /\ IsFiniteSet(Rows)
    /\ IsFiniteSet(Workers)
    /\ Preferences \subseteq Channels \union {"auto"} /\ "auto" \in Preferences
    /\ Configurations \subseteq [channels : SUBSET Channels, fallback : BOOLEAN]
    /\ Configurations # {}
    /\ BatchSize \in Nat \ {0}
    /\ MaxAttempts \in Nat \ {0}
    /\ Deployments \subseteq Deployment

VARIABLES
    row,            \* the notifications table
    settings,       \* notification_settings; no channel is "switched off"
    worker,         \* what each worker is doing
    req,            \* what each request in flight has read
    accepted,       \* per row, the messages the provider accepted
    excuses,        \* per row, the mishaps that may repeat its message
    spoilt,         \* keys whose reads of the table may mislead
    deployment,     \* chosen at the start
    faults, retries, configures

vars == <<row, settings, worker, req, accepted, excuses, spoilt,
          deployment, faults, retries, configures>>
bounds == <<deployment, faults, retries, configures>>

\* due: next_attempt_at has passed; stale: the lease on updated_at has.
Row == [status : {"absent", "pending", "processing", "sent", "failed"},
        key : Keys \union {NoRow}, pref : Preferences, attempts : 0..MaxAttempts,
        due : BOOLEAN, stale : BOOLEAN]
Worker == [pc : {"idle", "selected", "batch", "calling", "accepted", "failed"},
           ids : SUBSET Rows, seen : [Rows -> 0..MaxAttempts],
           at : Rows \union {NoRow}, channel : Channels, settings : Configurations \union {Off}]
Request == [op : {"idle", "enqueue", "retry"}, key : Keys \union {NoRow}, pref : Preferences,
            row : Rows \union {NoRow}]

NoMessage == [status |-> "absent", key |-> NoRow, pref |-> "auto", attempts |-> 0,
              due |-> FALSE, stale |-> FALSE]
NoRequest == [op |-> "idle", key |-> NoRow, pref |-> "auto", row |-> NoRow]
Resting == [pc |-> "idle", ids |-> {}, seen |-> [n \in Rows |-> 0], at |-> NoRow,
            channel |-> "sms", settings |-> Off]

Live(n) == row[n].status \in {"pending", "processing", "sent"}
Holds(w, n) ==
    \/ worker[w].pc \in {"batch", "calling", "accepted", "failed"} /\ n \in worker[w].ids
    \/ worker[w].at = n

Excuse(S) == excuses' = [n \in Rows |-> IF n \in S THEN excuses[n] + 1 ELSE excuses[n]]

\* resolveInitialChannel and nextFallbackChannel; none is {}.
InitialChannel(pref, conf) ==
    IF pref # "auto" THEN {pref} \intersect conf.channels
    ELSE IF "whatsapp" \in conf.channels THEN {"whatsapp"}
    ELSE conf.channels
FallbackChannel(channel, pref, conf) ==
    IF conf.fallback /\ pref = "auto" /\ channel = "whatsapp"
    THEN {"sms"} \intersect conf.channels ELSE {}

-----------------------------------------------------------------------------
(* createNotification *)

DedupeSentOnly(k, n) ==  \* mutant: only a message already sent is a duplicate
    row[n].key = k /\ row[n].status = "sent"

\* What is a duplicate of a new message with key k.
Duplicate(k, n) == row[n].key = k /\ Live(n)

\* SELECT ... WHERE dedupe_key = k LIMIT 1 returns any one row of the key.
BeginEnqueue(r) ==
    \E k \in Keys, p \in Preferences :
        /\ req[r] = NoRequest
        /\ Cardinality({n \in deployment.rows : row[n] = NoMessage})
             > Cardinality({s \in Requests : req[s].op = "enqueue"})
        /\ InitialChannel(p, settings) # {}
        /\ LET found == {n \in Rows : row[n].status # "absent" /\ row[n].key = k}
           IN  found # {} => \E n \in found : ~Duplicate(k, n)
        /\ req' = [req EXCEPT ![r] = [op |-> "enqueue", key |-> k, pref |-> p,
                                      row |-> NoRow]]
        /\ spoilt' = IF \E s \in Requests : req[s].op = "enqueue" /\ req[s].key = k
                     THEN spoilt \union {k} ELSE spoilt
        /\ UNCHANGED <<row, settings, worker, accepted, excuses, bounds>>

CommitEnqueue(r) ==
    \E n \in deployment.rows :
        /\ req[r].op = "enqueue"
        /\ row[n].status = "absent"
        /\ row' = [row EXCEPT ![n] = [status |-> "pending", key |-> req[r].key,
                                      pref |-> req[r].pref, attempts |-> 0,
                                      due |-> TRUE, stale |-> FALSE]]
        /\ req' = [req EXCEPT ![r] = NoRequest]
        /\ UNCHANGED <<settings, worker, accepted, excuses, spoilt, bounds>>

-----------------------------------------------------------------------------
(* retryNotification *)

BeginRetry(r) ==
    \E n \in Rows :
        /\ req[r] = NoRequest
        /\ retries < deployment.retries
        /\ row[n].status \notin {"absent", "sent"}
        /\ retries' = retries + 1
        /\ req' = [req EXCEPT ![r].op = "retry", ![r].row = n]
        /\ UNCHANGED <<row, settings, worker, accepted, excuses, spoilt, deployment, faults, configures>>

\* A message a worker holds, or has sent since the read, may go out again.
CommitRetry(r) ==
    LET n == req[r].row
    IN  /\ req[r].op = "retry"
        /\ row' = [row EXCEPT ![n].status = "pending", ![n].attempts = 0,
                              ![n].due = TRUE, ![n].stale = FALSE]
        /\ req' = [req EXCEPT ![r] = NoRequest]
        /\ Excuse({m \in {n} : row[m].status = "sent" \/ \E w \in Workers : Holds(w, m)})
        /\ UNCHANGED <<settings, worker, accepted, spoilt, bounds>>

-----------------------------------------------------------------------------
(* tick and claimDuePending *)

ClaimablePending(n) ==  \* mutant: rows with an expired lease are not looked for
    row[n].due /\ row[n].status = "pending"

Claimable(n) ==
    /\ row[n].due
    /\ \/ row[n].status = "pending"
       \/ row[n].status = "processing" /\ row[n].stale

\* No tick runs while another is in flight, or with every channel off.
Select(w) ==
    \E S \in SUBSET {n \in Rows : Claimable(n)} :
        /\ w \in deployment.workers
        /\ worker[w] = Resting
        /\ settings.channels # {}
        /\ S # {}
        /\ Cardinality(S) <= BatchSize
        /\ Cardinality(S) < BatchSize => S = {n \in Rows : Claimable(n)}
        /\ worker' = [worker EXCEPT ![w].pc = "selected", ![w].ids = S,
                                    ![w].settings = settings]
        /\ UNCHANGED <<row, settings, req, accepted, excuses, spoilt, bounds>>

ClaimAll(S) == S  \* mutant: the UPDATE does not look at the status again

\* The UPDATE asks for the status again, not for the lease.
ClaimedOf(S) == {n \in S : row[n].status \in {"pending", "processing"}}

Claim(w) ==
    LET S == ClaimedOf(worker[w].ids)
    IN  /\ worker[w].pc = "selected"
        /\ row' = [n \in Rows |-> IF n \in S
                THEN [row[n] EXCEPT !.status = "processing", !.stale = FALSE] ELSE row[n]]
        /\ worker' = [worker EXCEPT ![w] = IF S = {} THEN Resting ELSE
                [@ EXCEPT !.pc = "batch", !.ids = S,
                          !.seen = [n \in Rows |-> IF n \in S THEN row[n].attempts ELSE 0]]]
        /\ Excuse({n \in S : \E v \in Workers \ {w} : Holds(v, n)})
        /\ UNCHANGED <<settings, req, accepted, spoilt, bounds>>

-----------------------------------------------------------------------------
(* processOne *)

\* The channel is resolved against the tick's settings, not the row's.
Pick(w) ==
    \E n \in worker[w].ids :
        LET first == InitialChannel(row[n].pref, worker[w].settings)
        IN  /\ worker[w].pc = "batch"
            /\ first # {}
            /\ \E c \in first :
                worker' = [worker EXCEPT ![w].pc = "calling", ![w].at = n,
                                         ![w].ids = @ \ {n}, ![w].channel = c]
            /\ UNCHANGED <<row, settings, req, accepted, excuses, spoilt, bounds>>

\* What the worker does once n is marked: after its last row the tick ends.
DoneWith(w, n) ==
    LET left == worker[w].ids \ {n}
    IN  IF left = {} THEN Resting
        ELSE [worker[w] EXCEPT !.pc = "batch", !.ids = left, !.at = NoRow,
                               !.seen[n] = 0, !.channel = "sms"]

\* No channel is left for the row's preference: it fails for good.
FailOutright(w) ==
    \E n \in worker[w].ids :
        /\ worker[w].pc = "batch"
        /\ InitialChannel(row[n].pref, worker[w].settings) = {}
        /\ row' = [row EXCEPT ![n].status = "failed", ![n].due = FALSE,
                              ![n].attempts = worker[w].seen[n] + 1]
        /\ worker' = [worker EXCEPT ![w] = DoneWith(w, n)]
        /\ spoilt' = spoilt \union {row[n].key}
        /\ UNCHANGED <<settings, req, accepted, excuses, bounds>>

Accepted(w) ==
    /\ worker[w].pc = "calling"
    /\ accepted' = [accepted EXCEPT ![worker[w].at] = @ + 1]
    /\ worker' = [worker EXCEPT ![w].pc = "accepted"]
    /\ UNCHANGED <<row, settings, req, excuses, spoilt, bounds>>

\* After a refusal the fallback channel, if there is one, or the failure.
AfterRefusal(w) ==
    LET next == FallbackChannel(worker[w].channel, row[worker[w].at].pref,
                                worker[w].settings)
    IN  IF next = {} THEN [worker[w] EXCEPT !.pc = "failed"]
        ELSE [worker[w] EXCEPT !.channel = CHOOSE c \in next : TRUE]

Refused(w) ==
    /\ worker[w].pc = "calling"
    /\ worker' = [worker EXCEPT ![w] = AfterRefusal(w)]
    /\ UNCHANGED <<row, settings, req, accepted, excuses, spoilt, bounds>>

MarkSent(w) ==
    LET n == worker[w].at
    IN  /\ worker[w].pc = "accepted"
        /\ row' = [row EXCEPT ![n].status = "sent"]
        /\ worker' = [worker EXCEPT ![w] = DoneWith(w, n)]
        /\ UNCHANGED <<settings, req, accepted, excuses, spoilt, bounds>>

StatusAfter(tried) == IF tried < MaxAttempts THEN "pending" ELSE "failed"

\* Attempts as the claim saw them; the retry comes due later.
MarkFailed(w) ==
    LET n == worker[w].at
        tried == worker[w].seen[n] + 1
    IN  /\ worker[w].pc = "failed"
        /\ row' = [row EXCEPT ![n].status = StatusAfter(tried), ![n].attempts = tried,
                              ![n].due = FALSE, ![n].stale = FALSE]
        /\ spoilt' = IF StatusAfter(tried) = "failed" THEN spoilt \union {row[n].key}
                     ELSE spoilt
        /\ worker' = [worker EXCEPT ![w] = DoneWith(w, n)]
        /\ UNCHANGED <<settings, req, accepted, excuses, bounds>>

-----------------------------------------------------------------------------
(* Faults, settings and time *)

Fault ==
    /\ faults < deployment.faults
    /\ faults' = faults + 1
    /\ UNCHANGED <<row, settings, req, spoilt, deployment, retries, configures>>

\* The provider takes the message but its answer never comes: a refusal.
AnswerLost(w) ==
    /\ Fault
    /\ worker[w].pc = "calling"
    /\ accepted' = [accepted EXCEPT ![worker[w].at] = @ + 1]
    /\ worker' = [worker EXCEPT ![w] = AfterRefusal(w)]
    /\ Excuse({worker[w].at})

\* The log row or the mark of an accepted message cannot be written: the
\* worker's catch treats it as a failure.
WriteFails(w) ==
    /\ Fault
    /\ worker[w].pc = "accepted"
    /\ worker' = [worker EXCEPT ![w].pc = "failed"]
    /\ Excuse({worker[w].at})
    /\ UNCHANGED accepted

\* The catch's own write fails, and with it the tick; or the process ends.
Crash(w) ==
    /\ Fault
    /\ worker[w] # Resting
    /\ worker' = [worker EXCEPT ![w] = Resting]
    /\ Excuse({n \in Rows : worker[w].pc = "accepted" /\ worker[w].at = n})
    /\ UNCHANGED accepted

Configure ==
    \E c \in Configurations \ {settings} :
        /\ configures < deployment.configures
        /\ configures' = configures + 1
        /\ settings' = c
        /\ UNCHANGED <<row, worker, req, accepted, excuses, spoilt, deployment, faults, retries>>

ComesDue(n) ==
    /\ row[n].status \in {"pending", "processing"}
    /\ ~row[n].due
    /\ row' = [row EXCEPT ![n].due = TRUE]
    /\ UNCHANGED <<settings, worker, req, accepted, excuses, spoilt, bounds>>

LeaseExpires(n) ==
    /\ row[n].status = "processing"
    /\ ~row[n].stale
    /\ row' = [row EXCEPT ![n].stale = TRUE]
    /\ UNCHANGED <<settings, worker, req, accepted, excuses, spoilt, bounds>>

-----------------------------------------------------------------------------

Init ==
    /\ row = [n \in Rows |-> NoMessage]
    /\ req = [r \in Requests |-> NoRequest]
    /\ settings \in Configurations
    /\ worker = [w \in Workers |-> Resting]
    /\ accepted = [n \in Rows |-> 0]
    /\ excuses = [n \in Rows |-> 0]
    /\ spoilt = {}
    /\ deployment \in Deployments
    /\ faults = 0
    /\ retries = 0
    /\ configures = 0

Work(w) ==
    \/ Select(w) \/ Claim(w) \/ Pick(w) \/ FailOutright(w)
    \/ Accepted(w) \/ Refused(w) \/ MarkSent(w) \/ MarkFailed(w)

Ask(r) == BeginEnqueue(r) \/ CommitEnqueue(r) \/ BeginRetry(r) \/ CommitRetry(r)

Mishap(w) == AnswerLost(w) \/ WriteFails(w) \/ Crash(w)

Time(n) == ComesDue(n) \/ LeaseExpires(n)

Next ==
    \/ \E w \in Workers : Work(w) \/ Mishap(w)
    \/ \E r \in Requests : Ask(r)
    \/ \E n \in Rows : Time(n)
    \/ Configure

\* The interval timer ticks, provider calls time out, clocks advance.
Fairness ==
    /\ \A w \in Workers : WF_vars(Work(w))
    /\ \A n \in Rows : WF_vars(Time(n))

Spec == Init /\ [][Next]_vars /\ Fairness

-----------------------------------------------------------------------------
(* Properties *)

TypeOK ==
    /\ row \in [Rows -> Row]
    /\ settings \in Configurations
    /\ worker \in [Workers -> Worker]
    /\ req \in [Requests -> Request]
    /\ accepted \in [Rows -> Nat]
    /\ excuses \in [Rows -> Nat]
    /\ spoilt \subseteq Keys
    /\ deployment \in Deployments
    /\ faults \in 0..deployment.faults
    /\ retries \in 0..deployment.retries
    /\ configures \in 0..deployment.configures

\* A row says "sent" only of a message the provider has accepted, whatever
\* died, failed or was claimed twice on the way.
SentMeansAccepted ==
    \A n \in Rows : row[n].status = "sent" => accepted[n] > 0

\* A customer gets a message more than once only for a reason: an answer was
\* lost, a write failed or the process died after the provider's yes, a
\* second worker claimed the row, or staff put back a row in flight.
RepeatsExplained == \A n \in Rows : accepted[n] <= 1 + excuses[n]

\* What the queue says of a message is what became of it: sent means taken by
\* the provider, once unless something explains the repeat.
SendsExplained == TypeOK /\ SentMeansAccepted /\ RepeatsExplained

\* "skip if an identical un-failed notification already exists": one live
\* row per key, unless two requests read at once or a row of the key has
\* failed (the read returns one row, which may be the failed one).
OneLivePerKey ==
    \A m, n \in Rows :
        m # n /\ Live(m) /\ Live(n) /\ row[m].key = row[n].key => row[m].key \in spoilt

\* Every message is sent or given up in the end, through crashes, failed
\* writes and expired leases, unless notifications stay switched off.
EverythingSettles ==
    []<>(settings.channels # {}) =>
        \A n \in Rows : row[n].status \in {"pending", "processing"}
                            ~> row[n].status \in {"sent", "failed"}
=============================================================================
