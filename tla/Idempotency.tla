---------------------------- MODULE Idempotency ----------------------------
(***************************************************************************)
(* Requests that carry an Idempotency-Key (utils/idempotency.js).          *)
(*                                                                         *)
(* An attempt looks its key up; a key with a stored answer is answered     *)
(* from it and the handler does not run (nothing changes, so there is no   *)
(* action for it).  Otherwise the handler runs and commits, or throws, and *)
(* only afterwards, in a statement of its own, is the answer stored.       *)
(* Nothing holds the key in between.                                       *)
(*                                                                         *)
(* One scope; an attempt without a key goes through without either step.   *)
(* Answers are always of the 2xx kind when the handler returns.            *)
(***************************************************************************)
EXTENDS Naturals

CONSTANTS
    Attempts,       \* requests in flight at the same time
    Keys,           \* keys the clients use
    NoKey           \* the key of a request without the header

ASSUME KeysAssumption == NoKey \notin Keys

VARIABLES
    stored,         \* keys that have an idempotency_keys row
    attempt,        \* where each request is, and its key
    ran,            \* how often the handler has committed, by key
    excused         \* keys that two attempts overlapped on, or lost an answer

keyVars == <<stored, attempt, ran, excused>>

Attempt == [step : {"idle", "running", "ran"}, key : Keys \union {NoKey}]
Away == [step |-> "idle", key |-> NoKey]

Using(k) == {r \in Attempts : attempt[r].step # "idle" /\ attempt[r].key = k}

LookUpBlind(r, k) ==  \* mutant: the stored answer is not looked for
    /\ attempt[r] = Away
    /\ attempt' = [attempt EXCEPT ![r] = [step |-> "running", key |-> k]]
    /\ excused' = IF Using(k) = {} THEN excused ELSE excused \union {k}
    /\ UNCHANGED <<stored, ran>>

\* The key is unused, as far as this attempt can see: the handler starts.
LookUp(r, k) ==
    /\ attempt[r] = Away
    /\ k \notin stored
    /\ attempt' = [attempt EXCEPT ![r] = [step |-> "running", key |-> k]]
    /\ excused' = IF Using(k) = {} THEN excused ELSE excused \union {k}
    /\ UNCHANGED <<stored, ran>>

\* The handler's transaction commits.
HandlerCommits(r) ==
    LET k == attempt[r].key
    IN  /\ attempt[r].step = "running"
        /\ attempt' = [attempt EXCEPT ![r].step = "ran"]
        /\ ran' = [x \in Keys |-> IF x = k THEN ran[x] + 1 ELSE ran[x]]
        /\ UNCHANGED <<stored, excused>>

\* The handler throws, or the process ends before its COMMIT: nothing is
\* stored and a retry runs it again.
HandlerFails(r) ==
    /\ attempt[r].step = "running"
    /\ attempt' = [attempt EXCEPT ![r] = Away]
    /\ UNCHANGED <<stored, ran, excused>>

\* The answer is stored; a row that is there already stays.
StoreAnswer(r) ==
    /\ attempt[r].step = "ran"
    /\ attempt' = [attempt EXCEPT ![r] = Away]
    /\ stored' = (stored \union {attempt[r].key}) \ {NoKey}
    /\ UNCHANGED <<ran, excused>>

\* The insert fails, which is only logged, or the process ends before it.
AnswerLost(r) ==
    /\ attempt[r].step = "ran"
    /\ attempt' = [attempt EXCEPT ![r] = Away]
    /\ excused' = excused \union {attempt[r].key}
    /\ UNCHANGED <<stored, ran>>

KeysInit ==
    /\ stored = {}
    /\ attempt = [r \in Attempts |-> Away]
    /\ ran = [k \in Keys |-> 0]
    /\ excused = {}

KeysNext ==
    \E r \in Attempts :
        \/ \E k \in Keys \union {NoKey} : LookUp(r, k)
        \/ HandlerCommits(r)
        \/ HandlerFails(r)
        \/ StoreAnswer(r)
        \/ AnswerLost(r)

KeysSpec == KeysInit /\ [][KeysNext]_keyVars

-----------------------------------------------------------------------------

KeysTypeOK ==
    /\ stored \subseteq Keys
    /\ attempt \in [Attempts -> Attempt]
    /\ ran \in [Keys -> Nat]
    /\ excused \subseteq Keys \union {NoKey}

\* "Any later request with the same key+scope short-circuits and replays
\* the cached response": a key's handler commits once, however often the
\* request is retried, unless two of its attempts overlapped or an answer
\* was lost after the commit.
RunsOnce == \A k \in Keys \ excused : ran[k] <= 1
=============================================================================
