---------------------------- MODULE BackendUpdate ----------------------------
(***************************************************************************)
(* The in-place update of the backend's files by the desktop application   *)
(* (scripts/backendUpdater.js in service mode, with the update lock of     *)
(* scripts/security.js and the service calls of scripts/backendManager.js  *)
(* and scripts/backendChecker.js).                                         *)
(*                                                                         *)
(* The payload is a set of directory entries.  An update stops the Windows *)
(* service, renames the entries of its bundle aside, copies the bundle in  *)
(* their place, starts the service and asks it for its health; then it     *)
(* either discards what it moved aside or puts it back.  Moving, copying,  *)
(* clearing and restoring are synchronous: they hold the process's only    *)
(* thread, one file operation per step, so that the process may die        *)
(* between any two of them.  Everything else is awaited.                   *)
(***************************************************************************)
EXTENDS Naturals

CONSTANTS
    Entries,    \* the names in the backend directory, service host left out
    Bundles,    \* the versions a bundle may bring
    Payload,    \* [Bundles -> SUBSET Entries]: the entries of each bundle
    Releases,   \* the versions the application's own installer brings
    First,      \* the release installed first
    MaxUpdates, \* bound on the applyBackendUpdate calls, numbered in order
    Nobody,     \* no update: nobody holds the thread, no bundle
    MaxFaults   \* bound on the file operations, service calls and locks that
                \* go wrong; a rename that is taken back may fail in addition

Updates == 1 .. MaxUpdates

Absent == "absent"      \* there is no such entry
Torn   == "torn"        \* an entry copied or removed in part

Versions == Bundles \cup Releases
Contents == Versions \cup {Absent, Torn}
Images   == [Entries -> Contents]

Off == [e \in Entries |-> "off"]    \* the image of a service that is not running

ASSUME BackendAssumption ==
    /\ First \in Releases
    /\ Payload \in [Bundles -> SUBSET Entries]
    /\ \A b \in Bundles : Payload[b] # {}
    /\ Absent \notin Versions /\ Torn \notin Versions
    /\ MaxUpdates \in Nat /\ MaxFaults \in Nat
    /\ Nobody \notin Nat /\ Nobody \notin Bundles

VARIABLES
    live,       \* content of every entry of <resources>/backend
    aside,      \* per update, what it renamed to `<name>.bak-<tag>`
    service,    \* Off, or the image the service loaded when it started
    updates,    \* per update, how far it is
    thread,     \* the update in a synchronous section, or Nobody
    lock,       \* backend-update.lock: free, held, stale
    faults,     \* number of things that went wrong so far
    installed,  \* what the updates and installs that succeeded make of live
    spoilt,     \* a swap was cut short, undone in part or overlapped
    aged        \* a lock grew stale while its holder was alive

backendVars == <<live, aside, service, updates, thread, lock, faults,
                 installed, spoilt, aged>>

-----------------------------------------------------------------------------
SyncStages  == {"aside", "unaside", "mirror", "clearing", "restoring"}
AwaitStages == {"stopping", "validating", "halting", "reviving"}
Stages      == SyncStages \cup AwaitStages
SwapStages  == SyncStages \cup {"validating", "halting"}

Unused == [at |-> "idle", bundle |-> Nobody, moved |-> {}, left |-> {},
           doubt |-> FALSE]
Ended(stage) == [Unused EXCEPT !.at = stage]

At(u, stage) == updates[u].at = stage
Active       == {u \in Updates : updates[u].at \in Stages}
Swapping     == {u \in Updates : updates[u].at \in SwapStages}
Mine(u)      == Payload[updates[u].bundle]

Faulty == faults < MaxFaults /\ faults' = faults + 1

BackendInit ==
    /\ live = [e \in Entries |-> First]
    /\ aside = [u \in Updates |-> [e \in Entries |-> Absent]]
    /\ service \in {Off, live}
    /\ updates = [u \in Updates |-> Unused]
    /\ thread = Nobody
    /\ lock = "free"
    /\ faults = 0
    /\ installed = live
    /\ spoilt = FALSE
    /\ aged = FALSE

-----------------------------------------------------------------------------
\* mutant: the lock is written, never read
ApplyUnlocked(u, b) ==
    /\ thread = Nobody
    /\ updates[u] = Unused
    /\ \A v \in Updates : v < u => updates[v] # Unused
    /\ lock' = "held"
    /\ updates' = [updates EXCEPT ![u] = [Unused EXCEPT !.at = "stopping", !.bundle = b]]
    /\ UNCHANGED <<live, aside, service, thread, faults, installed, spoilt, aged>>

\* mutant: what earlier updates left aside is swept away first
ApplySweeping(u, b) ==
    /\ thread = Nobody
    /\ updates[u] = Unused
    /\ \A v \in Updates : v < u => updates[v] # Unused
    /\ lock # "held"
    /\ lock' = "held"
    /\ updates' = [updates EXCEPT ![u] = [Unused EXCEPT !.at = "stopping", !.bundle = b]]
    /\ aside' = [v \in Updates |-> [e \in Entries |-> Absent]]
    /\ UNCHANGED <<live, service, thread, faults, installed, spoilt, aged>>

(* applyBackendUpdate: the lock, then staging and verification, all before *)
(* the first await.  A fresh lock of a live holder refuses the call and    *)
(* changes nothing; a stale one is replaced.                               *)
Apply(u, b) ==
    /\ thread = Nobody
    /\ updates[u] = Unused
    /\ \A v \in Updates : v < u => updates[v] # Unused
    /\ lock # "held"
    /\ lock' = "held"
    /\ updates' = [v \in Updates |->
           IF v = u THEN [Unused EXCEPT !.at = "stopping", !.bundle = b,
                                        !.doubt = Active # {}]
           ELSE [updates[v] EXCEPT !.doubt = @ \/ v \in Active]]
    /\ spoilt' = (spoilt \/ Active # {})
    /\ UNCHANGED <<live, aside, service, thread, faults, installed, aged>>

(* A bundle that cannot be staged or verified ends the call; all that      *)
(* remains of it is that a stale lock is gone.                             *)
BundleRejected ==
    /\ thread = Nobody
    /\ lock = "stale"
    /\ lock' = "free"
    /\ UNCHANGED <<live, aside, service, updates, thread, faults, installed,
                   spoilt, aged>>

(* StopBackend: a stop that fails or times out is logged, never thrown, so *)
(* the swap goes on beneath a service that still runs.                     *)
StopService(u) ==
    /\ thread = Nobody
    /\ updates[u].at \in {"stopping", "halting"}
    /\ \/ service' = Off /\ UNCHANGED faults
       \/ service # Off /\ Faulty /\ UNCHANGED service
    /\ thread' = u
    /\ LET r == [updates[u] EXCEPT !.at = IF @ = "stopping" THEN "aside" ELSE "clearing",
                                   !.left = Mine(u),
                                   !.doubt = @ \/ service' # Off]
       IN updates' = [updates EXCEPT ![u] = r]
    /\ UNCHANGED <<live, aside, lock, installed, spoilt, aged>>

-----------------------------------------------------------------------------
(* moveCurrentPayloadAside, one entry per step.                            *)

\* u has dealt with e; after its last entry it goes on with `entries` at
\* `stage`, and keeps the thread only for a synchronous stage.
Advance(u, e, stage, entries) ==
    IF updates[u].left = {e}
    THEN [updates[u] EXCEPT !.at = stage, !.left = entries]
    ELSE [updates[u] EXCEPT !.left = @ \ {e}]

ThreadAfter(r, u) == IF r.at \in SyncStages THEN u ELSE Nobody

MoveAside(u, e) ==
    /\ thread = u /\ At(u, "aside") /\ e \in updates[u].left
    /\ aside' = [aside EXCEPT ![u][e] = live[e]]
    /\ live' = [live EXCEPT ![e] = Absent]
    /\ LET r == [Advance(u, e, "mirror", Mine(u)) EXCEPT
                    !.moved = IF live[e] = Absent THEN @ ELSE @ \cup {e}]
       IN updates' = [updates EXCEPT ![u] = r]
    /\ UNCHANGED <<service, thread, lock, faults, installed, spoilt, aged>>

\* where an undoing stage starts: with nothing to undo it is over at once
Undo(r, stage) == IF r.moved = {} THEN [r EXCEPT !.at = "reviving", !.left = {}]
                  ELSE [r EXCEPT !.at = stage, !.left = r.moved]

RenameFails(u, e) ==
    /\ thread = u /\ At(u, "aside") /\ e \in updates[u].left
    /\ live[e] # Absent
    /\ Faulty
    /\ LET r == Undo(updates[u], "unaside")
       IN /\ updates' = [updates EXCEPT ![u] = r]
          /\ thread' = ThreadAfter(r, u)
    /\ UNCHANGED <<live, aside, service, lock, installed, spoilt, aged>>

(* The renames already made are reversed; one that cannot be is logged.    *)
MoveBack(u, e) ==
    /\ thread = u /\ At(u, "unaside") /\ e \in updates[u].left
    /\ \/ /\ live' = [live EXCEPT ![e] = aside[u][e]]
          /\ aside' = [aside EXCEPT ![u][e] = Absent]
          /\ UNCHANGED spoilt
       \/ /\ spoilt' = TRUE
          /\ UNCHANGED <<live, aside>>
    /\ LET r == Advance(u, e, "reviving", {})
       IN /\ updates' = [updates EXCEPT ![u] = r]
          /\ thread' = ThreadAfter(r, u)
    /\ UNCHANGED <<service, lock, faults, installed, aged>>

-----------------------------------------------------------------------------
(* Copying the bundle in place, one entry per step.                        *)
Mirror(u, e) ==
    /\ thread = u /\ At(u, "mirror") /\ e \in updates[u].left
    /\ live' = [live EXCEPT ![e] = updates[u].bundle]
    /\ LET r == Advance(u, e, "validating", {})
       IN /\ updates' = [updates EXCEPT ![u] = r]
          /\ thread' = ThreadAfter(r, u)
    /\ UNCHANGED <<aside, service, lock, faults, installed, spoilt, aged>>

\* mutant: a copy that fails restarts the service on what there is
CopyAbandoned(u, e) ==
    /\ thread = u /\ At(u, "mirror") /\ e \in updates[u].left
    /\ Faulty
    /\ live' = [live EXCEPT ![e] = Torn]
    /\ updates' = [updates EXCEPT ![u].at = "reviving", ![u].left = {}]
    /\ thread' = Nobody
    /\ UNCHANGED <<aside, service, lock, installed, spoilt, aged>>

CopyFails(u, e) ==
    /\ thread = u /\ At(u, "mirror") /\ e \in updates[u].left
    /\ Faulty
    /\ live' = [live EXCEPT ![e] = Torn]
    /\ LET r == [updates[u] EXCEPT !.at = "clearing", !.left = Mine(u)]
       IN updates' = [updates EXCEPT ![u] = r]
    /\ UNCHANGED <<aside, service, thread, lock, installed, spoilt, aged>>

-----------------------------------------------------------------------------
(* ensureBackendRunning after the swap: a service that answers well is     *)
(* taken as it is; one that reports another version is restarted once; one *)
(* that is down is started.                                                *)

\* the images the service may run when ensureBackendRunning returns
MayRun == {service, live}

\* mutant: what was moved aside is discarded before the service is asked
DiscardedUnasked(u) ==
    /\ thread = Nobody /\ At(u, "validating")
    /\ aside' = [aside EXCEPT ![u] = [e \in Entries |-> Absent]]
    /\ installed' = [e \in Entries |-> IF e \in Mine(u) THEN updates[u].bundle
                                       ELSE installed[e]]
    /\ updates' = [updates EXCEPT ![u] = Ended("over")]
    /\ lock' = "free"
    /\ UNCHANGED <<live, service, thread, faults, spoilt, aged>>

\* The new backend answered: the pointer is written, what was moved aside is
\* discarded (an entry that cannot be removed stays behind), the lock goes.
Validated(u) ==
    /\ thread = Nobody /\ At(u, "validating")
    /\ service' \in MayRun \ {Off}
    /\ \/ /\ aside' = [aside EXCEPT ![u] = [e \in Entries |-> Absent]]
          /\ UNCHANGED faults
       \/ /\ Faulty
          /\ \E stuck \in updates[u].moved :
                aside' = [aside EXCEPT ![u] = [e \in Entries |->
                              IF e = stuck THEN @[e] ELSE Absent]]
    /\ installed' = [e \in Entries |-> IF e \in Mine(u) THEN updates[u].bundle
                                       ELSE installed[e]]
    /\ updates' = [updates EXCEPT ![u] = Ended("over")]
    /\ lock' = "free"
    /\ UNCHANGED <<live, thread, spoilt, aged>>

\* mutant: a backend that does not answer is asked again, without end
AskedAgain(u) ==
    /\ thread = Nobody /\ At(u, "validating")
    /\ service' \in MayRun \cup {Off}
    /\ UNCHANGED <<live, aside, updates, thread, lock, faults, installed, spoilt, aged>>

NotValidated(u) ==
    /\ thread = Nobody /\ At(u, "validating")
    /\ service' \in MayRun \cup {Off}
    /\ LET r == [updates[u] EXCEPT !.at = "halting"]
       IN updates' = [updates EXCEPT ![u] = r]
    /\ UNCHANGED <<live, aside, thread, lock, faults, installed, spoilt, aged>>

-----------------------------------------------------------------------------
(* The failed payload is removed, then what was moved aside is restored.   *)
Clear(u, e) ==
    /\ thread = u /\ At(u, "clearing") /\ e \in updates[u].left
    /\ \/ /\ live' = [live EXCEPT ![e] = Absent]
          /\ UNCHANGED <<faults, spoilt>>
       \/ /\ live[e] # Absent /\ Faulty
          /\ live' \in {live, [live EXCEPT ![e] = Torn]}
          /\ spoilt' = TRUE
    /\ LET r == IF updates[u].left = {e} THEN Undo(updates[u], "restoring")
                ELSE [updates[u] EXCEPT !.left = @ \ {e}]
       IN /\ updates' = [updates EXCEPT ![u] = r]
          /\ thread' = ThreadAfter(r, u)
    /\ UNCHANGED <<aside, service, lock, installed, aged>>

Restore(u, e) ==
    /\ thread = u /\ At(u, "restoring") /\ e \in updates[u].left
    /\ \/ /\ live' = [live EXCEPT ![e] = aside[u][e]]
          /\ aside' = [aside EXCEPT ![u][e] = Absent]
          /\ UNCHANGED <<faults, spoilt>>
       \/ /\ Faulty
          /\ live' \in {live, [live EXCEPT ![e] = Absent]}
          /\ spoilt' = TRUE
          /\ UNCHANGED aside
    /\ LET r == Advance(u, e, "reviving", {})
       IN /\ updates' = [updates EXCEPT ![u] = r]
          /\ thread' = ThreadAfter(r, u)
    /\ UNCHANGED <<service, lock, installed, aged>>

(* After an undone update the service is started again; whether it answers *)
(* only changes the message.  The lock file is removed, whoever wrote it.  *)
Revive(u) ==
    /\ thread = Nobody /\ At(u, "reviving")
    /\ service' \in MayRun
    /\ updates' = [updates EXCEPT ![u] = Ended("over")]
    /\ lock' = "free"
    /\ UNCHANGED <<live, aside, thread, faults, installed, spoilt, aged>>

-----------------------------------------------------------------------------
(* Around the update.                                                      *)

\* Someone else starts or stops the service: the operator's backend:start and
\* backend:stop, the service control manager, a crash of the backend.
ServiceMoves ==
    /\ Faulty
    /\ service' \in (MayRun \cup {Off}) \ {service}
    /\ updates' = [u \in Updates |-> [updates[u] EXCEPT !.doubt = @ \/ u = thread]]
    /\ UNCHANGED <<live, aside, thread, lock, installed, spoilt, aged>>

\* The lock file is older than ten minutes while its holder still awaits: the
\* machine slept, or sc.exe, which runs without a timeout, did not return.
LockAges ==
    /\ lock = "held" /\ thread = Nobody
    /\ Faulty
    /\ lock' = "stale"
    /\ aged' = TRUE
    /\ UNCHANGED <<live, aside, service, updates, thread, installed, spoilt>>

\* what the entry being written when the process dies may be left as
Interrupted ==
    IF thread # Nobody /\ updates[thread].at \in {"mirror", "clearing", "restoring"}
    THEN {live} \cup {[live EXCEPT ![e] = Torn] : e \in
            {d \in updates[thread].left :
                updates[thread].at = "mirror" \/ live[d] # Absent}}
    ELSE {live}

\* The process ends, in order or not; nothing of an update survives it but the
\* files, the lock and the service.
Die ==
    /\ live' \in Interrupted
    /\ updates' = [u \in Updates |-> IF u \in Active THEN Ended("dead") ELSE updates[u]]
    /\ thread' = Nobody
    /\ lock' = IF lock = "held" THEN "stale" ELSE lock
    /\ spoilt' = (spoilt \/ Swapping # {})
    /\ UNCHANGED <<aside, service, faults, installed, aged>>

\* The installer, run while the application is closed, brings the payload of a
\* release; whether it leaves the entries moved aside is its own affair.
Replaced(r) ==
    /\ Active = {}
    /\ live' = [e \in Entries |-> r]
    /\ installed' = live'
    /\ spoilt' = FALSE
    /\ \/ UNCHANGED aside
       \/ aside' = [u \in Updates |-> [e \in Entries |-> Absent]]
    /\ service' \in {Off, live'}
    /\ UNCHANGED <<updates, thread, lock, faults, aged>>

UpdateStep(u) ==
    \/ StopService(u)
    \/ \E e \in Entries : MoveAside(u, e) \/ RenameFails(u, e) \/ MoveBack(u, e)
    \/ \E e \in Entries : Mirror(u, e) \/ CopyFails(u, e)
    \/ Validated(u)
    \/ NotValidated(u)
    \/ \E e \in Entries : Clear(u, e) \/ Restore(u, e)
    \/ Revive(u)

\* what happens while the application runs
BackendStep ==
    \/ \E u \in Updates, b \in Bundles : Apply(u, b)
    \/ BundleRejected
    \/ \E u \in Updates : UpdateStep(u)
    \/ LockAges

BackendNext ==
    \/ BackendStep
    \/ ServiceMoves
    \/ Die
    \/ \E r \in Releases : Replaced(r)

BackendSpec == BackendInit /\ [][BackendNext]_backendVars

-----------------------------------------------------------------------------
(* Properties.                                                             *)

Records == [at : Stages \cup {"idle", "over", "dead"},
            bundle : Bundles \cup {Nobody},
            moved : SUBSET Entries, left : SUBSET Entries, doubt : BOOLEAN]

BackendTypeOK ==
    /\ live \in Images
    /\ aside \in [Updates -> Images]
    /\ service \in Images \cup {Off}
    /\ updates \in [Updates -> Records]
    /\ \A u \in Active : updates[u].bundle \in Bundles
    /\ thread \in Updates \cup {Nobody}
    /\ \A u \in Updates : updates[u].at \in SyncStages <=> thread = u
    /\ lock \in {"free", "held", "stale"}
    /\ faults \in 0 .. MaxFaults
    /\ installed \in [Entries -> Versions]
    /\ spoilt \in BOOLEAN /\ aged \in BOOLEAN

(* Whatever fails and whenever the process dies, a whole version of every  *)
(* entry is left in the backend directory, in its place or moved aside: an *)
(* interrupted update can always be undone by hand.  (moveCurrentPayload-  *)
(* Aside, restoreBackupAside and discardBackupAside.)                      *)
PayloadRecoverable ==
    \A e \in Entries :
        \/ live[e] \in Versions
        \/ \E u \in Updates : aside[u][e] \in Versions

(* An update brings every entry of its bundle or none: unless the process  *)
(* died in a swap, two swaps overlapped or a file operation of the undoing *)
(* failed, the payload outside a swap is what the last successful update   *)
(* or installer made it, never a mixture.  (steps 3 to 8 of the flow.)     *)
AllOrNothing == Swapping = {} /\ ~spoilt => live = installed

(* What was moved aside is discarded only after the service has answered   *)
(* from the new files - provided the service was really down during the    *)
(* swap, which StopBackend does not guarantee, and the update was alone.   *)
RanBeforeDiscard ==
    [][\A u \in Updates :
          At(u, "validating") /\ updates'[u].at = "over" /\ ~updates[u].doubt
             => \A e \in Mine(u) : service'[e] = updates[u].bundle]_backendVars

(* Unless a lock outlived its ten minutes, one update runs at a time and   *)
(* the lock says so: it is held exactly while an update of a living        *)
(* process is under way, whichever way the update ends.                    *)
LockGuardsSwap ==
    ~aged => /\ \A u, v \in Active : u = v
             /\ lock = "held" <=> Active # {}

(* Every update comes to an end: it succeeds, is undone, or dies with the  *)
(* process.                                                                *)
EverySwapEnds == \A u \in Updates : (u \in Active) ~> (u \notin Active)
=============================================================================
