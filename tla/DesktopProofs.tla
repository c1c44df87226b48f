---------------------------- MODULE DesktopProofs ----------------------------
(***************************************************************************)
(* Proofs about Desktop and the backend update it runs, for any payload,   *)
(* any bundles, any number of updates, clicks and checks, any number of    *)
(* faults, and with or without a backup.                                   *)
(*                                                                         *)
(* Part 1 is about BackendUpdate by itself: a whole version of every entry *)
(* is always left (Recoverable), an update is all or nothing (Atomic), and *)
(* the lock is true (LockIsTrue).  PayloadRecoverable is not inductive.    *)
(* The argument: what an update that is past its swap, or dead, has left   *)
(* aside is never touched again (Kept).  An update that is about to        *)
(* overwrite or remove an entry holds a whole version of it aside, or one  *)
(* is kept (Guarded); and whenever the thread is free a whole version is   *)
(* in place or kept (Covered), so that discarding what an update holds     *)
(* loses nothing.  RanBeforeDiscard needs an invariant of its own (Fresh): *)
(* an update that nothing casts doubt on is alone, its service is down     *)
(* while its files change, and a service that runs while it is validated   *)
(* has loaded the files in place.                                          *)
(*                                                                         *)
(* Part 2: the composition implements the backend update on its own        *)
(* (BackendUnharmed), so what part 1 proves holds of the whole             *)
(* application; and the installer only runs prepared (Prepared).           *)
(***************************************************************************)
EXTENDS Desktop, TLAPS

(* Part 1: the backend update                                              *)


\* the entries whose former content an update in progress holds aside
Bound(u) ==
    CASE At(u, "aside") -> Mine(u) \ updates[u].left
      [] updates[u].at \in {"mirror", "validating", "halting", "clearing"} -> Mine(u)
      [] updates[u].at \in {"unaside", "restoring"} -> updates[u].left
      [] OTHER -> {}

Permanent == {"reviving", "over", "dead"}

Kept(e) == \E w \in Updates : updates[w].at \in Permanent /\ aside[w][e] \in Versions

ShapeOf(u) ==
    /\ updates[u].at \in {"idle", "stopping"} =>
          /\ updates[u].moved = {}
          /\ \A e \in Entries : aside[u][e] = Absent
    /\ updates[u].at \in Stages =>
          /\ updates[u].moved \subseteq Mine(u)
          /\ updates[u].left \subseteq Mine(u)
          /\ \A e \in Entries \ Mine(u) : aside[u][e] = Absent
    /\ At(u, "aside") => /\ updates[u].moved \cap updates[u].left = {}
                         /\ \A e \in updates[u].left : aside[u][e] = Absent
    /\ At(u, "mirror") => \A e \in Mine(u) \ updates[u].left : live[e] \in Versions

Shape == \A u \in Updates : ShapeOf(u)

GuardedOf(u) == \A e \in Bound(u) : aside[u][e] \in Versions \/ Kept(e)

Guarded == \A u \in Updates : GuardedOf(u)

Covered == \A e \in Entries :
    \/ live[e] \in Versions
    \/ Kept(e)
    \/ thread # Nobody /\ aside[thread][e] \in Versions

\* where an update that runs alone and undisturbed has put everything
Exact(u) ==
    /\ \A e \in Entries : IF e \in Bound(u) THEN aside[u][e] = installed[e]
                          ELSE live[e] = installed[e]
    /\ At(u, "aside") => updates[u].moved = Mine(u) \ updates[u].left
    /\ updates[u].at \in {"mirror", "validating", "halting", "clearing"} =>
          updates[u].moved = Mine(u)
    /\ At(u, "mirror") =>
          \A e \in Mine(u) \ updates[u].left : live[e] = updates[u].bundle
    /\ At(u, "validating") => \A e \in Mine(u) : live[e] = updates[u].bundle

Alone == \A u, v \in Active : u = v

Whole == ~spoilt => /\ Alone
                    /\ \A u \in Active : Exact(u)
                    /\ Active = {} => live = installed

IInv == BackendTypeOK /\ Shape /\ Guarded /\ Covered /\ Whole /\ LockGuardsSwap

-----------------------------------------------------------------------------
\* Nobody is none of the updates.
LEMMA NobodyElse == Nobody \notin Updates
  BY BackendAssumption DEF Updates

\* the step may change the doubt about an update, but not the update
Alike(w) == /\ updates'[w].at = updates[w].at
            /\ updates'[w].bundle = updates[w].bundle
            /\ updates'[w].moved = updates[w].moved
            /\ updates'[w].left = updates[w].left

LEMMA Changed ==
    ASSUME BackendTypeOK, NEW u \in Updates, NEW r \in Records,
           updates' = [updates EXCEPT ![u] = r]
    PROVE  /\ updates' \in [Updates -> Records]
           /\ updates'[u] = r
           /\ \A w \in Updates \ {u} : Alike(w)
  BY DEF BackendTypeOK, Alike

LEMMA BoundEntries ==
    ASSUME BackendTypeOK, NEW w \in Updates
    PROVE  Bound(w) \subseteq Entries
<1>1. updates[w] \in Records BY DEF BackendTypeOK
<1>2. updates[w].left \subseteq Entries BY <1>1 DEF Records
<1>3. updates[w].at \in Stages => Mine(w) \subseteq Entries
  BY BackendAssumption DEF BackendTypeOK, Active, Mine
<1> QED BY <1>2, <1>3 DEF Bound, At, Stages, SyncStages, AwaitStages

(* A step of one update leaves the others, and what is kept, as they are.  *)
LEMMA OneUpdate ==
    ASSUME BackendTypeOK, Shape, Guarded, NEW u \in Updates,
           \A w \in Updates \ {u} : Alike(w) /\ aside'[w] = aside[w],
           live' = live \/ thread \in {u, Nobody},
           updates[u].at \in Permanent =>
              updates'[u].at \in Permanent /\ aside'[u] = aside[u]
    PROVE  /\ updates'[u].at \in Stages => Active' = Active \cup {u}
           /\ updates'[u].at \notin Stages => Active' = Active \ {u}
           /\ \A e \in Entries : Kept(e) => Kept(e)'
           /\ ShapeOf(u)' => Shape'
           /\ GuardedOf(u)' => Guarded'
<1>1. /\ updates'[u].at \in Stages => Active' = Active \cup {u}
      /\ updates'[u].at \notin Stages => Active' = Active \ {u}
  BY DEF Active, Alike
<1>2. ASSUME NEW e \in Entries, Kept(e) PROVE Kept(e)'
  <2>1. PICK w \in Updates : updates[w].at \in Permanent /\ aside[w][e] \in Versions
    BY <1>2 DEF Kept
  <2>2. updates'[w].at \in Permanent /\ aside'[w][e] \in Versions
    BY <2>1 DEF Alike
  <2> QED BY <2>2 DEF Kept
<1>3. ASSUME NEW w \in Updates \ {u} PROVE ShapeOf(w)'
  <2>1. At(w, "mirror") => live' = live BY NobodyElse DEF BackendTypeOK, At, SyncStages
  <2>2. ShapeOf(w) /\ Alike(w) /\ aside'[w] = aside[w] BY DEF Shape
  <2> QED BY <2>1, <2>2 DEF ShapeOf, At, Mine, Alike
<1>4. ASSUME NEW w \in Updates \ {u} PROVE GuardedOf(w)'
  <2>1. GuardedOf(w) /\ Alike(w) /\ aside'[w] = aside[w] BY DEF Guarded
  <2>2. Bound(w)' = Bound(w) BY <2>1 DEF Bound, At, Mine, Alike
  <2>3. Bound(w) \subseteq Entries BY BoundEntries
  <2> QED BY <1>2, <2>1, <2>2, <2>3 DEF GuardedOf
<1> QED BY <1>1, <1>2, <1>3, <1>4 DEF Shape, Guarded

(* A step that leaves every update and the files alone.                    *)
LEMMA Undisturbed ==
    ASSUME IInv, updates' \in [Updates -> Records], \A w \in Updates : Alike(w),
           UNCHANGED <<live, aside, thread, installed, spoilt>>,
           service' \in Images \cup {Off}, faults' \in 0 .. MaxFaults,
           lock' \in {"free", "held", "stale"}, aged' \in BOOLEAN,
           LockGuardsSwap /\ Active' = Active => LockGuardsSwap'
    PROVE  IInv'
<1> USE DEF IInv
<1>1. Active' = Active BY DEF Active, Alike
<1>2. /\ \A e \in Entries : Kept(e) => Kept(e)'
      /\ \A w \in Updates : Mine(w)' = Mine(w) /\ Bound(w)' = Bound(w)
  BY DEF Kept, Alike, Bound, At, Mine
<1>3. BackendTypeOK' BY <1>1 DEF BackendTypeOK, Alike, Active
<1>4. Shape' BY <1>2 DEF Shape, ShapeOf, Alike, At
<1>5. Guarded' BY <1>2, BoundEntries DEF Guarded, GuardedOf
<1>6. Covered' BY <1>2 DEF Covered
<1>7. \A w \in Updates : Exact(w) => Exact(w)'
  BY <1>2 DEF Exact, At, Alike
<1>8. Whole' BY <1>1, <1>7 DEF Whole, Alone, Active
<1> QED BY <1>1, <1>3, <1>4, <1>5, <1>6, <1>8

LEMMA TypeKeeps ==
    ASSUME BackendTypeOK, NEW u \in Updates,
           updates' \in [Updates -> Records], \A w \in Updates \ {u} : Alike(w),
           updates'[u].at \in Stages => updates'[u].bundle \in Bundles,
           thread \in {u, Nobody}, thread' = ThreadAfter(updates'[u], u),
           live' \in Images, aside' \in [Updates -> Images],
           service' \in Images \cup {Off}, lock' \in {"free", "held", "stale"},
           faults' \in 0 .. MaxFaults, installed' \in [Entries -> Versions],
           spoilt' \in BOOLEAN, aged' \in BOOLEAN
    PROVE  BackendTypeOK'
<1>1. \A w \in Active' : updates'[w].bundle \in Bundles
  BY DEF BackendTypeOK, Active, Alike
<1>2. \A w \in Updates : updates'[w].at \in SyncStages <=> thread' = w
  BY NobodyElse DEF BackendTypeOK, ThreadAfter, Alike
<1> QED BY <1>1, <1>2 DEF BackendTypeOK, ThreadAfter

(* An update that goes on leaves the lock true, and everything whole if it *)
(* keeps its own part exact.                                               *)
LEMMA GoesOn ==
    ASSUME Whole, LockGuardsSwap, NEW u \in Active,
           Active' = Active, lock' = lock, aged' = aged, spoilt => spoilt',
           Exact(u) /\ ~spoilt' => Exact(u)'
    PROVE  Whole' /\ LockGuardsSwap'
  BY DEF Whole, Alone, LockGuardsSwap

(* An update that ends releases the lock; alone, it leaves nobody active.  *)
LEMMA Ends ==
    ASSUME Whole, LockGuardsSwap, NEW u \in Active,
           Active' = Active \ {u}, lock' = "free", aged' = aged, spoilt' = spoilt,
           Exact(u) => live' = installed'
    PROVE  Whole' /\ LockGuardsSwap'
  BY DEF Whole, Alone, LockGuardsSwap

-----------------------------------------------------------------------------
(* The records that stand for an update after a step.                      *)
AllStages == Stages \cup {"idle", "over", "dead"}

LEMMA EndedIs ==
    ASSUME NEW s \in {"over", "dead"}
    PROVE  Ended(s) \in Records /\ Ended(s).at = s
  BY DEF Ended, Unused, Records

LEMMA AdvanceIs ==
    ASSUME NEW u \in Updates, updates[u] \in Records, NEW e \in Entries,
           NEW s \in AllStages, NEW l \in SUBSET Entries
    PROVE  /\ Advance(u, e, s, l) \in Records
           /\ updates[u].left = {e} => /\ Advance(u, e, s, l).at = s
                                       /\ Advance(u, e, s, l).left = l
           /\ updates[u].left # {e} =>
                 /\ Advance(u, e, s, l).at = updates[u].at
                 /\ Advance(u, e, s, l).left = updates[u].left \ {e}
           /\ Advance(u, e, s, l).moved = updates[u].moved
           /\ Advance(u, e, s, l).bundle = updates[u].bundle
<1> DEFINE q == updates[u]
           k == q.left \ {e}
<1>1. q \in Records /\ k \in SUBSET Entries BY DEF Records
<1>2. CASE q.left = {e}
  <2>1. Advance(u, e, s, l) = [q EXCEPT !.at = s, !.left = l] BY <1>2 DEF Advance
  <2> HIDE DEF q, k
  <2>2. [q EXCEPT !.at = s, !.left = l] \in Records BY <1>1 DEF Records, AllStages
  <2> QED BY <1>1, <1>2, <2>1, <2>2 DEF Records, AllStages, q
<1>3. CASE q.left # {e}
  <2>1. Advance(u, e, s, l) = [q EXCEPT !.left = k] BY <1>3 DEF Advance
  <2> HIDE DEF q, k
  <2>2. [q EXCEPT !.left = k] \in Records BY <1>1 DEF Records, AllStages
  <2> QED BY <1>1, <1>3, <2>1, <2>2 DEF Records, AllStages, q, k
<1> QED BY <1>2, <1>3

LEMMA UndoIs ==
    ASSUME NEW q \in Records, NEW s \in Stages
    PROVE  /\ Undo(q, s) \in Records
           /\ q.moved = {} => Undo(q, s).at = "reviving"
           /\ q.moved # {} => Undo(q, s).at = s
           /\ Undo(q, s).left = q.moved
           /\ Undo(q, s).moved = q.moved
           /\ Undo(q, s).bundle = q.bundle
<1>1. CASE q.moved = {}
  <2>1. Undo(q, s) = [q EXCEPT !.at = "reviving", !.left = {}] BY <1>1 DEF Undo
  <2>2. [q EXCEPT !.at = "reviving", !.left = {}] \in Records
    BY DEF Records, Stages, AwaitStages
  <2> QED BY <1>1, <2>1, <2>2 DEF Records
<1>2. CASE q.moved # {}
  <2>1. Undo(q, s) = [q EXCEPT !.at = s, !.left = q.moved] BY <1>2 DEF Undo
  <2>2. [q EXCEPT !.at = s, !.left = q.moved] \in Records BY DEF Records
  <2> QED BY <1>2, <2>1, <2>2 DEF Records
<1> QED BY <1>1, <1>2

(* What the type invariant says of an update in progress.                  *)
LEMMA InProgress ==
    ASSUME BackendTypeOK, NEW u \in Updates, updates[u].at \in Stages
    PROVE  /\ updates[u] \in Records
           /\ u \in Active
           /\ updates[u].bundle \in Bundles
           /\ Mine(u) \in SUBSET Entries
           /\ Mine(u) # {}
           /\ updates[u].moved \in SUBSET Entries
           /\ updates[u].left \in SUBSET Entries
  BY BackendAssumption DEF BackendTypeOK, Active, Mine, Records

-----------------------------------------------------------------------------
(* One lemma per action.                                                   *)
LEMMA MoveAsideKeeps ==
    ASSUME IInv, NEW u \in Updates, NEW e \in Entries, MoveAside(u, e)
    PROVE  IInv'
<1> USE BackendAssumption DEF IInv
<1> DEFINE a == Advance(u, e, "mirror", Mine(u))
           m == IF live[e] = Absent THEN a.moved ELSE a.moved \cup {e}
           r == [a EXCEPT !.moved = m]
<1>1. /\ updates' = [updates EXCEPT ![u] = r]
      /\ aside' = [aside EXCEPT ![u][e] = live[e]]
      /\ live' = [live EXCEPT ![e] = Absent]
      /\ UNCHANGED <<service, thread, lock, faults, installed, spoilt, aged>>
  BY DEF MoveAside
<1>0. thread = u /\ updates[u].at = "aside" /\ e \in updates[u].left
  BY DEF MoveAside, At
<1>2. /\ r \in Records
      /\ updates[u].left = {e} => r.at = "mirror" /\ r.left = Mine(u)
      /\ updates[u].left # {e} => r.at = "aside" /\ r.left = updates[u].left \ {e}
      /\ r.moved = IF live[e] = Absent THEN updates[u].moved
                   ELSE updates[u].moved \cup {e}
      /\ r.bundle = updates[u].bundle
  <2>1. Mine(u) \in SUBSET Entries /\ updates[u] \in Records /\ "mirror" \in AllStages
    BY <1>0, InProgress DEF Stages, SyncStages, AllStages
  <2>3. /\ a \in Records
        /\ updates[u].left = {e} => a.at = "mirror" /\ a.left = Mine(u)
        /\ updates[u].left # {e} => /\ a.at = updates[u].at
                                    /\ a.left = updates[u].left \ {e}
        /\ a.moved = updates[u].moved
        /\ a.bundle = updates[u].bundle
    BY <2>1, AdvanceIs
  <2>2. m \in SUBSET Entries BY <2>1, <2>3 DEF Records
  <2> HIDE DEF a, m
  <2>4. r \in Records /\ r.moved = m BY <2>2, <2>3 DEF Records
  <2> QED BY <1>0, <2>3, <2>4 DEF Records, m
<1>3. /\ updates[u] \in Records /\ updates[u].at \in Stages
      /\ updates[u].bundle \in Bundles
      /\ Mine(u) \in SUBSET Entries /\ Mine(u) # {}
      /\ u \in Active
  BY <1>0, InProgress DEF Stages, SyncStages
<1>4. /\ \A w \in Updates \ {u} : aside'[w] = aside[w]
      /\ aside' \in [Updates -> Images]
      /\ aside'[u][e] = live[e]
      /\ \A d \in Entries \ {e} : aside'[u][d] = aside[u][d]
      /\ live' \in Images
      /\ live'[e] = Absent
      /\ \A d \in Entries \ {e} : live'[d] = live[d]
  <2>1. live \in Images /\ aside \in [Updates -> Images] /\ Absent \in Contents
    BY DEF BackendTypeOK, Contents
  <2> QED BY <1>1, <2>1 DEF Images
<1>5. /\ updates' \in [Updates -> Records]
      /\ updates'[u] = r
      /\ \A w \in Updates \ {u} : Alike(w)
      /\ Active' = Active
      /\ \A d \in Entries : Kept(d) => Kept(d)'
      /\ ShapeOf(u)' => Shape'
      /\ GuardedOf(u)' => Guarded'
  <2>1. r.at \in Stages /\ Active \cup {u} = Active
    BY <1>2, <1>3 DEF Stages, SyncStages
  <2>2. /\ updates' \in [Updates -> Records] /\ updates'[u] = r
        /\ \A w \in Updates \ {u} : Alike(w)
    BY <1>1, <1>2, Changed
  <2> QED BY <1>0, <1>4, <2>1, <2>2, OneUpdate DEF Permanent
<1>6. Mine(u)' = Mine(u)
  BY <1>2, <1>5 DEF Mine
<1> HIDE DEF r, a, m
<1>7. BackendTypeOK'
  <2>1. thread' = ThreadAfter(r, u) BY <1>0, <1>1, <1>2 DEF ThreadAfter, SyncStages
  <2> QED BY <1>0, <1>1, <1>2, <1>3, <1>4, <1>5, <2>1, TypeKeeps DEF BackendTypeOK
<1>8. ShapeOf(u)'
  <2>1. ShapeOf(u) BY DEF Shape
  <2>2. CASE updates[u].left = {e}
    BY <1>0, <1>2, <1>3, <1>4, <1>5, <1>6, <2>1, <2>2 DEF ShapeOf, At
  <2>3. CASE updates[u].left # {e}
    BY <1>0, <1>2, <1>3, <1>4, <1>5, <1>6, <2>1, <2>3 DEF ShapeOf, At
  <2> QED BY <2>2, <2>3
<1>9. /\ Bound(u) = Mine(u) \ updates[u].left /\ e \notin Bound(u)
      /\ Bound(u)' = Bound(u) \cup {e}
      /\ Bound(u) \subseteq Entries
      /\ aside[u][e] = Absent /\ e \in Mine(u)
  <2>1. ShapeOf(u) BY DEF Shape
  <2>2. e \in Mine(u) /\ aside[u][e] = Absent BY <1>0, <1>3, <2>1 DEF ShapeOf, At
  <2>3. CASE updates[u].left = {e}
    BY <1>0, <1>2, <1>3, <1>5, <1>6, <2>2, <2>3 DEF Bound, At
  <2>4. CASE updates[u].left # {e}
    BY <1>0, <1>2, <1>3, <1>5, <1>6, <2>2, <2>4 DEF Bound, At
  <2> QED BY <2>2, <2>3, <2>4
<1>10. live[e] \in Versions \/ Kept(e)
  BY <1>0, <1>9 DEF Covered
<1>11. GuardedOf(u)'
  <2>1. GuardedOf(u) BY DEF Guarded
  <2> QED BY <1>4, <1>5, <1>9, <1>10, <2>1 DEF GuardedOf
<1>12. Covered'
  <2>1. thread' = u /\ u # Nobody BY <1>0, <1>1, NobodyElse
  <2> QED BY <1>0, <1>4, <1>5, <1>10, <2>1 DEF Covered
<1>13. ASSUME Exact(u) PROVE Exact(u)'
  <2>1. /\ installed' = installed
        /\ installed \in [Entries -> Versions]
    BY <1>1 DEF BackendTypeOK
  <2>2. live[e] = installed[e] /\ live[e] # Absent BY <1>9, <1>13, <2>1 DEF Exact
  <2>3. ASSUME NEW d \in Entries
        PROVE  IF d \in Bound(u)' THEN aside'[u][d] = installed'[d]
               ELSE live'[d] = installed'[d]
    <3>1. CASE d = e BY <1>4, <1>9, <2>1, <2>2, <3>1
    <3>2. CASE d # e BY <1>4, <1>9, <1>13, <2>1, <3>2 DEF Exact
    <3> QED BY <3>1, <3>2
  <2>4. updates[u].moved = Mine(u) \ updates[u].left BY <1>0, <1>13 DEF Exact, At
  <2>5. r.moved = (Mine(u) \ updates[u].left) \cup {e} BY <1>2, <2>2, <2>4
  <2>6. CASE updates[u].left = {e}
    <3>1. r.moved = Mine(u) BY <1>9, <2>5, <2>6
    <3> QED BY <1>2, <1>5, <1>6, <2>3, <2>6, <3>1 DEF Exact, At
  <2>7. CASE updates[u].left # {e}
    <3>1. r.moved = Mine(u) \ r.left BY <1>2, <1>9, <2>5, <2>7
    <3> QED BY <1>2, <1>5, <1>6, <2>3, <2>7, <3>1 DEF Exact, At
  <2> QED BY <2>6, <2>7
<1> QED BY <1>1, <1>3, <1>5, <1>7, <1>8, <1>11, <1>12, <1>13, GoesOn

LEMMA RenameFailsKeeps ==
    ASSUME IInv, NEW u \in Updates, NEW e \in Entries, RenameFails(u, e)
    PROVE  IInv'
<1> USE BackendAssumption DEF IInv
<1> DEFINE r == Undo(updates[u], "unaside")
<1>0. thread = u /\ updates[u].at = "aside"
  BY DEF RenameFails, At
<1>1. /\ updates' = [updates EXCEPT ![u] = r]
      /\ thread' = ThreadAfter(r, u)
      /\ faults' \in 0 .. MaxFaults
      /\ UNCHANGED <<live, aside, service, lock, installed, spoilt, aged>>
  BY DEF RenameFails, Faulty, BackendTypeOK
<1>2. /\ updates[u] \in Records /\ updates[u].bundle \in Bundles
      /\ u \in Active
  BY <1>0, InProgress DEF Stages, SyncStages
<1>3. /\ r \in Records /\ r.bundle = updates[u].bundle
      /\ r.left = updates[u].moved /\ r.moved = updates[u].moved
      /\ updates[u].moved = {} => r.at = "reviving"
      /\ updates[u].moved # {} => r.at = "unaside"
  BY <1>2, UndoIs DEF Stages, SyncStages
<1> HIDE DEF r
<1>4. /\ updates' \in [Updates -> Records] /\ updates'[u] = r
      /\ \A w \in Updates \ {u} : Alike(w)
  BY <1>1, <1>3, Changed
<1>5. /\ Active' = Active /\ Mine(u)' = Mine(u)
      /\ \A d \in Entries : Kept(d) => Kept(d)'
      /\ ShapeOf(u)' => Shape'
      /\ GuardedOf(u)' => Guarded'
  <2>1. r.at \in Stages /\ Active \cup {u} = Active
    BY <1>2, <1>3 DEF Stages, SyncStages, AwaitStages
  <2> QED BY <1>0, <1>1, <1>3, <1>4, <2>1, OneUpdate DEF Permanent, Mine
<1>6. BackendTypeOK'
  BY <1>0, <1>1, <1>2, <1>3, <1>4, TypeKeeps DEF BackendTypeOK
<1>7. ShapeOf(u) BY DEF Shape
<1>8. ShapeOf(u)'
  BY <1>0, <1>1, <1>2, <1>3, <1>4, <1>5, <1>7 DEF ShapeOf, At, Stages, SyncStages
<1>9. /\ Bound(u) = Mine(u) \ updates[u].left
      /\ Bound(u)' = updates[u].moved
  BY <1>0, <1>3, <1>4 DEF Bound, At
<1>10. updates[u].moved \subseteq Bound(u) /\ Bound(u) \subseteq Entries
  BY <1>0, <1>7, <1>9, BoundEntries DEF ShapeOf, At, Stages, SyncStages
<1>11. GuardedOf(u)'
  <2>1. GuardedOf(u) BY DEF Guarded
  <2> QED BY <1>1, <1>5, <1>9, <1>10, <2>1 DEF GuardedOf
<1>12. Covered'
  <2>1. (thread' = u /\ u # Nobody) \/ updates'[u].at \in Permanent
    BY <1>1, <1>3, <1>4, NobodyElse DEF ThreadAfter, Permanent, SyncStages
  <2> QED BY <1>0, <1>1, <1>5, <2>1 DEF Covered, Kept
<1>13. ASSUME Exact(u) PROVE Exact(u)'
  <2>1. Bound(u)' = Bound(u) BY <1>0, <1>9, <1>13 DEF Exact, At
  <2> QED BY <1>1, <1>3, <1>4, <1>13, <2>1 DEF Exact, At
<1> QED BY <1>1, <1>2, <1>5, <1>6, <1>8, <1>11, <1>12, <1>13, GoesOn

(* MoveBack and Restore: one entry is put back, or is left behind.         *)
LEMMA UndoingKeeps ==
    ASSUME IInv, NEW u \in Updates, NEW e \in Entries,
           thread = u, updates[u].at \in {"unaside", "restoring"},
           e \in updates[u].left,
           updates' = [updates EXCEPT ![u] = Advance(u, e, "reviving", {})],
           thread' = ThreadAfter(Advance(u, e, "reviving", {}), u),
           faults' \in 0 .. MaxFaults,
           UNCHANGED <<service, lock, installed, aged>>,
           \/ /\ live' = [live EXCEPT ![e] = aside[u][e]]
              /\ aside' = [aside EXCEPT ![u][e] = Absent]
              /\ UNCHANGED spoilt
           \/ /\ live' \in {live, [live EXCEPT ![e] = Absent]}
              /\ spoilt' = TRUE
              /\ UNCHANGED aside
    PROVE  IInv'
<1> USE BackendAssumption DEF IInv
<1> DEFINE r == Advance(u, e, "reviving", {})
<1>1. /\ updates[u] \in Records /\ updates[u].bundle \in Bundles
      /\ u \in Active /\ updates[u].left \subseteq Mine(u)
      /\ ShapeOf(u) /\ GuardedOf(u)
  BY InProgress DEF Stages, SyncStages, Shape, ShapeOf, Guarded
<1>2. /\ r \in Records /\ r.bundle = updates[u].bundle
      /\ r.moved = updates[u].moved
      /\ updates[u].left = {e} => r.at = "reviving" /\ r.left = {}
      /\ updates[u].left # {e} => r.at = updates[u].at /\ r.left = updates[u].left \ {e}
  <2>1. "reviving" \in AllStages BY DEF AllStages, Stages, AwaitStages
  <2> QED BY <1>1, <2>1, AdvanceIs
<1> HIDE DEF r
<1>3. /\ updates' \in [Updates -> Records] /\ updates'[u] = r
      /\ \A w \in Updates \ {u} : Alike(w)
  BY <1>2, Changed DEF r
<1>4. /\ live' \in Images /\ aside' \in [Updates -> Images]
      /\ \A w \in Updates \ {u} : aside'[w] = aside[w]
      /\ \A d \in Entries \ {e} : live'[d] = live[d] /\ aside'[u][d] = aside[u][d]
      /\ \/ live'[e] = aside[u][e] /\ aside'[u][e] = Absent /\ spoilt' = spoilt
         \/ aside'[u][e] = aside[u][e] /\ spoilt'
      /\ spoilt' \in BOOLEAN
  <2>1. live \in Images /\ aside \in [Updates -> Images] /\ Absent \in Contents
        /\ spoilt \in BOOLEAN
    BY DEF BackendTypeOK, Contents
  <2>2. CASE /\ live' = [live EXCEPT ![e] = aside[u][e]]
             /\ aside' = [aside EXCEPT ![u][e] = Absent]
             /\ UNCHANGED spoilt
    BY <2>1, <2>2 DEF Images
  <2>3. CASE /\ live' \in {live, [live EXCEPT ![e] = Absent]}
             /\ spoilt' = TRUE
             /\ UNCHANGED aside
    BY <2>1, <2>3 DEF Images
  <2> QED BY <2>2, <2>3
<1>5. /\ Active' = Active /\ Mine(u)' = Mine(u)
      /\ \A d \in Entries : Kept(d) => Kept(d)'
      /\ ShapeOf(u)' => Shape'
      /\ GuardedOf(u)' => Guarded'
  <2>1. r.at \in Stages /\ Active \cup {u} = Active
    BY <1>1, <1>2 DEF Stages, SyncStages, AwaitStages
  <2> QED BY <1>2, <1>3, <1>4, <2>1, OneUpdate DEF Permanent, Mine
<1>6. BackendTypeOK'
  BY <1>1, <1>2, <1>3, <1>4, TypeKeeps DEF BackendTypeOK, r
<1>7. ShapeOf(u)'
  <2>1. updates'[u].at \in {"unaside", "restoring", "reviving"} BY <1>2, <1>3
  <2>2. r.left \subseteq Mine(u) BY <1>1, <1>2
  <2>3. \A d \in Entries \ Mine(u) : aside'[u][d] = Absent
    BY <1>1, <1>4 DEF ShapeOf, Stages, SyncStages
  <2>4. updates[u].moved \subseteq Mine(u)
    BY <1>1 DEF ShapeOf, Stages, SyncStages
  <2> QED BY <1>2, <1>3, <1>5, <2>1, <2>2, <2>3, <2>4 DEF ShapeOf, At
<1>8. /\ Bound(u) = updates[u].left
      /\ Bound(u)' = updates[u].left \ {e}
      /\ Bound(u) \subseteq Entries
  BY <1>2, <1>3, BoundEntries DEF Bound, At
<1>9. GuardedOf(u)'
  BY <1>1, <1>4, <1>5, <1>8 DEF GuardedOf
<1>10. aside[u][e] \in Versions \/ Kept(e) BY <1>1, <1>8 DEF GuardedOf
<1>11. Covered'
  <2>1. (thread' = u /\ u # Nobody) \/ updates'[u].at \in Permanent
    BY <1>2, <1>3, NobodyElse DEF ThreadAfter, Permanent, SyncStages, r
  <2> QED BY <1>4, <1>5, <1>10, <2>1 DEF Covered, Kept
<1>12. ASSUME Exact(u), ~spoilt' PROVE Exact(u)'
  <2>1. ASSUME NEW d \in Entries
        PROVE  IF d \in Bound(u)' THEN aside'[u][d] = installed'[d]
               ELSE live'[d] = installed'[d]
    <3>1. CASE d = e BY <1>4, <1>8, <1>12, <3>1 DEF Exact
    <3>2. CASE d # e BY <1>4, <1>8, <1>12, <3>2 DEF Exact
    <3> QED BY <3>1, <3>2
  <2> QED BY <1>2, <1>3, <2>1 DEF Exact, At
<1> QED BY <1>1, <1>4, <1>5, <1>6, <1>7, <1>9, <1>11, <1>12, GoesOn

LEMMA MoveBackKeeps ==
    ASSUME IInv, NEW u \in Updates, NEW e \in Entries, MoveBack(u, e)
    PROVE  IInv'
<1>1. faults' \in 0 .. MaxFaults BY DEF MoveBack, IInv, BackendTypeOK
<1> QED BY <1>1, UndoingKeeps DEF MoveBack, At

LEMMA RestoreKeeps ==
    ASSUME IInv, NEW u \in Updates, NEW e \in Entries, Restore(u, e)
    PROVE  IInv'
<1>1. faults' \in 0 .. MaxFaults
  BY BackendAssumption DEF Restore, Faulty, IInv, BackendTypeOK
<1> QED BY <1>1, UndoingKeeps DEF Restore, At

LEMMA MirrorKeeps ==
    ASSUME IInv, NEW u \in Updates, NEW e \in Entries, Mirror(u, e)
    PROVE  IInv'
<1> USE BackendAssumption DEF IInv
<1> DEFINE r == Advance(u, e, "validating", {})
<1>0. thread = u /\ updates[u].at = "mirror" /\ e \in updates[u].left
  BY DEF Mirror, At
<1>1. /\ updates' = [updates EXCEPT ![u] = r]
      /\ thread' = ThreadAfter(r, u)
      /\ live' = [live EXCEPT ![e] = updates[u].bundle]
      /\ UNCHANGED <<aside, service, lock, faults, installed, spoilt, aged>>
  BY DEF Mirror
<1>2. /\ updates[u] \in Records /\ updates[u].bundle \in Bundles
      /\ u \in Active /\ updates[u].left \subseteq Mine(u) /\ Mine(u) \subseteq Entries
      /\ ShapeOf(u) /\ GuardedOf(u)
  BY <1>0, InProgress DEF Stages, SyncStages, Shape, ShapeOf, Guarded
<1>3. /\ r \in Records /\ r.bundle = updates[u].bundle
      /\ r.moved = updates[u].moved
      /\ updates[u].left = {e} => r.at = "validating" /\ r.left = {}
      /\ updates[u].left # {e} => r.at = "mirror" /\ r.left = updates[u].left \ {e}
  <2>1. "validating" \in AllStages BY DEF AllStages, Stages, AwaitStages
  <2> QED BY <1>0, <1>2, <2>1, AdvanceIs
<1> HIDE DEF r
<1>4. /\ updates' \in [Updates -> Records] /\ updates'[u] = r
      /\ \A w \in Updates \ {u} : Alike(w)
  BY <1>1, <1>3, Changed
<1>5. /\ live' \in Images
      /\ \A d \in Entries \ {e} : live'[d] = live[d]
      /\ live'[e] = updates[u].bundle
  <2>1. live \in Images /\ updates[u].bundle \in Contents
    BY <1>2 DEF BackendTypeOK, Contents, Versions
  <2> QED BY <1>1, <2>1 DEF Images
<1>6. /\ Active' = Active /\ Mine(u)' = Mine(u)
      /\ \A d \in Entries : Kept(d) => Kept(d)'
      /\ ShapeOf(u)' => Shape'
      /\ GuardedOf(u)' => Guarded'
  <2>1. r.at \in Stages /\ Active \cup {u} = Active
    BY <1>2, <1>3 DEF Stages, SyncStages, AwaitStages
  <2> QED BY <1>0, <1>1, <1>3, <1>4, <2>1, OneUpdate DEF Permanent, Mine
<1>7. BackendTypeOK'
  BY <1>0, <1>1, <1>2, <1>3, <1>4, <1>5, TypeKeeps DEF BackendTypeOK
<1>8. \A d \in Mine(u) \ updates[u].left : live'[d] \in Versions
  BY <1>0, <1>2, <1>5 DEF ShapeOf, At
<1>9. live'[e] \in Versions BY <1>2, <1>5 DEF Versions
<1>10. ShapeOf(u)'
  <2>1. r.left \subseteq Mine(u) BY <1>2, <1>3
  <2>2. \A d \in Entries \ Mine(u) : aside'[u][d] = Absent
    BY <1>0, <1>1, <1>2 DEF ShapeOf, Stages, SyncStages
  <2>3. r.moved \subseteq Mine(u)
    BY <1>0, <1>2, <1>3 DEF ShapeOf, Stages, SyncStages
  <2>4. r.at = "mirror" => \A d \in Mine(u) \ r.left : live'[d] \in Versions
    BY <1>3, <1>8, <1>9
  <2> QED BY <1>3, <1>4, <1>6, <2>1, <2>2, <2>3, <2>4 DEF ShapeOf, At
<1>11. /\ Bound(u) = Mine(u) /\ Bound(u)' = Mine(u)
       /\ e \in Mine(u)
  BY <1>0, <1>2, <1>3, <1>4, <1>6 DEF Bound, At
<1>12. GuardedOf(u)'
  BY <1>1, <1>2, <1>6, <1>11 DEF GuardedOf
<1>13. Covered'
  <2>1. CASE updates[u].left = {e}
    <3>1. \A d \in Mine(u) : live'[d] \in Versions BY <1>8, <1>9, <2>1
    <3>2. \A d \in Entries \ Mine(u) : aside[u][d] \notin Versions
      BY <1>0, <1>2 DEF ShapeOf, Stages, SyncStages
    <3> QED BY <1>0, <1>2, <1>5, <1>6, <3>1, <3>2 DEF Covered
  <2>2. CASE updates[u].left # {e}
    <3>1. thread' = u /\ u # Nobody
      BY <1>1, <1>3, <2>2, NobodyElse DEF ThreadAfter, SyncStages
    <3> QED BY <1>0, <1>1, <1>5, <1>6, <1>9, <3>1 DEF Covered
  <2> QED BY <2>1, <2>2
<1>14. ASSUME Exact(u) PROVE Exact(u)'
  <2>1. \A d \in Entries : IF d \in Bound(u)' THEN aside'[u][d] = installed'[d]
                           ELSE live'[d] = installed'[d]
    BY <1>1, <1>5, <1>11, <1>14 DEF Exact
  <2>2. \A d \in Mine(u) \ (updates[u].left \ {e}) : live'[d] = updates[u].bundle
    BY <1>0, <1>2, <1>5, <1>14 DEF Exact, At
  <2>3. updates[u].moved = Mine(u) BY <1>0, <1>14 DEF Exact
  <2> QED BY <1>3, <1>4, <1>6, <2>1, <2>2, <2>3 DEF Exact, At
<1> QED BY <1>1, <1>2, <1>6, <1>7, <1>10, <1>12, <1>13, <1>14, GoesOn

LEMMA CopyFailsKeeps ==
    ASSUME IInv, NEW u \in Updates, NEW e \in Entries, CopyFails(u, e)
    PROVE  IInv'
<1> USE BackendAssumption DEF IInv
<1> DEFINE q == updates[u]
           M == Mine(u)
           r == [q EXCEPT !.at = "clearing", !.left = M]
<1>0. thread = u /\ updates[u].at = "mirror" /\ e \in updates[u].left
  BY DEF CopyFails, At
<1>1. /\ updates' = [updates EXCEPT ![u] = r]
      /\ live' = [live EXCEPT ![e] = Torn]
      /\ faults' \in 0 .. MaxFaults
      /\ UNCHANGED <<aside, service, thread, lock, installed, spoilt, aged>>
  BY DEF CopyFails, Faulty, BackendTypeOK
<1>2. /\ q \in Records /\ q.bundle \in Bundles
      /\ u \in Active /\ updates[u].left \subseteq Mine(u) /\ M \subseteq Entries
      /\ ShapeOf(u) /\ GuardedOf(u)
  BY <1>0, InProgress DEF Stages, SyncStages, Shape, ShapeOf, Guarded
<1>3. /\ r \in Records /\ r.bundle = q.bundle
      /\ r.moved = q.moved
      /\ r.at = "clearing" /\ r.left = M
  <2> HIDE DEF q, M
  <2>1. r \in Records BY <1>2 DEF Records, Stages, SyncStages
  <2> QED BY <1>2, <2>1 DEF Records
<1> HIDE DEF r
<1>4. /\ updates' \in [Updates -> Records] /\ updates'[u] = r
      /\ \A w \in Updates \ {u} : Alike(w)
  BY <1>1, <1>3, Changed
<1>5. /\ live' \in Images
      /\ \A d \in Entries \ {e} : live'[d] = live[d]
  <2>1. live \in Images /\ Torn \in Contents
    BY <1>2 DEF BackendTypeOK, Contents
  <2> QED BY <1>1, <2>1 DEF Images
<1>6. /\ Active' = Active /\ Mine(u)' = Mine(u)
      /\ \A d \in Entries : Kept(d) => Kept(d)'
      /\ ShapeOf(u)' => Shape'
      /\ GuardedOf(u)' => Guarded'
  <2>1. r.at \in Stages /\ Active \cup {u} = Active
    BY <1>2, <1>3 DEF Stages, SyncStages, AwaitStages
  <2> QED BY <1>0, <1>1, <1>3, <1>4, <2>1, OneUpdate DEF Permanent, Mine
<1>7. BackendTypeOK'
  <2>1. thread' = ThreadAfter(r, u) BY <1>0, <1>1, <1>3 DEF ThreadAfter, SyncStages
  <2> QED BY <1>0, <1>1, <1>2, <1>3, <1>4, <1>5, <2>1, TypeKeeps DEF BackendTypeOK
<1>8. ShapeOf(u)'
  BY <1>0, <1>1, <1>2, <1>3, <1>4, <1>6 DEF ShapeOf, At, Stages, SyncStages
<1>9. Bound(u) = M /\ Bound(u)' = M /\ e \in M
  BY <1>0, <1>2, <1>3, <1>4, <1>6 DEF Bound, At
<1>10. GuardedOf(u)'
  BY <1>1, <1>2, <1>6, <1>9 DEF GuardedOf
<1>11. Covered'
  <2>1. aside[u][e] \in Versions \/ Kept(e) BY <1>2, <1>9 DEF GuardedOf
  <2> QED BY <1>0, <1>1, <1>5, <1>6, <2>1, NobodyElse DEF Covered
<1>12. ASSUME Exact(u) PROVE Exact(u)'
  BY <1>0, <1>1, <1>3, <1>4, <1>5, <1>6, <1>9, <1>12 DEF Exact, At
<1> QED BY <1>1, <1>2, <1>6, <1>7, <1>8, <1>10, <1>11, <1>12, GoesOn

LEMMA ClearKeeps ==
    ASSUME IInv, NEW u \in Updates, NEW e \in Entries, Clear(u, e)
    PROVE  IInv'
<1> USE BackendAssumption DEF IInv
<1> DEFINE q == updates[u]
           k == q.left \ {e}
           r == IF q.left = {e} THEN Undo(q, "restoring") ELSE [q EXCEPT !.left = k]
<1>0. thread = u /\ updates[u].at = "clearing" /\ e \in updates[u].left
  BY DEF Clear, At
<1>1. /\ updates' = [updates EXCEPT ![u] = r]
      /\ thread' = ThreadAfter(r, u)
      /\ \/ live' = [live EXCEPT ![e] = Absent] /\ faults' = faults /\ spoilt' = spoilt
         \/ live' \in {live, [live EXCEPT ![e] = Torn]} /\ Faulty /\ spoilt' = TRUE
      /\ UNCHANGED <<aside, service, lock, installed, aged>>
  BY DEF Clear
<1>2. /\ q \in Records /\ q.bundle \in Bundles
      /\ u \in Active /\ q.left \subseteq Mine(u)
      /\ Mine(u) \subseteq Entries /\ Mine(u) # {}
      /\ ShapeOf(u) /\ GuardedOf(u)
  BY <1>0, InProgress DEF Stages, SyncStages, Shape, ShapeOf, Guarded
<1>3. /\ r \in Records /\ r.bundle = q.bundle /\ r.moved = q.moved
      /\ q.left = {e} => /\ r.left = q.moved
                         /\ q.moved = {} => r.at = "reviving"
                         /\ q.moved # {} => r.at = "restoring"
      /\ q.left # {e} => r.at = "clearing" /\ r.left = k
  <2>1. CASE q.left = {e}
    <3>1. r = Undo(q, "restoring") BY <2>1
    <3> HIDE DEF r, q
    <3>2. "restoring" \in Stages BY DEF Stages, SyncStages
    <3> QED BY <1>2, <2>1, <3>1, <3>2, UndoIs
  <2>2. CASE q.left # {e}
    <3>1. r = [q EXCEPT !.left = k] /\ k \subseteq Entries BY <1>2, <2>2
    <3>2. q.at = "clearing" BY <1>0
    <3> HIDE DEF r, q, k
    <3>3. r \in Records BY <1>2, <3>1 DEF Records
    <3> QED BY <1>2, <2>2, <3>1, <3>2, <3>3 DEF Records
  <2> QED BY <2>1, <2>2
<1> HIDE DEF r
<1>4. /\ updates' \in [Updates -> Records] /\ updates'[u] = r
      /\ \A w \in Updates \ {u} : Alike(w)
  BY <1>1, <1>3, Changed
<1>5. /\ live' \in Images
      /\ \A d \in Entries \ {e} : live'[d] = live[d]
      /\ faults' \in 0 .. MaxFaults /\ spoilt' \in BOOLEAN
      /\ spoilt => spoilt'
  <2>1. live \in Images /\ Torn \in Contents /\ Absent \in Contents
        /\ faults \in 0 .. MaxFaults /\ spoilt \in BOOLEAN
    BY <1>2 DEF BackendTypeOK, Contents
  <2>2. CASE live' = [live EXCEPT ![e] = Absent] /\ faults' = faults /\ spoilt' = spoilt
    BY <2>1, <2>2 DEF Images
  <2>3. CASE live' \in {live, [live EXCEPT ![e] = Torn]} /\ Faulty /\ spoilt' = TRUE
    BY <2>1, <2>3 DEF Images, Faulty
  <2> QED BY <1>1, <2>2, <2>3
<1>6. /\ Active' = Active /\ Mine(u)' = Mine(u)
      /\ \A d \in Entries : Kept(d) => Kept(d)'
      /\ ShapeOf(u)' => Shape'
      /\ GuardedOf(u)' => Guarded'
  <2>1. r.at \in Stages /\ Active \cup {u} = Active
    BY <1>2, <1>3 DEF Stages, SyncStages, AwaitStages
  <2> QED BY <1>0, <1>1, <1>3, <1>4, <2>1, OneUpdate DEF Permanent, Mine
<1>7. BackendTypeOK'
  BY <1>0, <1>1, <1>2, <1>3, <1>4, <1>5, TypeKeeps DEF BackendTypeOK
<1>8. q.moved \subseteq Mine(u)
  BY <1>0, <1>2 DEF ShapeOf, Stages, SyncStages
<1>9. ShapeOf(u)'
  <2>1. \A d \in Entries \ Mine(u) : aside'[u][d] = Absent
    BY <1>0, <1>1, <1>2 DEF ShapeOf, Stages, SyncStages
  <2>2. r.left \subseteq Mine(u) BY <1>2, <1>3, <1>8
  <2> QED BY <1>3, <1>4, <1>6, <1>8, <2>1, <2>2 DEF ShapeOf, At
<1>10. /\ Bound(u) = Mine(u) /\ e \in Mine(u)
       /\ q.left # {e} => Bound(u)' = Mine(u)
       /\ q.left = {e} => Bound(u)' = q.moved
  BY <1>0, <1>2, <1>3, <1>4, <1>6 DEF Bound, At
<1>11. GuardedOf(u)'
  BY <1>1, <1>2, <1>6, <1>8, <1>10 DEF GuardedOf
<1>12. Covered'
  <2>1. aside[u][e] \in Versions \/ Kept(e) BY <1>2, <1>10 DEF GuardedOf
  <2>2. (thread' = u /\ u # Nobody) \/ updates'[u].at \in Permanent
    BY <1>1, <1>3, <1>4, NobodyElse DEF ThreadAfter, Permanent, SyncStages
  <2> QED BY <1>0, <1>1, <1>5, <1>6, <2>1, <2>2 DEF Covered, Kept
<1>13. ASSUME Exact(u), ~spoilt' PROVE Exact(u)'
  <2>1. q.moved = Mine(u) BY <1>0, <1>13 DEF Exact
  <2>2. Bound(u)' = Bound(u) BY <1>10, <2>1
  <2>3. r.at \in {"clearing", "restoring"} BY <1>2, <1>3, <2>1
  <2>4. \A d \in Entries : IF d \in Bound(u)' THEN aside'[u][d] = installed'[d]
                           ELSE live'[d] = installed'[d]
    BY <1>1, <1>5, <1>10, <1>13, <2>2 DEF Exact
  <2> QED BY <1>3, <1>4, <1>6, <2>1, <2>3, <2>4 DEF Exact, At
<1> QED BY <1>1, <1>2, <1>5, <1>6, <1>7, <1>9, <1>11, <1>12, <1>13, GoesOn

LEMMA StopServiceKeeps ==
    ASSUME IInv, NEW u \in Updates, StopService(u)
    PROVE  IInv'
<1> USE BackendAssumption DEF IInv
<1> DEFINE q == updates[u]
           M == Mine(u)
           s == IF q.at = "stopping" THEN "aside" ELSE "clearing"
           b == q.doubt \/ service' # Off
           r == [q EXCEPT !.at = s, !.left = M, !.doubt = b]
<1>0. thread = Nobody /\ updates[u].at \in {"stopping", "halting"}
  BY DEF StopService
<1>1. /\ updates' = [updates EXCEPT ![u] = r]
      /\ thread' = u
      /\ service' \in {Off, service}
      /\ faults' \in 0 .. MaxFaults
      /\ UNCHANGED <<live, aside, lock, installed, spoilt, aged>>
  BY DEF StopService, Faulty, BackendTypeOK
<1>2. /\ q \in Records /\ q.bundle \in Bundles
      /\ u \in Active
      /\ M \subseteq Entries /\ q.moved \subseteq M
      /\ ShapeOf(u) /\ GuardedOf(u)
  BY <1>0, InProgress DEF Stages, AwaitStages, Shape, ShapeOf, Guarded
<1>3. /\ r \in Records /\ r.bundle = q.bundle
      /\ r.moved = q.moved /\ r.left = M
      /\ q.at = "stopping" => r.at = "aside"
      /\ q.at = "halting" => r.at = "clearing"
  <2>1. s \in {"aside", "clearing"} /\ b \in BOOLEAN OBVIOUS
  <2>2. q.at = "stopping" => s = "aside" OBVIOUS
  <2>3. q.at = "halting" => s = "clearing" OBVIOUS
  <2> HIDE DEF q, M, s, b
  <2>4. r \in Records BY <1>2, <2>1 DEF Records, Stages, SyncStages
  <2> QED BY <1>2, <2>2, <2>3, <2>4 DEF Records
<1> HIDE DEF r
<1>4. /\ updates' \in [Updates -> Records] /\ updates'[u] = r
      /\ \A w \in Updates \ {u} : Alike(w)
  BY <1>1, <1>3, Changed
<1>5. /\ Active' = Active /\ Mine(u)' = Mine(u)
      /\ \A d \in Entries : Kept(d) => Kept(d)'
      /\ ShapeOf(u)' => Shape'
      /\ GuardedOf(u)' => Guarded'
  <2>1. r.at \in Stages /\ Active \cup {u} = Active
    BY <1>0, <1>2, <1>3 DEF Stages, SyncStages, AwaitStages
  <2> QED BY <1>0, <1>1, <1>3, <1>4, <2>1, OneUpdate DEF Permanent, Mine
<1>6. BackendTypeOK'
  <2>1. thread' = ThreadAfter(r, u) BY <1>0, <1>1, <1>3 DEF ThreadAfter, SyncStages
  <2> QED BY <1>0, <1>1, <1>2, <1>3, <1>4, <2>1, TypeKeeps DEF BackendTypeOK
<1>7. ShapeOf(u)'
  <2>1. q.at = "stopping" => q.moved = {} /\ \A e \in Entries : aside[u][e] = Absent
    BY <1>2 DEF ShapeOf
  <2>2. \A d \in Entries \ M : aside[u][d] = Absent
    BY <1>0, <1>2 DEF ShapeOf, Stages, AwaitStages
  <2> QED BY <1>0, <1>1, <1>2, <1>3, <1>4, <1>5, <2>1, <2>2 DEF ShapeOf, At
<1>8. /\ q.at = "stopping" => Bound(u) = {} /\ Bound(u)' = {}
      /\ q.at = "halting" => Bound(u) = M /\ Bound(u)' = M
  BY <1>0, <1>3, <1>4, <1>5 DEF Bound, At
<1>9. GuardedOf(u)'
  BY <1>0, <1>1, <1>2, <1>5, <1>8 DEF GuardedOf
<1>10. Covered'
  BY <1>0, <1>1, <1>5 DEF Covered
<1>11. ASSUME Exact(u) PROVE Exact(u)'
  <2>1. Bound(u)' = Bound(u) BY <1>0, <1>8
  <2>2. q.at = "stopping" => q.moved = {} BY <1>2 DEF ShapeOf
  <2>3. q.at = "halting" => q.moved = M BY <1>11 DEF Exact
  <2> QED BY <1>0, <1>1, <1>3, <1>4, <1>5, <1>11, <2>1, <2>2, <2>3 DEF Exact, At
<1> QED BY <1>1, <1>2, <1>5, <1>6, <1>7, <1>9, <1>10, <1>11, GoesOn

LEMMA NotValidatedKeeps ==
    ASSUME IInv, NEW u \in Updates, NotValidated(u)
    PROVE  IInv'
<1> USE BackendAssumption DEF IInv
<1> DEFINE q == updates[u]
           r == [q EXCEPT !.at = "halting"]
<1>0. thread = Nobody /\ updates[u].at = "validating"
  BY DEF NotValidated, At
<1>1. /\ updates' = [updates EXCEPT ![u] = r]
      /\ service' \in {service, live, Off}
      /\ UNCHANGED <<live, aside, thread, lock, faults, installed, spoilt, aged>>
  BY DEF NotValidated, MayRun
<1>2. /\ q \in Records /\ q.bundle \in Bundles
      /\ u \in Active /\ ShapeOf(u) /\ GuardedOf(u)
  BY <1>0, InProgress DEF Stages, AwaitStages, Shape, Guarded
<1>3. /\ r \in Records /\ r.bundle = q.bundle
      /\ r.moved = q.moved /\ r.left = q.left /\ r.at = "halting"
  <2> HIDE DEF q
  <2>1. r \in Records BY <1>2 DEF Records, Stages, AwaitStages
  <2> QED BY <1>2, <2>1 DEF Records
<1> HIDE DEF r
<1>4. /\ updates' \in [Updates -> Records] /\ updates'[u] = r
      /\ \A w \in Updates \ {u} : Alike(w)
  BY <1>1, <1>3, Changed
<1>5. /\ Active' = Active /\ Mine(u)' = Mine(u)
      /\ \A d \in Entries : Kept(d) => Kept(d)'
      /\ ShapeOf(u)' => Shape'
      /\ GuardedOf(u)' => Guarded'
  <2>1. r.at \in Stages /\ Active \cup {u} = Active
    BY <1>2, <1>3 DEF Stages, AwaitStages
  <2> QED BY <1>0, <1>1, <1>3, <1>4, <2>1, OneUpdate DEF Permanent, Mine
<1>6. BackendTypeOK'
  <2>1. thread' = ThreadAfter(r, u) BY <1>0, <1>1, <1>3 DEF ThreadAfter, SyncStages
  <2> QED BY <1>0, <1>1, <1>2, <1>3, <1>4, <2>1, TypeKeeps DEF BackendTypeOK
<1>7. ShapeOf(u)'
  BY <1>0, <1>1, <1>2, <1>3, <1>4, <1>5 DEF ShapeOf, At, Stages, AwaitStages
<1>8. Bound(u)' = Bound(u)
  BY <1>0, <1>3, <1>4, <1>5 DEF Bound, At
<1>9. GuardedOf(u)'
  BY <1>1, <1>2, <1>5, <1>8, BoundEntries DEF GuardedOf
<1>10. Covered'
  BY <1>0, <1>1, <1>5 DEF Covered
<1>11. ASSUME Exact(u) PROVE Exact(u)'
  BY <1>0, <1>1, <1>3, <1>4, <1>5, <1>8, <1>11 DEF Exact, At
<1> QED BY <1>1, <1>2, <1>5, <1>6, <1>7, <1>9, <1>10, <1>11, GoesOn

(* Validated and Revive: the update is over, what stays aside is permanent *)
(* and nothing was taken from what was kept before.                        *)
LEMMA OverKeeps ==
    ASSUME IInv, NEW u \in Updates, thread = Nobody,
           updates[u].at \in {"validating", "reviving"},
           updates' = [updates EXCEPT ![u] = Ended("over")],
           UNCHANGED <<live, thread, spoilt, aged>>, lock' = "free",
           service' \in Images \cup {Off}, faults' \in 0 .. MaxFaults,
           aside' \in [Updates -> Images],
           \A w \in Updates \ {u} : aside'[w] = aside[w],
           updates[u].at = "reviving" => aside' = aside,
           installed' \in [Entries -> Versions],
           Exact(u) => live = installed'
    PROVE  IInv'
<1> USE BackendAssumption DEF IInv
<1> DEFINE r == Ended("over")
<1>1. u \in Active BY DEF Active, Stages, AwaitStages
<1>2. /\ updates' \in [Updates -> Records] /\ updates'[u] = r /\ r.at = "over"
      /\ \A w \in Updates \ {u} : Alike(w)
  <2>1. r \in Records /\ r.at = "over" BY EndedIs
  <2> HIDE DEF r
  <2>2. updates' = [updates EXCEPT ![u] = r] BY DEF r
  <2> QED BY <2>1, <2>2, Changed
<1> HIDE DEF r
<1>3. /\ Active' = Active \ {u}
      /\ \A d \in Entries : Kept(d) => Kept(d)'
      /\ ShapeOf(u)' => Shape'
      /\ GuardedOf(u)' => Guarded'
  <2>1. r.at \notin Stages BY <1>2 DEF Stages, SyncStages, AwaitStages
  <2> QED BY <1>2, <2>1, OneUpdate DEF Permanent
<1>4. BackendTypeOK'
  <2>1. thread' = ThreadAfter(r, u) /\ r.at \notin Stages
    BY <1>2 DEF ThreadAfter, SyncStages, Stages, AwaitStages
  <2> QED BY <1>2, <2>1, TypeKeeps DEF BackendTypeOK
<1>5. ShapeOf(u)' BY <1>2 DEF ShapeOf, At, Stages, SyncStages, AwaitStages
<1>6. GuardedOf(u)' BY <1>2 DEF GuardedOf, Bound, At
<1>7. Covered' BY <1>3 DEF Covered
<1> QED BY <1>1, <1>3, <1>4, <1>5, <1>6, <1>7, Ends

LEMMA ReviveKeeps ==
    ASSUME IInv, NEW u \in Updates, Revive(u)
    PROVE  IInv'
<1> USE BackendAssumption DEF IInv
<1>0. thread = Nobody /\ updates[u].at = "reviving" BY DEF Revive, At
<1>1. /\ updates' = [updates EXCEPT ![u] = Ended("over")]
      /\ service' \in {service, live} /\ lock' = "free"
      /\ UNCHANGED <<live, aside, thread, faults, installed, spoilt, aged>>
  BY DEF Revive, MayRun
<1>2. ASSUME Exact(u) PROVE live = installed
  <2>1. Bound(u) = {} BY <1>0 DEF Bound, At
  <2>2. \A e \in Entries : live[e] = installed[e] BY <1>2, <2>1 DEF Exact
  <2> QED BY <2>2 DEF BackendTypeOK, Images
<1> QED BY <1>0, <1>1, <1>2, OverKeeps DEF BackendTypeOK

LEMMA ValidatedKeeps ==
    ASSUME IInv, NEW u \in Updates, Validated(u)
    PROVE  IInv'
<1> USE BackendAssumption DEF IInv
<1> DEFINE b == updates[u].bundle
           M == Mine(u)
<1>0. thread = Nobody /\ updates[u].at = "validating" BY DEF Validated, At
<1>1. /\ updates' = [updates EXCEPT ![u] = Ended("over")]
      /\ service' \in {service, live} /\ lock' = "free"
      /\ installed' = [e \in Entries |-> IF e \in M THEN b ELSE installed[e]]
      /\ UNCHANGED <<live, thread, spoilt, aged>>
  BY DEF Validated, MayRun
<1>2. /\ faults' \in 0 .. MaxFaults
      /\ aside' \in [Updates -> Images]
      /\ \A w \in Updates \ {u} : aside'[w] = aside[w]
  <2>1. /\ aside \in [Updates -> Images] /\ Absent \in Contents
        /\ faults \in 0 .. MaxFaults
    BY DEF BackendTypeOK, Contents
  <2>2. CASE /\ aside' = [aside EXCEPT ![u] = [e \in Entries |-> Absent]]
             /\ UNCHANGED faults
    BY <2>1, <2>2 DEF Images
  <2>3. CASE /\ Faulty
             /\ \E stuck \in updates[u].moved :
                   aside' = [aside EXCEPT ![u] = [e \in Entries |->
                                 IF e = stuck THEN @[e] ELSE Absent]]
    <3>1. PICK stuck : aside' = [aside EXCEPT ![u] = [e \in Entries |->
                                    IF e = stuck THEN aside[u][e] ELSE Absent]]
      BY <2>3
    <3> DEFINE i == [e \in Entries |-> IF e = stuck THEN aside[u][e] ELSE Absent]
    <3>2. i \in Images BY <2>1 DEF Images
    <3>3. aside' = [aside EXCEPT ![u] = i] BY <3>1
    <3> HIDE DEF i
    <3>4. faults' \in 0 .. MaxFaults BY <2>1, <2>3 DEF Faulty
    <3> QED BY <2>1, <3>2, <3>3, <3>4
  <2> QED BY <2>2, <2>3 DEF Validated
<1>3. installed' \in [Entries -> Versions]
  <2>1. installed \in [Entries -> Versions] /\ b \in Versions
    BY <1>0, InProgress DEF BackendTypeOK, Stages, AwaitStages, Versions
  <2> HIDE DEF M, b
  <2> QED BY <1>1, <2>1
<1>4. ASSUME Exact(u) PROVE live = installed'
  <2>1. Bound(u) = M BY <1>0 DEF Bound, At
  <2>2. \A e \in M : live[e] = b BY <1>0, <1>4 DEF Exact, At
  <2>3. \A e \in Entries : live[e] = installed'[e]
    BY <1>1, <1>4, <2>1, <2>2 DEF Exact
  <2> QED BY <1>3, <2>3 DEF BackendTypeOK, Images
<1> QED BY <1>0, <1>1, <1>2, <1>3, <1>4, OverKeeps DEF BackendTypeOK

LEMMA ApplyKeeps ==
    ASSUME IInv, NEW u \in Updates, NEW b \in Bundles, Apply(u, b)
    PROVE  IInv'
<1> USE BackendAssumption DEF IInv
<1> DEFINE r == [Unused EXCEPT !.at = "stopping", !.bundle = b, !.doubt = Active # {}]
           D(v) == updates[v].doubt \/ v \in Active
           like(v) == [updates[v] EXCEPT !.doubt = D(v)]
<1>0. thread = Nobody /\ updates[u] = Unused /\ lock # "held"
  BY DEF Apply
<1>1. /\ updates' = [v \in Updates |-> IF v = u THEN r ELSE like(v)]
      /\ spoilt' = (spoilt \/ Active # {}) /\ lock' = "held"
      /\ UNCHANGED <<live, aside, service, thread, faults, installed, aged>>
  BY DEF Apply
<1>2. /\ r \in Records /\ r.at = "stopping" /\ r.bundle = b /\ r.moved = {}
      /\ r.left = {}
  <2> DEFINE d == Active # {}
  <2>1. /\ Unused \in Records /\ Unused.moved = {} /\ Unused.left = {}
        /\ d \in BOOLEAN
    BY DEF Unused, Records
  <2>2. r = [Unused EXCEPT !.at = "stopping", !.bundle = b, !.doubt = d] OBVIOUS
  <2> HIDE DEF d, r
  <2>3. r \in Records BY <2>1, <2>2 DEF Records, Stages, AwaitStages
  <2> QED BY <2>1, <2>2, <2>3 DEF Records
<1>3. ASSUME NEW v \in Updates
      PROVE  /\ like(v) \in Records /\ like(v).at = updates[v].at
             /\ like(v).bundle = updates[v].bundle
             /\ like(v).moved = updates[v].moved /\ like(v).left = updates[v].left
  <2> DEFINE q == updates[v]
             d == D(v)
  <2>1. q \in Records /\ d \in BOOLEAN BY DEF BackendTypeOK
  <2>2. like(v) = [q EXCEPT !.doubt = d] OBVIOUS
  <2> HIDE DEF q, d, like
  <2>3. like(v) \in Records BY <2>1, <2>2 DEF Records
  <2>4. /\ like(v).at = q.at /\ like(v).bundle = q.bundle
        /\ like(v).moved = q.moved /\ like(v).left = q.left
    BY <2>1, <2>2 DEF Records
  <2> QED BY <2>3, <2>4 DEF q
<1> HIDE DEF r, like
<1>4. /\ updates' \in [Updates -> Records] /\ updates'[u] = r
      /\ \A w \in Updates \ {u} : Alike(w)
  BY <1>1, <1>2, <1>3 DEF Alike
<1>5. updates[u].at = "idle" BY <1>0 DEF Unused
<1>6. /\ Active' = Active \cup {u} /\ u \notin Active
      /\ \A d \in Entries : Kept(d) => Kept(d)'
      /\ ShapeOf(u)' => Shape'
      /\ GuardedOf(u)' => Guarded'
  <2>1. r.at \in Stages BY <1>2 DEF Stages, AwaitStages
  <2>2. u \notin Active BY <1>5 DEF Active, Stages, SyncStages, AwaitStages
  <2> QED BY <1>1, <1>4, <1>5, <2>1, <2>2, OneUpdate DEF Permanent
<1>7. BackendTypeOK'
  <2>1. thread' = ThreadAfter(r, u) BY <1>0, <1>1, <1>2 DEF ThreadAfter, SyncStages
  <2>2. spoilt' \in BOOLEAN BY <1>1
  <2> QED BY <1>0, <1>1, <1>2, <1>4, <2>1, <2>2, TypeKeeps DEF BackendTypeOK
<1>8. ShapeOf(u)'
  <2>1. \A e \in Entries : aside[u][e] = Absent BY <1>5 DEF Shape, ShapeOf
  <2> QED BY <1>1, <1>2, <1>4, <2>1 DEF ShapeOf, At
<1>9. Bound(u)' = {} BY <1>2, <1>4 DEF Bound, At
<1>10. GuardedOf(u)' BY <1>9 DEF GuardedOf
<1>11. Covered' BY <1>0, <1>1, <1>6 DEF Covered
<1>12. ASSUME ~spoilt' PROVE /\ Active' = {u} /\ Exact(u)'
  <2>1. Active = {} /\ live = installed BY <1>1, <1>12 DEF Whole
  <2>2. Exact(u)' BY <1>1, <1>2, <1>4, <1>9, <2>1 DEF Exact, At
  <2> QED BY <1>6, <2>1, <2>2
<1>13. Whole'
  <2>1. ASSUME ~spoilt'
        PROVE  /\ \A v, w \in Active' : v = w
               /\ \A v \in Active' : Exact(v)'
               /\ Active' # {}
    BY <1>12, <2>1
  <2> QED BY <2>1 DEF Whole, Alone
<1>14. LockGuardsSwap'
  BY <1>0, <1>1, <1>6 DEF LockGuardsSwap
<1> QED BY <1>6, <1>7, <1>8, <1>10, <1>11, <1>13, <1>14

LEMMA BundleRejectedKeeps ==
    ASSUME IInv, BundleRejected
    PROVE  IInv'
  BY Undisturbed DEF BundleRejected, IInv, BackendTypeOK, Alike, LockGuardsSwap

LEMMA LockAgesKeeps ==
    ASSUME IInv, LockAges
    PROVE  IInv'
<1>1. /\ updates' = updates /\ service' = service /\ lock' = "stale" /\ aged'
      /\ UNCHANGED <<live, aside, thread, installed, spoilt>>
  BY DEF LockAges
<1>2. faults' \in 0 .. MaxFaults /\ aged' \in BOOLEAN
  BY BackendAssumption DEF LockAges, Faulty, IInv, BackendTypeOK
<1>3. LockGuardsSwap' BY <1>1 DEF LockGuardsSwap
<1> QED BY <1>1, <1>2, <1>3, Undisturbed DEF IInv, BackendTypeOK, Alike

LEMMA ServiceMovesKeeps ==
    ASSUME IInv, ServiceMoves
    PROVE  IInv'
<1> DEFINE D(v) == updates[v].doubt \/ v = thread
           like(v) == [updates[v] EXCEPT !.doubt = D(v)]
<1>1. /\ updates' = [v \in Updates |-> like(v)]
      /\ service' \in {service, live, Off}
      /\ UNCHANGED <<live, aside, thread, lock, installed, spoilt, aged>>
  BY DEF ServiceMoves, MayRun
<1>2. faults' \in 0 .. MaxFaults
  BY BackendAssumption DEF ServiceMoves, Faulty, IInv, BackendTypeOK
<1>3. ASSUME NEW v \in Updates
      PROVE  /\ like(v) \in Records /\ like(v).at = updates[v].at
             /\ like(v).bundle = updates[v].bundle
             /\ like(v).moved = updates[v].moved /\ like(v).left = updates[v].left
  <2> DEFINE q == updates[v]
             d == D(v)
  <2>1. q \in Records /\ d \in BOOLEAN BY DEF IInv, BackendTypeOK
  <2>2. like(v) = [q EXCEPT !.doubt = d] OBVIOUS
  <2> HIDE DEF q, d, like
  <2>3. like(v) \in Records BY <2>1, <2>2 DEF Records
  <2>4. /\ like(v).at = q.at /\ like(v).bundle = q.bundle
        /\ like(v).moved = q.moved /\ like(v).left = q.left
    BY <2>1, <2>2 DEF Records
  <2> QED BY <2>3, <2>4 DEF q
<1> HIDE DEF like
<1>4. updates' \in [Updates -> Records] /\ \A w \in Updates : Alike(w)
  BY <1>1, <1>3 DEF Alike
<1>5. LockGuardsSwap /\ Active' = Active => LockGuardsSwap'
  BY <1>1 DEF LockGuardsSwap
<1> QED BY <1>1, <1>2, <1>4, <1>5, Undisturbed DEF IInv, BackendTypeOK

LEMMA DieKeeps ==
    ASSUME IInv, Die
    PROVE  IInv'
<1> USE BackendAssumption DEF IInv
<1>1. /\ live' \in Interrupted
      /\ updates' = [u \in Updates |-> IF u \in Active THEN Ended("dead") ELSE updates[u]]
      /\ thread' = Nobody
      /\ lock' = IF lock = "held" THEN "stale" ELSE lock
      /\ spoilt' = (spoilt \/ Swapping # {})
      /\ UNCHANGED <<aside, service, faults, installed, aged>>
  BY DEF Die
<1>2. /\ updates' \in [Updates -> Records]
      /\ \A u \in Active : updates'[u].at = "dead"
      /\ \A u \in Updates \ Active : updates'[u] = updates[u]
      /\ \A u \in Updates : updates'[u].at \in {"idle", "over", "dead"}
      /\ Active' = {}
  <2>1. /\ updates \in [Updates -> Records] /\ Ended("dead") \in Records
        /\ Ended("dead").at = "dead" /\ Active \subseteq Updates
    BY EndedIs DEF BackendTypeOK, Active
  <2>2. /\ updates' \in [Updates -> Records]
        /\ \A u \in Active : updates'[u].at = "dead"
        /\ \A u \in Updates \ Active : updates'[u] = updates[u]
    BY <1>1, <2>1
  <2>3. \A u \in Updates \ Active : updates[u].at \in {"idle", "over", "dead"}
    <3>1. ASSUME NEW u \in Updates PROVE updates[u].at \in Stages \cup {"idle", "over", "dead"}
      BY <2>1 DEF Records
    <3> QED BY <3>1 DEF Active
  <2>4. \A u \in Updates : updates'[u].at \in {"idle", "over", "dead"}
    BY <2>2, <2>3
  <2> QED BY <2>2, <2>4 DEF Active, Stages, SyncStages, AwaitStages
<1>3. /\ live' \in Images
      /\ \A d \in Entries : \/ live'[d] = live[d]
                            \/ thread # Nobody /\ d \in Bound(thread)
  <2>1. live \in Images /\ Torn \in Contents BY DEF BackendTypeOK, Contents
  <2>2. CASE live' = live BY <2>1, <2>2
  <2>3. CASE live' # live
    <3>1. PICK e : /\ thread # Nobody
                   /\ updates[thread].at \in {"mirror", "clearing", "restoring"}
                   /\ e \in updates[thread].left
                   /\ live' = [live EXCEPT ![e] = Torn]
      BY <1>1, <2>3 DEF Interrupted
    <3>2. thread \in Updates BY <3>1 DEF BackendTypeOK
    <3>3. updates[thread].left \subseteq Mine(thread) /\ Mine(thread) \subseteq Entries
      BY <3>1, <3>2, InProgress DEF Shape, ShapeOf, Stages, SyncStages
    <3>4. e \in Bound(thread) BY <3>1, <3>2, <3>3 DEF Bound, At
    <3>5. e \in Entries BY <3>1, <3>3
    <3> QED BY <2>1, <3>1, <3>4, <3>5 DEF Images
  <2> QED BY <2>2, <2>3
<1>4. ASSUME NEW d \in Entries, Kept(d) PROVE Kept(d)'
  <2>1. PICK w \in Updates : updates[w].at \in Permanent /\ aside[w][d] \in Versions
    BY <1>4 DEF Kept
  <2>2. updates'[w].at \in Permanent BY <1>2, <2>1 DEF Permanent
  <2> QED BY <1>1, <2>1, <2>2 DEF Kept
<1>5. BackendTypeOK'
  <2>1. lock' \in {"free", "held", "stale"} /\ spoilt' \in BOOLEAN
    BY <1>1 DEF BackendTypeOK
  <2>2. \A u \in Updates : updates'[u].at \in SyncStages <=> thread' = u
    BY <1>1, <1>2, NobodyElse DEF SyncStages
  <2> QED BY <1>1, <1>2, <1>3, <2>1, <2>2 DEF BackendTypeOK
<1>6. Shape'
  <2>1. ASSUME NEW u \in Updates PROVE ShapeOf(u)'
    <3>1. CASE u \in Active
      BY <1>2, <3>1 DEF ShapeOf, At, Stages, SyncStages, AwaitStages
    <3>2. CASE u \notin Active
      <4>1. ShapeOf(u) BY DEF Shape
      <4> QED BY <1>1, <1>2, <3>2, <4>1 DEF ShapeOf, At, Stages, SyncStages, AwaitStages
    <3> QED BY <3>1, <3>2
  <2> QED BY <2>1 DEF Shape
<1>7. Guarded'
  <2>1. ASSUME NEW u \in Updates PROVE GuardedOf(u)'
    BY <1>2 DEF GuardedOf, Bound, At
  <2> QED BY <2>1 DEF Guarded
<1>8. Covered'
  <2>1. ASSUME NEW d \in Entries PROVE live'[d] \in Versions \/ Kept(d)'
    <3>1. CASE live[d] \in Versions /\ live'[d] = live[d] BY <3>1
    <3>2. CASE Kept(d) BY <1>4, <3>2
    <3>3. CASE thread # Nobody /\ aside[thread][d] \in Versions
      <4>1. thread \in Active
        BY <3>3 DEF BackendTypeOK, Active, Stages
      <4> QED BY <1>1, <1>2, <3>3, <4>1 DEF Kept, Permanent, Active
    <3>4. CASE thread # Nobody /\ d \in Bound(thread)
      <4>1. thread \in Updates BY <3>4 DEF BackendTypeOK
      <4>2. GuardedOf(thread) BY <4>1 DEF Guarded
      <4>3. aside[thread][d] \in Versions \/ Kept(d) BY <3>4, <4>2 DEF GuardedOf
      <4> QED BY <3>2, <3>3, <3>4, <4>3
    <3> QED BY <1>3, <3>1, <3>2, <3>3, <3>4 DEF Covered
  <2> QED BY <2>1 DEF Covered
<1>9. ASSUME ~spoilt' PROVE live' = installed'
  <2>1. ~spoilt /\ Swapping = {} BY <1>1, <1>9 DEF BackendTypeOK
  <2>2. thread = Nobody
    BY <2>1 DEF Swapping, SwapStages, BackendTypeOK
  <2>3. live' = live BY <1>1, <2>2 DEF Interrupted
  <2>4. CASE Active = {} BY <1>1, <2>1, <2>3, <2>4 DEF Whole
  <2>5. CASE Active # {}
    <3>1. PICK u \in Active : TRUE BY <2>5
    <3>2. Exact(u) BY <2>1 DEF Whole
    <3>3. updates[u].at \in {"stopping", "reviving"}
      BY <2>1, <3>1 DEF Active, Swapping, SwapStages, Stages, AwaitStages
    <3>4. Bound(u) = {} BY <3>3 DEF Bound, At
    <3>5. \A e \in Entries : live[e] = installed[e] BY <3>2, <3>4 DEF Exact
    <3>6. live = installed BY <3>5 DEF BackendTypeOK, Images
    <3> QED BY <1>1, <2>3, <3>6
  <2> QED BY <2>4, <2>5
<1>10. Whole' BY <1>2, <1>9 DEF Whole, Alone
<1>11. LockGuardsSwap' BY <1>1, <1>2 DEF LockGuardsSwap
<1> QED BY <1>5, <1>6, <1>7, <1>8, <1>10, <1>11

LEMMA ReplacedKeeps ==
    ASSUME IInv, NEW n \in Releases, Replaced(n)
    PROVE  IInv'
<1> USE BackendAssumption DEF IInv
<1>1. /\ Active = {}
      /\ live' = [e \in Entries |-> n] /\ installed' = live' /\ ~spoilt'
      /\ service' \in {Off, live'}
      /\ aside' \in {aside, [u \in Updates |-> [e \in Entries |-> Absent]]}
      /\ spoilt' \in BOOLEAN
      /\ UNCHANGED <<updates, thread, lock, faults, aged>>
  BY DEF Replaced
<1>2. n \in Versions /\ live' \in Images /\ live' \in [Entries -> Versions]
  BY <1>1 DEF Versions, Images, Contents
<1>3. Active' = {} /\ thread = Nobody
  <2>1. Active' = {} BY <1>1 DEF Active
  <2>2. thread \in Updates => thread \in Active BY DEF BackendTypeOK, Active, Stages
  <2> QED BY <1>1, <2>1, <2>2 DEF BackendTypeOK
<1>4. aside' \in [Updates -> Images]
  <2>1. Absent \in Contents BY DEF Contents
  <2> QED BY <1>1, <2>1 DEF BackendTypeOK, Images
<1>5. BackendTypeOK'
  <2>1. \A u \in Updates : updates'[u].at \in SyncStages <=> thread' = u
    BY <1>1 DEF BackendTypeOK
  <2>2. lock' \in {"free", "held", "stale"} /\ updates' \in [Updates -> Records]
        /\ faults' \in 0 .. MaxFaults /\ aged' \in BOOLEAN
        /\ thread' \in Updates \cup {Nobody}
    BY <1>1 DEF BackendTypeOK
  <2> QED BY <1>1, <1>2, <1>3, <1>4, <2>1, <2>2 DEF BackendTypeOK
<1>6. ASSUME NEW u \in Updates PROVE updates'[u].at \notin Stages /\ Bound(u)' = {}
  <2>1. updates'[u].at \notin Stages BY <1>1 DEF Active
  <2> QED BY <2>1 DEF Bound, At, Stages, SyncStages, AwaitStages
<1>7. Shape'
  <2>1. ASSUME NEW u \in Updates PROVE ShapeOf(u)'
    <3>1. ShapeOf(u) BY DEF Shape
    <3>2. updates'[u] = updates[u] BY <1>1
    <3>3. \A e \in Entries : aside[u][e] = Absent => aside'[u][e] = Absent
      BY <1>1
    <3> QED BY <1>6, <3>1, <3>2, <3>3 DEF ShapeOf, At, Stages, SyncStages
  <2> QED BY <2>1 DEF Shape
<1>8. Guarded' BY <1>6 DEF Guarded, GuardedOf
<1>9. Covered' BY <1>1, <1>2 DEF Covered
<1>10. Whole' BY <1>1, <1>3 DEF Whole, Alone
<1>11. LockGuardsSwap' BY <1>1, <1>3 DEF LockGuardsSwap
<1> QED BY <1>5, <1>7, <1>8, <1>9, <1>10, <1>11

-----------------------------------------------------------------------------
LEMMA BackendInitHolds == BackendInit => IInv
<1> SUFFICES ASSUME BackendInit PROVE IInv
  OBVIOUS
<1> USE BackendAssumption
<1>1. /\ live = [e \in Entries |-> First] /\ installed = live
      /\ aside = [u \in Updates |-> [e \in Entries |-> Absent]]
      /\ service \in {Off, live} /\ updates = [u \in Updates |-> Unused]
      /\ thread = Nobody /\ lock = "free" /\ faults = 0
      /\ spoilt = FALSE /\ aged = FALSE
  BY DEF BackendInit
<1>2. Unused \in Records /\ Unused.at = "idle" /\ Unused.moved = {}
  BY DEF Unused, Records
<1>3. ASSUME NEW u \in Updates
      PROVE  /\ updates[u].at \notin Stages /\ updates[u].moved = {}
             /\ Bound(u) = {} /\ \A e \in Entries : aside[u][e] = Absent
             /\ At(u, "idle")
  <2>1. updates[u].at = "idle" /\ updates[u].moved = {} BY <1>1, <1>2
  <2> QED BY <1>1, <2>1 DEF Bound, At, Stages, SyncStages, AwaitStages
<1>4. Active = {} BY <1>3 DEF Active
<1>5. First \in Versions /\ First \in Contents /\ Absent \in Contents
  BY DEF Versions, Contents
<1>6. BackendTypeOK
  <2>1. \A u \in Updates : updates[u].at \in SyncStages <=> thread = u
    BY <1>1, <1>3, NobodyElse DEF Stages
  <2>2. live \in Images /\ aside \in [Updates -> Images] BY <1>1, <1>5 DEF Images
  <2>3. updates \in [Updates -> Records] BY <1>1, <1>2
  <2>4. installed \in [Entries -> Versions] BY <1>1, <1>5
  <2>5. faults \in 0 .. MaxFaults BY <1>1
  <2> QED BY <1>1, <1>4, <2>1, <2>2, <2>3, <2>4, <2>5 DEF BackendTypeOK
<1>7. Shape BY <1>3 DEF Shape, ShapeOf, At, Stages, SyncStages
<1>8. Guarded BY <1>3 DEF Guarded, GuardedOf
<1>9. Covered BY <1>1, <1>5 DEF Covered
<1>10. Whole BY <1>1, <1>4 DEF Whole, Alone
<1>11. LockGuardsSwap BY <1>1, <1>4 DEF LockGuardsSwap
<1> QED BY <1>6, <1>7, <1>8, <1>9, <1>10, <1>11 DEF IInv

LEMMA BackendStepKeeps == IInv /\ [BackendNext]_backendVars => IInv'
<1> SUFFICES ASSUME IInv, [BackendNext]_backendVars PROVE IInv'
  OBVIOUS
<1>1. ASSUME NEW u \in Updates, NEW b \in Bundles, Apply(u, b) PROVE IInv'
  BY <1>1, ApplyKeeps
<1>2. CASE BundleRejected BY <1>2, BundleRejectedKeeps
<1>3. ASSUME NEW u \in Updates, UpdateStep(u) PROVE IInv'
  <2>1. CASE StopService(u) BY <2>1, StopServiceKeeps
  <2>2. ASSUME NEW e \in Entries, MoveAside(u, e) \/ RenameFails(u, e) \/ MoveBack(u, e)
        PROVE  IInv'
    BY <2>2, MoveAsideKeeps, RenameFailsKeeps, MoveBackKeeps
  <2>3. ASSUME NEW e \in Entries, Mirror(u, e) \/ CopyFails(u, e) PROVE IInv'
    BY <2>3, MirrorKeeps, CopyFailsKeeps
  <2>4. CASE Validated(u) BY <2>4, ValidatedKeeps
  <2>5. CASE NotValidated(u) BY <2>5, NotValidatedKeeps
  <2>6. ASSUME NEW e \in Entries, Clear(u, e) \/ Restore(u, e) PROVE IInv'
    BY <2>6, ClearKeeps, RestoreKeeps
  <2>7. CASE Revive(u) BY <2>7, ReviveKeeps
  <2> QED BY <1>3, <2>1, <2>2, <2>3, <2>4, <2>5, <2>6, <2>7 DEF UpdateStep
<1>4. CASE LockAges BY <1>4, LockAgesKeeps
<1>5. CASE ServiceMoves BY <1>5, ServiceMovesKeeps
<1>6. CASE Die BY <1>6, DieKeeps
<1>7. ASSUME NEW n \in Releases, Replaced(n) PROVE IInv' BY <1>7, ReplacedKeeps
<1>8. CASE UNCHANGED backendVars
  BY <1>8, Undisturbed DEF backendVars, IInv, BackendTypeOK, Alike, LockGuardsSwap
<1> QED BY <1>1, <1>2, <1>3, <1>4, <1>5, <1>6, <1>7, <1>8 DEF BackendNext, BackendStep

(* The inductive invariant holds throughout.                               *)
THEOREM BackendInvariant == BackendSpec => []IInv
<1>1. BackendInit => IInv BY BackendInitHolds
<1>2. IInv /\ [BackendNext]_backendVars => IInv' BY BackendStepKeeps
<1> QED BY <1>1, <1>2, PTL DEF BackendSpec

(* The state of a backend update keeps its types, and the thread is held   *)
(* by the one update that is in a synchronous section.                     *)
THEOREM BackendTypes == BackendSpec => []BackendTypeOK
<1>1. IInv => BackendTypeOK BY DEF IInv
<1> QED BY <1>1, BackendInvariant, PTL

(* Whatever fails, and wherever the process dies, a whole version of every *)
(* entry is in its place or moved aside.                                   *)
THEOREM Recoverable == BackendSpec => []PayloadRecoverable
<1>1. ASSUME IInv PROVE PayloadRecoverable
  <2>1. ASSUME NEW e \in Entries
        PROVE  live[e] \in Versions \/ \E u \in Updates : aside[u][e] \in Versions
    <3>1. CASE live[e] \in Versions BY <3>1
    <3>2. CASE Kept(e) BY <3>2 DEF Kept
    <3>3. CASE thread # Nobody /\ aside[thread][e] \in Versions
      BY <1>1, <3>3 DEF IInv, BackendTypeOK
    <3> QED BY <1>1, <3>1, <3>2, <3>3 DEF IInv, Covered
  <2> QED BY <2>1 DEF PayloadRecoverable
<1> QED BY <1>1, BackendInvariant, PTL

(* Outside a swap, and unless a swap was cut short, undone in part or      *)
(* overlapped, the payload is what the last success made it.               *)
THEOREM Atomic == BackendSpec => []AllOrNothing
<1>1. ASSUME IInv, Swapping = {}, ~spoilt PROVE live = installed
  <2>1. CASE Active = {} BY <1>1, <2>1 DEF IInv, Whole
  <2>2. CASE Active # {}
    <3>1. PICK u \in Active : TRUE BY <2>2
    <3>2. Exact(u) BY <1>1 DEF IInv, Whole
    <3>3. updates[u].at \in {"stopping", "reviving"}
      BY <1>1, <3>1 DEF Active, Swapping, SwapStages, Stages, AwaitStages
    <3>4. Bound(u) = {} BY <3>3 DEF Bound, At
    <3>5. \A e \in Entries : live[e] = installed[e] BY <3>2, <3>4 DEF Exact
    <3> QED BY <1>1, <3>5 DEF IInv, BackendTypeOK, Images
  <2> QED BY <2>1, <2>2
<1>2. IInv => AllOrNothing BY <1>1 DEF AllOrNothing
<1> QED BY <1>2, BackendInvariant, PTL

(* Unless a lock outlived its ten minutes, one update runs at a time, and  *)
(* the lock is held exactly while it does.                                 *)
THEOREM LockIsTrue == BackendSpec => []LockGuardsSwap
<1>1. IInv => LockGuardsSwap BY DEF IInv
<1> QED BY <1>1, BackendInvariant, PTL

-----------------------------------------------------------------------------
(* The new files ran before the old ones are discarded.                    *)

\* What an update that nothing casts doubt on may count on: the service is
\* down while its files are changed, and the files it brought are in place.
Undoubted(u) == updates[u].at \in Stages /\ ~updates[u].doubt

Brought(u, entries) == \A e \in entries : live[e] = updates[u].bundle

FreshOf(u) ==
    Undoubted(u) =>
        /\ updates[u].at \in {"aside", "mirror"} => service = Off
        /\ At(u, "mirror") => Brought(u, Mine(u) \ updates[u].left)
        /\ At(u, "validating") =>
              /\ Brought(u, Mine(u))
              /\ service = Off \/ \A e \in Mine(u) : service[e] = updates[u].bundle

Fresh == \A u \in Updates :
    /\ FreshOf(u)
    /\ Undoubted(u) => \A v \in Active : v = u

LEMMA DoubtStays ==
    ASSUME NEW q \in Records, NEW s, NEW l, NEW m
    PROVE  /\ [q EXCEPT !.at = s].doubt = q.doubt
           /\ [q EXCEPT !.left = l].doubt = q.doubt
           /\ [q EXCEPT !.moved = m].doubt = q.doubt
           /\ [q EXCEPT !.at = s, !.left = l].doubt = q.doubt
  BY DEF Records

LEMMA DoubtCast ==
    ASSUME NEW q \in Records, NEW b \in BOOLEAN
    PROVE  /\ [q EXCEPT !.doubt = b].doubt = b
           /\ [q EXCEPT !.doubt = b].at = q.at
           /\ [q EXCEPT !.doubt = b].bundle = q.bundle
           /\ [q EXCEPT !.doubt = b].moved = q.moved
           /\ [q EXCEPT !.doubt = b].left = q.left
  BY DEF Records

(* A step of one update is a matter of that one: if it is free of doubt it *)
(* is the only one.                                                        *)
LEMMA OneFresh ==
    ASSUME IInv, Fresh, NEW u \in Updates, updates[u].at \in Stages,
           NEW r \in Records, updates' = [updates EXCEPT ![u] = r],
           r.at \in Stages => (updates[u].doubt => r.doubt),
           FreshOf(u)'
    PROVE  Fresh'
<1>1. /\ updates'[u] = r
      /\ \A w \in Updates \ {u} : updates'[w] = updates[w]
  BY DEF IInv, BackendTypeOK
<1>2. u \in Active
  BY DEF Active
<1>3. ASSUME NEW w \in Updates \ {u} PROVE ~Undoubted(w)'
  <2>1. Undoubted(w)' => Undoubted(w)
    BY <1>1 DEF Undoubted
  <2>2. ~Undoubted(w)
    BY <1>2 DEF Fresh
  <2> QED
    BY <2>1, <2>2
<1>4. ASSUME Undoubted(u)', NEW v \in Active' PROVE v = u
  <2>1. Undoubted(u)
    BY <1>1, <1>4 DEF Undoubted
  <2>2. v # u => v \in Active
    BY <1>1, <1>4 DEF Active
  <2> QED
    BY <2>1, <2>2 DEF Fresh
<1>5. \A w \in Updates \ {u} : FreshOf(w)'
  BY <1>3 DEF FreshOf, Undoubted
<1> QED
  BY <1>3, <1>4, <1>5 DEF Fresh, Undoubted, Active

LEMMA MovesFresh ==
    ASSUME IInv, Fresh, NEW u \in Updates, NEW e \in Entries,
           MoveAside(u, e) \/ Mirror(u, e)
    PROVE  Fresh'
<1> DEFINE q == updates[u]
           M == Mine(u)
<1>1. At(u, "aside") \/ At(u, "mirror")
  BY DEF MoveAside, Mirror
<1>2. /\ q.at \in Stages /\ q \in Records /\ q.bundle \in Bundles
      /\ M \in SUBSET Entries /\ e \in q.left /\ service' = service
      /\ q.left \subseteq M
  BY <1>1, InProgress DEF IInv, At, Stages, SyncStages, MoveAside, Mirror, Shape, ShapeOf
<1>3. CASE MoveAside(u, e)
  <2> DEFINE a == Advance(u, e, "mirror", M)
             r == [a EXCEPT !.moved = IF live[e] = Absent THEN @ ELSE @ \cup {e}]
  <2>1. updates' = [updates EXCEPT ![u] = r] /\ q.at = "aside"
    BY <1>3 DEF MoveAside, At
  <2>2. /\ a \in Records /\ a.bundle = q.bundle
        /\ q.left = {e} => a.at = "mirror" /\ a.left = M
        /\ q.left # {e} => a.at = "aside" /\ a.left = q.left \ {e}
    <3>1. "mirror" \in AllStages
      BY DEF AllStages, Stages, SyncStages
    <3> QED
      BY <1>2, <2>1, <3>1, AdvanceIs
  <2>3. a.doubt = q.doubt
    BY <1>2, DoubtStays DEF Advance
  <2> HIDE DEF a, q, M
  <2>4. /\ r \in Records /\ r.at = a.at /\ r.bundle = a.bundle
        /\ r.left = a.left /\ r.doubt = a.doubt
    BY <2>2 DEF Records
  <2> HIDE DEF r
  <2>5. updates'[u] = r
    BY <2>1 DEF IInv, BackendTypeOK
  <2>6. Mine(u)' = M
    BY <2>2, <2>4, <2>5 DEF Mine, M, q
  <2>7. FreshOf(u)'
    <3> SUFFICES ASSUME Undoubted(u)' PROVE FreshOf(u)'
      BY DEF FreshOf
    <3>1. Undoubted(u)
      BY <1>2, <2>3, <2>4, <2>5 DEF Undoubted, q
    <3>2. service = Off
      BY <2>1, <3>1 DEF Fresh, FreshOf, q
    <3>3. q.left = {e} => Brought(u, Mine(u) \ updates[u].left)'
      BY <2>2, <2>4, <2>5, <2>6 DEF Brought
    <3> QED
      BY <1>2, <2>2, <2>4, <2>5, <3>2, <3>3 DEF FreshOf, At
  <2> QED
    BY <1>2, <2>1, <2>3, <2>4, <2>7, OneFresh DEF q
<1>4. CASE Mirror(u, e)
  <2> DEFINE r == Advance(u, e, "validating", {})
  <2>1. /\ updates' = [updates EXCEPT ![u] = r] /\ q.at = "mirror"
        /\ live' = [live EXCEPT ![e] = q.bundle]
    BY <1>4 DEF Mirror, At
  <2>2. /\ r \in Records /\ r.bundle = q.bundle
        /\ q.left = {e} => r.at = "validating"
        /\ q.left # {e} => r.at = "mirror" /\ r.left = q.left \ {e}
    <3>1. "validating" \in AllStages /\ {} \in SUBSET Entries
      BY DEF AllStages, Stages, AwaitStages
    <3> QED
      BY <1>2, <2>1, <3>1, AdvanceIs
  <2>3. r.doubt = q.doubt
    BY <1>2, DoubtStays DEF Advance
  <2> HIDE DEF r, q, M
  <2>4. updates'[u] = r
    BY <2>1, <2>2 DEF IInv, BackendTypeOK
  <2>5. Mine(u)' = M
    BY <2>2, <2>4 DEF Mine, M, q
  <2>6. FreshOf(u)'
    <3> SUFFICES ASSUME Undoubted(u)' PROVE FreshOf(u)'
      BY DEF FreshOf
    <3>1. Undoubted(u)
      BY <1>2, <2>3, <2>4 DEF Undoubted, q
    <3>2. service = Off /\ Brought(u, M \ q.left)
      BY <2>1, <3>1 DEF Fresh, FreshOf, At, q, M
    <3>3. live'[e] = q.bundle /\ \A d \in Entries : d # e => live'[d] = live[d]
      BY <2>1 DEF IInv, BackendTypeOK, Images
    <3>4. \A d \in M \ (q.left \ {e}) : live'[d] = q.bundle
      BY <1>2, <3>2, <3>3 DEF Brought, q
    <3>5. q.left = {e} => Brought(u, Mine(u))'
      BY <2>2, <2>4, <2>5, <3>4 DEF Brought
    <3>6. q.left # {e} => Brought(u, Mine(u) \ updates[u].left)'
      BY <2>2, <2>4, <2>5, <3>4 DEF Brought
    <3> QED
      BY <1>2, <2>2, <2>4, <3>2, <3>5, <3>6 DEF FreshOf, At
  <2> QED
    BY <1>2, <2>1, <2>2, <2>3, <2>6, OneFresh DEF q
<1> QED
  BY <1>3, <1>4

\* An undoing promises nothing of the files, and an update that is over does
\* not either.
LEMMA UndoingFresh ==
    ASSUME IInv, Fresh, NEW u \in Updates, updates[u].at \in Stages,
           NEW r \in Records, updates' = [updates EXCEPT ![u] = r],
           \/ r.at \notin Stages
           \/ /\ r.at \notin {"aside", "mirror", "validating"}
              /\ r.doubt = updates[u].doubt
    PROVE  Fresh'
<1>1. updates'[u] = r
  BY DEF IInv, BackendTypeOK
<1>2. FreshOf(u)'
  BY <1>1 DEF FreshOf, Undoubted, At
<1> QED
  BY <1>2, OneFresh

LEMMA UpdateFresh ==
    ASSUME IInv, Fresh, NEW u \in Updates, UpdateStep(u)
    PROVE  Fresh'
<1> DEFINE q == updates[u]
<1>1. q \in Records
  BY DEF IInv, BackendTypeOK
<1>2. CASE StopService(u)
  <2> DEFINE s == IF q.at = "stopping" THEN "aside" ELSE "clearing"
             b == q.doubt \/ service' # Off
             r == [q EXCEPT !.at = s, !.left = Mine(u), !.doubt = b]
  <2>1. /\ q.at \in {"stopping", "halting"} /\ live' = live
        /\ updates' = [updates EXCEPT ![u] = r]
    BY <1>2 DEF StopService
  <2>2. q.at \in Stages
    BY <2>1 DEF Stages, AwaitStages
  <2>3. Mine(u) \in SUBSET Entries
    BY <2>2, InProgress DEF IInv
  <2>4. s \in {"aside", "clearing"} /\ b \in BOOLEAN /\ s \in Stages
    BY DEF Stages, SyncStages
  <2>5. (q.doubt => b) /\ (~b => service' = Off)
    OBVIOUS
  <2> HIDE DEF q, s, b
  <2>6. r \in Records /\ r.at = s /\ r.doubt = b
    BY <1>1, <2>3, <2>4 DEF Records
  <2> HIDE DEF r
  <2>7. updates'[u] = r
    BY <2>1 DEF IInv, BackendTypeOK
  <2>8. FreshOf(u)'
    BY <2>4, <2>5, <2>6, <2>7 DEF FreshOf, Undoubted, At
  <2> QED
    BY <2>1, <2>2, <2>5, <2>6, <2>8, OneFresh DEF q
<1>3. ASSUME NEW e \in Entries, MoveAside(u, e) \/ Mirror(u, e) PROVE Fresh'
  BY <1>3, MovesFresh
<1>4. ASSUME NEW e \in Entries, RenameFails(u, e) PROVE Fresh'
  <2>1. q.at = "aside" /\ updates' = [updates EXCEPT ![u] = Undo(q, "unaside")]
    BY <1>4 DEF RenameFails, At
  <2>2. /\ Undo(q, "unaside") \in Records
        /\ Undo(q, "unaside").at \in {"reviving", "unaside"}
    BY <1>1, UndoIs DEF Stages, SyncStages
  <2>3. Undo(q, "unaside").doubt = q.doubt
    BY <1>1, DoubtStays DEF Undo
  <2> QED
    BY <2>1, <2>2, <2>3, UndoingFresh DEF Stages, SyncStages
<1>5. ASSUME NEW e \in Entries, MoveBack(u, e) \/ Restore(u, e) PROVE Fresh'
  <2> DEFINE r == Advance(u, e, "reviving", {})
  <2>1. /\ q.at \in {"unaside", "restoring"}
        /\ updates' = [updates EXCEPT ![u] = r]
    BY <1>5 DEF MoveBack, Restore, At
  <2>2. r \in Records /\ r.at \in {"reviving", q.at}
    BY <1>1, AdvanceIs DEF AllStages, Stages, AwaitStages
  <2>3. r.doubt = q.doubt
    BY <1>1, DoubtStays DEF Advance
  <2> HIDE DEF r
  <2> QED
    BY <2>1, <2>2, <2>3, UndoingFresh DEF Stages, SyncStages
<1>6. ASSUME NEW e \in Entries, CopyFails(u, e) PROVE Fresh'
  <2> DEFINE r == [q EXCEPT !.at = "clearing", !.left = Mine(u)]
  <2>1. q.at = "mirror" /\ updates' = [updates EXCEPT ![u] = r]
    BY <1>6 DEF CopyFails, At
  <2>2. Mine(u) \in SUBSET Entries
    BY <2>1, InProgress DEF IInv, Stages, SyncStages
  <2>3. r \in Records /\ r.at = "clearing" /\ r.doubt = q.doubt
    BY <1>1, <2>2 DEF Records, Stages, SyncStages
  <2> HIDE DEF r
  <2> QED
    BY <2>1, <2>3, UndoingFresh DEF Stages, SyncStages
<1>7. ASSUME Validated(u) \/ Revive(u) PROVE Fresh'
  <2>1. /\ q.at \in {"validating", "reviving"}
        /\ updates' = [updates EXCEPT ![u] = Ended("over")]
    BY <1>7 DEF Validated, Revive, At
  <2>2. Ended("over") \in Records /\ Ended("over").at \notin Stages
    BY EndedIs DEF Stages, SyncStages, AwaitStages
  <2> QED
    BY <2>1, <2>2, UndoingFresh DEF Stages, AwaitStages
<1>8. ASSUME NotValidated(u) PROVE Fresh'
  <2> DEFINE r == [q EXCEPT !.at = "halting"]
  <2>1. q.at = "validating" /\ updates' = [updates EXCEPT ![u] = r]
    BY <1>8 DEF NotValidated, At
  <2>2. r \in Records /\ r.at = "halting" /\ r.doubt = q.doubt
    BY <1>1 DEF Records, Stages, AwaitStages
  <2> HIDE DEF r
  <2> QED
    BY <2>1, <2>2, UndoingFresh DEF Stages, AwaitStages
<1>9. ASSUME NEW e \in Entries, Clear(u, e) PROVE Fresh'
  <2> DEFINE r == IF q.left = {e} THEN Undo(q, "restoring")
                  ELSE [q EXCEPT !.left = @ \ {e}]
  <2>1. q.at = "clearing" /\ updates' = [updates EXCEPT ![u] = r]
    BY <1>9 DEF Clear, At
  <2>2. /\ Undo(q, "restoring") \in Records
        /\ Undo(q, "restoring").at \in {"reviving", "restoring"}
    BY <1>1, UndoIs DEF Stages, SyncStages
  <2>3. [q EXCEPT !.left = @ \ {e}] \in Records /\ [q EXCEPT !.left = @ \ {e}].at = q.at
    BY <1>1 DEF Records
  <2>4. Undo(q, "restoring").doubt = q.doubt /\ [q EXCEPT !.left = @ \ {e}].doubt = q.doubt
    BY <1>1, DoubtStays DEF Undo
  <2>5. /\ r \in Records /\ r.at \in {"clearing", "reviving", "restoring"}
        /\ r.doubt = q.doubt
    BY <2>1, <2>2, <2>3, <2>4
  <2> HIDE DEF r
  <2> QED
    BY <2>1, <2>5, UndoingFresh DEF Stages, SyncStages
<1> QED
  BY <1>2, <1>3, <1>4, <1>5, <1>6, <1>7, <1>8, <1>9 DEF UpdateStep

(* An update that joins another casts doubt on both.                       *)
LEMMA ApplyFresh ==
    ASSUME IInv, Fresh, NEW u \in Updates, NEW b \in Bundles, Apply(u, b)
    PROVE  Fresh'
<1> DEFINE new == [Unused EXCEPT !.at = "stopping", !.bundle = b, !.doubt = Active # {}]
<1>1. /\ updates'[u] = new
      /\ \A v \in Updates \ {u} : updates'[v] = [updates[v] EXCEPT !.doubt = @ \/ v \in Active]
      /\ updates[u] = Unused
  BY DEF Apply
<1>2. new.at = "stopping" /\ (new.doubt <=> Active # {})
  BY DEF Unused
<1>3. \A v \in Updates \ {u} :
          /\ updates'[v].at = updates[v].at
          /\ updates'[v].doubt <=> updates[v].doubt \/ v \in Active
  <2>1. \A v \in Updates : updates[v] \in Records
    BY DEF IInv, BackendTypeOK
  <2>2. ASSUME NEW v \in Updates \ {u}
        PROVE  /\ updates'[v].at = updates[v].at
               /\ updates'[v].doubt <=> updates[v].doubt \/ v \in Active
    <3> DEFINE b1 == updates[v].doubt \/ v \in Active
    <3>1. updates'[v] = [updates[v] EXCEPT !.doubt = b1] /\ b1 \in BOOLEAN
      BY <1>1
    <3>2. b1 <=> updates[v].doubt \/ v \in Active
      OBVIOUS
    <3> HIDE DEF b1
    <3>3. updates'[v].doubt = b1 /\ updates'[v].at = updates[v].at
      BY <2>1, <3>1, DoubtCast
    <3> QED
      BY <3>2, <3>3
  <2> QED
    BY <2>2
<1> HIDE DEF new
<1>4. ASSUME NEW v \in Updates \ {u} PROVE ~Undoubted(v)'
  BY <1>3 DEF Undoubted, Active
<1>5. ASSUME Undoubted(u)', NEW v \in Active' PROVE v = u
  <2>1. Active = {}
    BY <1>1, <1>2, <1>5 DEF Undoubted
  <2>2. v # u => v \in Active
    BY <1>3 DEF Active
  <2> QED
    BY <2>1, <2>2
<1>6. FreshOf(u)'
  BY <1>1, <1>2 DEF FreshOf, At
<1>7. \A v \in Updates \ {u} : FreshOf(v)'
  BY <1>4 DEF FreshOf, Undoubted
<1> QED
  BY <1>4, <1>5, <1>6, <1>7 DEF Fresh, Undoubted, Active

(* A service that moves on its own casts doubt on the update whose files   *)
(* are being changed; any other finds it on the files in place or not at   *)
(* all.                                                                    *)
LEMMA ServiceFresh == ASSUME IInv, Fresh, ServiceMoves PROVE Fresh'
<1>1. /\ service' \in {service, live, Off} /\ live' = live /\ thread' = thread
      /\ \A w \in Updates : updates'[w] = [updates[w] EXCEPT !.doubt = @ \/ w = thread]
  BY DEF ServiceMoves, MayRun
<1>2. \A w \in Updates :
          /\ Alike(w)
          /\ updates'[w].doubt <=> updates[w].doubt \/ w = thread
  <2>1. \A w \in Updates : updates[w] \in Records
    BY DEF IInv, BackendTypeOK
  <2>2. ASSUME NEW w \in Updates
        PROVE  Alike(w) /\ (updates'[w].doubt <=> updates[w].doubt \/ w = thread)
    <3> DEFINE b == updates[w].doubt \/ w = thread
    <3>1. updates'[w] = [updates[w] EXCEPT !.doubt = b] /\ b \in BOOLEAN
      BY <1>1
    <3>2. b <=> updates[w].doubt \/ w = thread
      OBVIOUS
    <3> HIDE DEF b
    <3>3. updates'[w].doubt = b /\ Alike(w)
      BY <2>1, <3>1, DoubtCast DEF Alike
    <3> QED
      BY <3>2, <3>3
  <2> QED
    BY <2>2
<1>3. Active' = Active
  BY <1>2 DEF Active, Alike
<1>4. ASSUME NEW w \in Updates, Undoubted(w)' PROVE Undoubted(w) /\ updates[w].at \notin SyncStages
  BY <1>2, <1>4 DEF Undoubted, IInv, BackendTypeOK, Alike
<1>5. ASSUME NEW w \in Updates PROVE FreshOf(w)'
  <2> SUFFICES ASSUME Undoubted(w)' PROVE FreshOf(w)'
    BY DEF FreshOf
  <2>1. updates[w].at \notin {"aside", "mirror"} /\ Undoubted(w)
    BY <1>4 DEF SyncStages
  <2>2. CASE ~At(w, "validating")
    BY <1>2, <2>1, <2>2 DEF FreshOf, At, Alike
  <2>3. CASE At(w, "validating")
    <3>1. /\ Brought(w, Mine(w))
          /\ service = Off \/ \A e \in Mine(w) : service[e] = updates[w].bundle
      BY <2>1, <2>3 DEF Fresh, FreshOf
    <3>2. Mine(w)' = Mine(w) /\ updates'[w].bundle = updates[w].bundle
      BY <1>2 DEF Mine, Alike
    <3>3. Brought(w, Mine(w))'
      BY <1>1, <3>1, <3>2 DEF Brought
    <3>4. service' = Off \/ \A e \in Mine(w) : service'[e] = updates[w].bundle
      BY <1>1, <3>1 DEF Brought
    <3> QED
      BY <1>2, <2>1, <3>2, <3>3, <3>4 DEF FreshOf, At, Alike
  <2> QED
    BY <2>2, <2>3
<1> QED
  BY <1>3, <1>4, <1>5 DEF Fresh

LEMMA StepFresh == ASSUME IInv, Fresh, [BackendNext]_backendVars PROVE Fresh'
<1>1. ASSUME NEW u \in Updates, NEW b \in Bundles, Apply(u, b) PROVE Fresh'
  BY <1>1, ApplyFresh
<1>2. ASSUME NEW u \in Updates, UpdateStep(u) PROVE Fresh'
  BY <1>2, UpdateFresh
<1>3. CASE BundleRejected \/ LockAges \/ UNCHANGED backendVars
  <2>1. updates' = updates /\ live' = live /\ service' = service
    BY <1>3 DEF BundleRejected, LockAges, backendVars
  <2> QED
    BY <2>1 DEF Fresh, FreshOf, Undoubted, Brought, Active, At, Mine
<1>4. CASE ServiceMoves
  BY <1>4, ServiceFresh
<1>5. CASE Die
  <2>1. \A w \in Updates : updates'[w].at \notin Stages
    BY <1>5, EndedIs DEF Die, Active, Stages, SyncStages, AwaitStages
  <2> QED
    BY <2>1 DEF Fresh, FreshOf, Undoubted
<1>6. ASSUME NEW n \in Releases, Replaced(n) PROVE Fresh'
  <2>1. updates' = updates /\ \A w \in Updates : updates[w].at \notin Stages
    BY <1>6 DEF Replaced, Active
  <2> QED
    BY <2>1 DEF Fresh, FreshOf, Undoubted
<1> QED
  BY <1>1, <1>2, <1>3, <1>4, <1>5, <1>6 DEF BackendNext, BackendStep

(* Only an update in the middle of being validated can be over by success, *)
(* and only on a service that runs.                                        *)
LEMMA OverIsValidated ==
    ASSUME IInv, [BackendNext]_backendVars, NEW u \in Updates,
           At(u, "validating"), updates'[u].at = "over"
    PROVE  service' \in {service, live} \ {Off}
<1>1. /\ updates \in [Updates -> Records] /\ updates[u].at = "validating"
      /\ u \in Active /\ thread # u
  BY DEF IInv, BackendTypeOK, At, Active, Stages, AwaitStages, SyncStages
<1>2. ASSUME NEW w \in Updates, NEW b \in Bundles, Apply(w, b) PROVE FALSE
  <2>1. updates[w].at = "idle"
    <3>1. updates[w] = Unused
      BY <1>2 DEF Apply
    <3>2. Unused.at = "idle"
      BY DEF Unused
    <3> QED
      BY <3>1, <3>2
  <2>2. u # w /\ updates'[u] = [updates[u] EXCEPT !.doubt = @ \/ u \in Active]
    BY <1>1, <1>2, <2>1 DEF Apply
  <2>3. updates'[u].at = updates[u].at
    BY <1>1, <2>2 DEF Records
  <2> QED
    BY <1>1, <2>3
<1>3. ASSUME NEW w \in Updates, UpdateStep(w), ~Validated(u)
      PROVE  FALSE
  <2>1. w # u => updates'[u] = updates[u]
    BY <1>1, <1>3
       DEF UpdateStep, StopService, MoveAside, RenameFails, MoveBack, Mirror, CopyFails,
           Validated, NotValidated, Clear, Restore, Revive
  <2>2. w = u => NotValidated(u)
    BY <1>1, <1>3
       DEF UpdateStep, StopService, MoveAside, RenameFails, MoveBack, Mirror, CopyFails,
           Clear, Restore, Revive, At
  <2>3. NotValidated(u) => updates'[u].at = "halting"
    BY <1>1 DEF NotValidated, Records
  <2> QED
    BY <1>1, <2>1, <2>2, <2>3
<1>4. CASE BundleRejected \/ LockAges \/ UNCHANGED backendVars
  BY <1>1, <1>4 DEF BundleRejected, LockAges, backendVars
<1>5. CASE ServiceMoves
  <2>1. updates'[u] = [updates[u] EXCEPT !.doubt = @ \/ u = thread]
    BY <1>5 DEF ServiceMoves
  <2>2. updates'[u].at = updates[u].at
    BY <1>1, <2>1 DEF Records
  <2> QED
    BY <1>1, <2>2
<1>6. CASE Die
  <2>1. updates'[u] = Ended("dead")
    BY <1>1, <1>6 DEF Die
  <2> QED
    BY <2>1, EndedIs
<1>7. ASSUME NEW n \in Releases, Replaced(n) PROVE FALSE
  BY <1>1, <1>7 DEF Replaced
<1>8. CASE Validated(u)
  BY <1>8 DEF Validated, MayRun
<1> QED
  BY <1>2, <1>3, <1>4, <1>5, <1>6, <1>7, <1>8 DEF BackendNext, BackendStep

LEMMA FreshAlways == BackendSpec => []Fresh
<1>1. BackendInit => Fresh
  BY DEF BackendInit, Fresh, FreshOf, Undoubted, Unused, Stages, SyncStages, AwaitStages
<1> QED
  BY <1>1, StepFresh, BackendInvariant, PTL DEF BackendSpec

(* What was moved aside is discarded only after the service has answered   *)
(* from the new files, provided the service was down during the swap and   *)
(* the update was alone (steps 6 and 7 of the flow).                       *)
THEOREM RunsBeforeDiscard == BackendSpec => RanBeforeDiscard
<1> DEFINE Ran == \A u \in Updates :
               At(u, "validating") /\ updates'[u].at = "over" /\ ~updates[u].doubt
                  => \A e \in Mine(u) : service'[e] = updates[u].bundle
<1>1. ASSUME IInv, Fresh, [BackendNext]_backendVars PROVE Ran
  <2> SUFFICES ASSUME NEW u \in Updates, At(u, "validating"), updates'[u].at = "over",
                      ~updates[u].doubt, NEW e \in Mine(u)
               PROVE  service'[e] = updates[u].bundle
    OBVIOUS
  <2>1. service' \in {service, live} \ {Off}
    BY <1>1, OverIsValidated
  <2>2. Undoubted(u)
    BY DEF Undoubted, At, Stages, AwaitStages
  <2>3. live[e] = updates[u].bundle /\ (service = Off \/ service[e] = updates[u].bundle)
    BY <1>1, <2>2 DEF Fresh, FreshOf, Brought
  <2> QED
    BY <2>1, <2>3
<1>2. IInv /\ Fresh /\ [BackendNext]_backendVars => [Ran]_backendVars
  BY <1>1
<1> HIDE DEF Ran
<1>3. BackendSpec => [][Ran]_backendVars
  BY <1>2, FreshAlways, BackendInvariant, PTL DEF BackendSpec
<1> QED
  BY <1>3, PTL DEF RanBeforeDiscard, Ran

-----------------------------------------------------------------------------
(* Part 2: the application                                                 *)

(* Every step of the application is a step of the backend update, or       *)
(* leaves it alone.                                                        *)
THEOREM BackendUnharmed == Spec => BackendSpec
<1>1. Init => BackendInit BY DEF Init
<1>2. [Next]_vars => [BackendNext]_backendVars
  <2> SUFFICES ASSUME [Next]_vars PROVE [BackendNext]_backendVars
    OBVIOUS
  <2>1. CASE AppRuns BY <2>1 DEF AppRuns
  <2>2. CASE BackendRuns BY <2>2 DEF BackendRuns, BackendNext
  <2>3. CASE ServiceChanges BY <2>3 DEF ServiceChanges, BackendNext
  <2>4. CASE Closes BY <2>4 DEF Closes, BackendNext
  <2>5. CASE QuitsToInstall BY <2>5 DEF QuitsToInstall, BackendNext
  <2>6. CASE Installs BY <2>6 DEF Installs, BackendNext
  <2>7. CASE GivesUp BY <2>7 DEF GivesUp
  <2>8. CASE UNCHANGED vars BY <2>8 DEF vars
  <2> QED BY <2>1, <2>2, <2>3, <2>4, <2>5, <2>6, <2>7, <2>8 DEF Next
<1> QED BY <1>1, <1>2, PTL DEF Spec, BackendSpec

(* The application, whatever it does to its backend, leaves a whole        *)
(* version of every entry.                                                 *)
THEOREM DesktopRecoverable == Spec => []PayloadRecoverable
  BY BackendUnharmed, Recoverable, PTL

(* The application updates its backend as a whole or not at all.           *)
THEOREM DesktopAtomic == Spec => []AllOrNothing
  BY BackendUnharmed, Atomic, PTL

(* The application runs one backend update at a time, and the lock says so.*)
THEOREM DesktopLockIsTrue == Spec => []LockGuardsSwap
  BY BackendUnharmed, LockIsTrue, PTL

(* The application asks the new backend before it discards the old one.    *)
THEOREM DesktopRunsBeforeDiscard == Spec => RanBeforeDiscard
  BY BackendUnharmed, RunsBeforeDiscard, PTL

-----------------------------------------------------------------------------
(* The update of the application.  InstallIsPrepared is not inductive: it  *)
(* needs that an armed timer finds the marker written (Armed), and that    *)
(* while a single click is in flight the machine stands still at the state *)
(* that click has reached, so that no other event can lift the flag or     *)
(* void the backup under it (Calm).                                        *)
Calm == ~tangled =>
    /\ asking => phase = "checking"
    /\ fetching => phase = "downloading"
    /\ \A c \in Clicks : clicks[c] = "backup" =>
          phase \in {"ready", "downloaded"} /\ maintenance
    /\ \A c \in Clicks : clicks[c] = "armed" =>
          phase = "installing" /\ maintenance /\ (BackupRequired => backedUp)
    /\ \A c, d \in InFlight : c = d

Armed == \A c \in Clicks : clicks[c] = "armed" => marker

Quiet == app # "running" \/ verifying => InFlight = {} /\ ~asking /\ ~fetching

AInv == AppTypeOK /\ Calm /\ Armed /\ Quiet /\ InstallIsPrepared /\ MaintenanceExplained

Phases == {"idle", "checking", "none", "available", "downloading", "downloaded", "ready",
           "installing", "stopping", "starting", "health", "completed", "failed"}

\* the part of the transition table the argument needs
LEMMA Table ==
    ASSUME AppTypeOK
    PROVE  /\ DOMAIN Transitions = Phases
           /\ phase \in Phases
           /\ Can("checking") => phase \in {"idle", "none", "checking", "completed", "failed"}
           /\ Can("available") <=> phase \in {"checking", "available"}
           /\ Can("downloading") => phase \in {"available", "downloading"}
           /\ Can("downloaded") <=> phase \in {"downloading", "downloaded"}
           /\ Can("installing") <=> phase \in {"ready", "installing"}
           /\ Fail \in Phases
<1>1. DOMAIN Transitions = Phases BY DEF Transitions, Phases
<1>2. phase \in Phases BY <1>1 DEF AppTypeOK
<1>3. Fail \in Phases BY <1>2 DEF Fail, Phases
<1> QED BY <1>1, <1>2, <1>3 DEF Can, Transitions, Phases

LEMMA AppInitHolds == AppInit => AInv
<1> SUFFICES ASSUME AppInit PROVE AInv
  OBVIOUS
<1>1. "idle" \in DOMAIN Transitions BY DEF Transitions
<1>2. InFlight = {} BY DEF AppInit, InFlight, NoClicks
<1>3. AppTypeOK
  <2>1. clicks \in [Clicks -> {"none", "backup", "armed"}]
    BY DEF AppInit, NoClicks
  <2>2. checks \in 0 .. MaxChecks BY AppAssumption DEF AppInit
  <2> QED BY <1>1, <2>1, <2>2 DEF AppInit, AppTypeOK
<1>4. Calm /\ Armed /\ Quiet BY <1>2 DEF AppInit, Calm, Armed, Quiet, NoClicks
<1>5. InstallIsPrepared /\ MaintenanceExplained
  BY DEF AppInit, InstallIsPrepared, MaintenanceExplained
<1> QED BY <1>3, <1>4, <1>5 DEF AInv

(* Checks and downloads: no click is touched.                              *)
LEMMA FetchingKeeps ==
    ASSUME AInv, \/ Check \/ UpdateAvailable \/ UpdateNotAvailable \/ UpdaterError
                 \/ Download \/ UpdateDownloaded
    PROVE  AInv'
<1> USE AppAssumption DEF AInv
<1>1. /\ Ready /\ UNCHANGED <<app, clicks, marker, maintenance, verifying, tangled>>
      /\ InFlight' = InFlight
  BY DEF Check, UpdateAvailable, UpdateNotAvailable, UpdaterError, Download,
         UpdateDownloaded, InFlight
<1>2. /\ Armed' /\ Quiet' /\ InstallIsPrepared' /\ MaintenanceExplained'
  BY <1>1 DEF Armed, Quiet, InstallIsPrepared, MaintenanceExplained, Ready
<1>3. CASE Check
  <2>1. AppTypeOK' BY <1>1, <1>3, Table DEF Check, AppTypeOK, Phases
  <2>2. Calm' BY <1>1, <1>3, Table DEF Check, Calm, AppTypeOK
  <2> QED BY <1>2, <2>1, <2>2
<1>4. CASE UpdateAvailable
  <2>1. AppTypeOK' BY <1>1, <1>4, Table DEF UpdateAvailable, AppTypeOK, Phases
  <2>2. Calm' BY <1>1, <1>4, Table DEF UpdateAvailable, Calm, AppTypeOK
  <2> QED BY <1>2, <2>1, <2>2
<1>5. CASE UpdateNotAvailable
  <2>1. AppTypeOK' BY <1>1, <1>5, Table DEF UpdateNotAvailable, AppTypeOK, Phases
  <2>2. Calm' BY <1>1, <1>5, Table DEF UpdateNotAvailable, Calm, AppTypeOK
  <2> QED BY <1>2, <2>1, <2>2
<1>6. CASE UpdaterError
  <2>1. AppTypeOK' BY <1>1, <1>6, Table DEF UpdaterError, AppTypeOK, Phases
  <2>2. Calm' BY <1>1, <1>6, Table DEF UpdaterError, Calm, AppTypeOK
  <2> QED BY <1>2, <2>1, <2>2
<1>7. CASE Download
  <2>1. AppTypeOK' BY <1>1, <1>7, Table DEF Download, AppTypeOK, Phases
  <2>2. Calm' BY <1>1, <1>7, Table DEF Download, Calm, AppTypeOK
  <2> QED BY <1>2, <2>1, <2>2
<1>8. CASE UpdateDownloaded
  <2>1. AppTypeOK' BY <1>1, <1>8, Table DEF UpdateDownloaded, AppTypeOK, Phases
  <2>2. Calm' BY <1>1, <1>8, Table DEF UpdateDownloaded, Calm, AppTypeOK
  <2> QED BY <1>2, <2>1, <2>2
<1> QED BY <1>3, <1>4, <1>5, <1>6, <1>7, <1>8

(* A click that goes on, without or after its backup.                      *)
LEMMA ArmingKeeps ==
    ASSUME AInv, NEW c \in Clicks, Ready, Arm(c),
           maintenance' \in BOOLEAN, maintenance' \/ tangled',
           UNCHANGED <<app, asking, fetching, verifying, checks>>,
           backedUp' \in BOOLEAN, tangled' \in BOOLEAN,
           BackupRequired => backedUp',
           ~tangled' => ~tangled /\ InFlight \subseteq {c}
    PROVE  AInv'
<1> USE AppAssumption DEF AInv
<1> DEFINE x == IF Can("installing") THEN "armed" ELSE "none"
<1>1. /\ marker' = TRUE
      /\ phase' = IF Can("installing") THEN "installing" ELSE phase
      /\ clicks' = [clicks EXCEPT ![c] = x]
  BY DEF Arm
<1>2. /\ clicks' \in [Clicks -> {"none", "backup", "armed"}]
      /\ clicks'[c] = x
      /\ \A d \in Clicks \ {c} : clicks'[d] = clicks[d]
  BY <1>1 DEF AppTypeOK
<1>3. AppTypeOK'
  <2>1. phase' \in DOMAIN Transitions BY <1>1, Table DEF Phases
  <2>2. marker' \in BOOLEAN /\ maintenance' \in BOOLEAN BY <1>1
  <2> QED BY <1>2, <2>1, <2>2 DEF AppTypeOK
<1>4. ~tangled' => \A d \in Clicks \ {c} : clicks'[d] = "none"
  BY <1>2 DEF InFlight
<1>5. Calm'
  <2> SUFFICES ASSUME ~tangled' PROVE Calm'
    BY DEF Calm
  <2>1. asking' => phase' = "checking" BY <1>1, Table DEF Calm
  <2>2. fetching' => phase' = "downloading" BY <1>1, Table DEF Calm
  <2>3. \A d \in Clicks : clicks'[d] # "backup" BY <1>2, <1>4
  <2>4. \A d \in Clicks : clicks'[d] = "armed" =>
           phase' = "installing" /\ maintenance' /\ (BackupRequired => backedUp')
    BY <1>1, <1>2, <1>4
  <2>5. \A d, w \in InFlight' : d = w BY <1>4 DEF InFlight
  <2> QED BY <2>1, <2>2, <2>3, <2>4, <2>5 DEF Calm
<1>6. Armed' BY <1>1 DEF Armed
<1>7. Quiet' BY DEF Quiet, Ready
<1>8. InstallIsPrepared' /\ MaintenanceExplained'
  BY <1>1 DEF InstallIsPrepared, MaintenanceExplained, Ready
<1> QED BY <1>3, <1>5, <1>6, <1>7, <1>8

LEMMA InstallKeeps ==
    ASSUME AInv, NEW c \in Clicks, Install(c)
    PROVE  AInv'
<1> USE AppAssumption DEF AInv
<1>1. /\ Ready /\ clicks[c] = "none" /\ phase \in {"ready", "downloaded"}
      /\ maintenance' = TRUE /\ tangled' = (tangled \/ InFlight # {})
      /\ UNCHANGED <<app, asking, fetching, verifying, checks, backedUp>>
  BY DEF Install
<1>2. ~tangled' => ~tangled /\ InFlight = {} BY <1>1 DEF AppTypeOK
<1>3. CASE ~BackupRequired
  <2>1. Arm(c) BY <1>3 DEF Install
  <2>2. backedUp' \in BOOLEAN /\ tangled' \in BOOLEAN /\ maintenance' \in BOOLEAN
    BY <1>1 DEF AppTypeOK
  <2> QED BY <1>1, <1>2, <1>3, <2>1, <2>2, ArmingKeeps
<1>4. CASE BackupRequired
  <2>1. clicks' = [clicks EXCEPT ![c] = "backup"] /\ UNCHANGED <<marker, phase>>
    BY <1>4 DEF Install
  <2>2. /\ clicks' \in [Clicks -> {"none", "backup", "armed"}]
        /\ clicks'[c] = "backup"
        /\ \A d \in Clicks \ {c} : clicks'[d] = clicks[d]
    BY <2>1 DEF AppTypeOK
  <2>3. AppTypeOK' BY <1>1, <2>1, <2>2 DEF AppTypeOK
  <2>4. ~tangled' => \A d \in Clicks \ {c} : clicks'[d] = "none"
    BY <1>2, <2>2 DEF InFlight
  <2>5. Calm'
    <3>1. ~tangled' => \A d, w \in InFlight' : d = w BY <2>4 DEF InFlight
    <3> QED BY <1>1, <1>2, <2>1, <2>2, <2>4, <3>1 DEF Calm
  <2>6. Armed' BY <2>1, <2>2 DEF Armed
  <2>7. Quiet' BY <1>1 DEF Quiet, Ready
  <2>8. c \in InFlight' BY <2>2 DEF InFlight
  <2>9. InstallIsPrepared' /\ MaintenanceExplained'
    BY <1>1, <2>8 DEF InstallIsPrepared, MaintenanceExplained, Ready
  <2> QED BY <2>3, <2>5, <2>6, <2>7, <2>9
<1> QED BY <1>3, <1>4

LEMMA BackupValidatedKeeps ==
    ASSUME AInv, NEW c \in Clicks, BackupValidated(c)
    PROVE  AInv'
<1>1. /\ Ready /\ clicks[c] = "backup" /\ backedUp' = TRUE /\ Arm(c)
      /\ UNCHANGED <<app, asking, fetching, maintenance, verifying, checks, tangled>>
  BY DEF BackupValidated
<1>2. c \in InFlight BY <1>1 DEF InFlight
<1>3. ~tangled => InFlight \subseteq {c} /\ maintenance
  BY <1>1, <1>2 DEF AInv, Calm
<1>4. maintenance' \in BOOLEAN /\ tangled' \in BOOLEAN /\ backedUp' \in BOOLEAN
  BY <1>1 DEF AInv, AppTypeOK
<1> QED BY <1>1, <1>3, <1>4, ArmingKeeps

(* A click whose backup or whose quit fails.                               *)
LEMMA FailingKeeps ==
    ASSUME AInv, NEW c \in Clicks, BackupFails(c) \/ QuitFails(c)
    PROVE  AInv'
<1> USE AppAssumption DEF AInv
<1>1. /\ Ready /\ clicks[c] \in {"backup", "armed"}
      /\ maintenance' = FALSE /\ phase' = Fail
      /\ clicks' = [clicks EXCEPT ![c] = "none"]
      /\ UNCHANGED <<app, asking, fetching, marker, verifying, checks, backedUp, tangled>>
  BY DEF BackupFails, QuitFails
<1>2. /\ clicks' \in [Clicks -> {"none", "backup", "armed"}]
      /\ clicks'[c] = "none"
      /\ \A d \in Clicks \ {c} : clicks'[d] = clicks[d]
  BY <1>1 DEF AppTypeOK
<1>3. AppTypeOK'
  <2>1. phase' \in DOMAIN Transitions BY <1>1, Table
  <2> QED BY <1>1, <1>2, <2>1 DEF AppTypeOK
<1>4. c \in InFlight BY <1>1 DEF InFlight
<1>5. ~tangled => InFlight = {c} /\ ~asking /\ ~fetching
  BY <1>1, <1>4 DEF Calm
<1>6. Calm'
  <2>1. ~tangled => \A d \in Clicks : clicks'[d] = "none"
    BY <1>2, <1>5 DEF InFlight, AppTypeOK
  <2>2. ~tangled => InFlight' = {} BY <2>1 DEF InFlight
  <2> QED BY <1>1, <1>5, <2>1, <2>2 DEF Calm
<1>7. Armed' BY <1>1, <1>2 DEF Armed
<1>8. Quiet' BY <1>1 DEF Quiet, Ready
<1>9. InstallIsPrepared' /\ MaintenanceExplained'
  BY <1>1 DEF InstallIsPrepared, MaintenanceExplained, Ready
<1> QED BY <1>3, <1>6, <1>7, <1>8, <1>9

LEMMA QuitKeeps ==
    ASSUME AInv, NEW c \in Clicks, QuitAndInstall(c)
    PROVE  AInv'
<1> USE AppAssumption DEF AInv
<1>1. /\ Ready /\ clicks[c] = "armed" /\ app' = "installing" /\ phase' = "idle"
      /\ ~asking' /\ ~fetching' /\ clicks' = NoClicks
      /\ asking' \in BOOLEAN /\ fetching' \in BOOLEAN
      /\ UNCHANGED <<marker, maintenance, verifying, checks, backedUp, tangled>>
  BY DEF QuitAndInstall
<1>2. InFlight' = {} /\ \A d \in Clicks : clicks'[d] = "none"
  BY <1>1 DEF InFlight, NoClicks
<1>3. clicks' \in [Clicks -> {"none", "backup", "armed"}]
  BY <1>1 DEF NoClicks
<1>4. phase' \in DOMAIN Transitions BY <1>1, Table DEF Phases
<1>5. AppTypeOK' BY <1>1, <1>3, <1>4 DEF AppTypeOK
<1>6. Calm' /\ Armed' /\ Quiet' BY <1>1, <1>2 DEF Calm, Armed, Quiet
<1>7. marker /\ (~tangled => maintenance /\ (BackupRequired => backedUp))
  BY <1>1 DEF Calm, Armed
<1>8. InstallIsPrepared' /\ MaintenanceExplained'
  BY <1>1, <1>7 DEF InstallIsPrepared, MaintenanceExplained
<1> QED BY <1>5, <1>6, <1>8

LEMMA CloseKeeps ==
    ASSUME AInv, Close
    PROVE  AInv'
<1> USE AppAssumption DEF AInv
<1>1. /\ app' = "gone" /\ phase' = "idle"
      /\ ~asking' /\ ~fetching' /\ ~verifying' /\ clicks' = NoClicks
      /\ asking' \in BOOLEAN /\ fetching' \in BOOLEAN /\ verifying' \in BOOLEAN
      /\ tangled' = (tangled \/ InFlight # {})
      /\ UNCHANGED <<marker, maintenance, checks, backedUp>>
  BY DEF Close
<1>2. InFlight' = {} /\ \A d \in Clicks : clicks'[d] = "none"
  BY <1>1 DEF InFlight, NoClicks
<1>3. clicks' \in [Clicks -> {"none", "backup", "armed"}]
  BY <1>1 DEF NoClicks
<1>4. phase' \in DOMAIN Transitions BY <1>1, Table DEF Phases
<1>5. tangled' \in BOOLEAN BY <1>1
<1>6. AppTypeOK' BY <1>1, <1>3, <1>4, <1>5 DEF AppTypeOK
<1>7. Calm' /\ Armed' /\ Quiet' BY <1>1, <1>2 DEF Calm, Armed, Quiet
<1>8. InstallIsPrepared' /\ MaintenanceExplained'
  BY <1>1 DEF InstallIsPrepared, MaintenanceExplained
<1> QED BY <1>6, <1>7, <1>8

(* The installer, the launch and the verification.                         *)
LEMMA RestartKeeps ==
    ASSUME AInv, InstallerEnds \/ Launch \/ Verify
    PROVE  AInv'
<1> USE AppAssumption DEF AInv
<1>1. /\ UNCHANGED <<asking, fetching, clicks, checks, tangled>>
      /\ InFlight' = InFlight
      /\ app' \in {"gone", "running"}
  BY DEF InstallerEnds, Launch, Verify, InFlight
<1>2. InFlight = {} /\ ~asking /\ ~fetching
  BY DEF Quiet, InstallerEnds, Launch, Verify
<1>3. \A d \in Clicks : clicks[d] = "none" BY <1>2 DEF InFlight
<1>4. Calm' /\ Armed' /\ Quiet' /\ InstallIsPrepared'
  BY <1>1, <1>2, <1>3 DEF Calm, Armed, Quiet, InstallIsPrepared
<1>5. CASE InstallerEnds
  BY <1>4, <1>5 DEF InstallerEnds, AppTypeOK, MaintenanceExplained, InFlight
<1>6. CASE Launch
  BY <1>4, <1>6 DEF Launch, AppTypeOK, MaintenanceExplained, InFlight
<1>7. CASE Verify
  <2>1. phase' \in DOMAIN Transitions
    BY <1>7, Table DEF Verify, Phases
  <2>2. /\ marker' \in BOOLEAN /\ maintenance' \in BOOLEAN
        /\ maintenance' => maintenance /\ (marker => marker')
    BY <1>7 DEF Verify, AppTypeOK
  <2>3. AppTypeOK' BY <1>1, <1>7, <2>1, <2>2 DEF AppTypeOK, Verify
  <2>4. MaintenanceExplained' BY <1>1, <1>2, <2>2 DEF MaintenanceExplained
  <2> QED BY <1>4, <2>3, <2>4
<1> QED BY <1>5, <1>6, <1>7

LEMMA AppStepKeeps == AInv /\ [Next]_vars => AInv'
<1> SUFFICES ASSUME AInv, [Next]_vars PROVE AInv'
  OBVIOUS
<1>1. CASE AppStep
  <2>1. CASE \/ Check \/ UpdateAvailable \/ UpdateNotAvailable \/ UpdaterError
             \/ Download \/ UpdateDownloaded
    BY <2>1, FetchingKeeps
  <2>2. ASSUME NEW c \in Clicks,
               Install(c) \/ BackupValidated(c) \/ BackupFails(c) \/ QuitFails(c)
        PROVE  AInv'
    BY <2>2, InstallKeeps, BackupValidatedKeeps, FailingKeeps
  <2>3. CASE Launch \/ Verify BY <2>3, RestartKeeps
  <2> QED BY <1>1, <2>1, <2>2, <2>3 DEF AppStep
<1>2. ASSUME NEW c \in Clicks, QuitAndInstall(c) PROVE AInv' BY <1>2, QuitKeeps
<1>3. CASE Close BY <1>3, CloseKeeps
<1>4. CASE InstallerEnds BY <1>4, RestartKeeps
<1>5. CASE UNCHANGED appVars
  BY <1>5 DEF appVars, AInv, AppTypeOK, Calm, Armed, Quiet, InFlight,
              InstallIsPrepared, MaintenanceExplained
<1> QED BY <1>1, <1>2, <1>3, <1>4, <1>5
    DEF Next, AppRuns, BackendRuns, ServiceChanges, Closes, QuitsToInstall,
        Installs, GivesUp, vars

LEMMA AppInvariant == Spec => []AInv
<1>1. Init => AInv BY AppInitHolds DEF Init
<1>2. AInv /\ [Next]_vars => AInv' BY AppStepKeeps
<1> QED BY <1>1, <1>2, PTL DEF Spec

(* The installer only runs with its marker written and, unless two clicks  *)
(* were in flight, under the maintenance flag and after the backup.        *)
THEOREM Prepared == Spec => []InstallIsPrepared
<1>1. AInv => InstallIsPrepared BY DEF AInv
<1> QED BY <1>1, AppInvariant, PTL

(* A raised maintenance flag belongs to an install under way, or to one    *)
(* the next launch hears of.                                               *)
THEOREM FlagIsExplained == Spec => []MaintenanceExplained
<1>1. AInv => MaintenanceExplained BY DEF AInv
<1> QED BY <1>1, AppInvariant, PTL

(* Both halves keep their types, and no update is under way in a closed    *)
(* application.                                                            *)
THEOREM TypeCorrect == Spec => []TypeOK
<1> DEFINE Closed == app # "running" => Active = {}
<1>1. Init => Closed BY DEF Init, AppInit
<1>2. IInv /\ Closed /\ [Next]_vars => Closed'
  <2> SUFFICES ASSUME IInv, Closed, [Next]_vars PROVE Closed'
    OBVIOUS
  <2>1. CASE AppRuns
    <3>1. Active' = Active BY <2>1 DEF AppRuns, backendVars, Active
    <3>2. app' = app \/ app' = "running"
      BY <2>1 DEF AppRuns, AppStep, Check, UpdateAvailable, UpdateNotAvailable,
         UpdaterError, Download, UpdateDownloaded, Install, BackupValidated,
         BackupFails, QuitFails, Launch, Verify
    <3> QED BY <3>1, <3>2
  <2>2. CASE BackendRuns BY <2>2 DEF BackendRuns, appVars
  <2>3. CASE ServiceChanges
    <3>1. \A u \in Updates : updates'[u].at = updates[u].at
      BY <2>3 DEF ServiceChanges, ServiceMoves, IInv, BackendTypeOK, Records
    <3> QED BY <2>3, <3>1 DEF ServiceChanges, appVars, Active
  <2>4. CASE Closes \/ QuitsToInstall
    <3>1. \A u \in Updates : updates'[u].at \notin Stages
      BY <2>4, EndedIs DEF Closes, QuitsToInstall, Die, Active, Stages, SyncStages,
         AwaitStages
    <3> QED BY <3>1 DEF Active
  <2>5. CASE Installs
    <3>1. Active' = Active BY <2>5 DEF Installs, Replaced, Active
    <3>2. app # "running" BY <2>5 DEF Installs, InstallerEnds
    <3> QED BY <3>1, <3>2
  <2>6. CASE GivesUp BY <2>6 DEF GivesUp, InstallerEnds, backendVars, Active
  <2>7. CASE UNCHANGED vars BY <2>7 DEF vars, backendVars, appVars, Active
  <2> QED BY <2>1, <2>2, <2>3, <2>4, <2>5, <2>6, <2>7 DEF Next
<1>3. Spec => []IInv BY BackendUnharmed, BackendInvariant, PTL
<1>4. Spec => []Closed
  <2> HIDE DEF Closed
  <2> QED BY <1>1, <1>2, <1>3, PTL DEF Spec
<1>5. IInv /\ AInv /\ Closed => TypeOK BY DEF IInv, AInv, TypeOK
<1> QED
  <2> HIDE DEF Closed
  <2> QED BY <1>3, <1>4, <1>5, AppInvariant, PTL

(* The lock file and the maintenance flag say the truth, with both halves  *)
(* at work at once.                                                        *)
THEOREM MarksHold == Spec => []MarksAreTrue
<1>1. TypeOK /\ LockGuardsSwap /\ MaintenanceExplained => MarksAreTrue BY DEF MarksAreTrue
<1> QED BY <1>1, TypeCorrect, DesktopLockIsTrue, FlagIsExplained, PTL
=============================================================================
