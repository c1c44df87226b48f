------------------------------- MODULE Desktop -------------------------------
(***************************************************************************)
(* The desktop application: one process in which the update of the backend *)
(* files and the update of the application run side by side, over one      *)
(* backend directory.  The backend update lives and dies with the process; *)
(* quitting into the installer ends it half way, and the installer then    *)
(* replaces the payload it was swapping.  The service outlives them both.  *)
(***************************************************************************)
EXTENDS BackendUpdate, AppUpdate

vars == <<backendVars, appVars>>

Init == BackendInit /\ AppInit

\* a handler other than the synchronous section under way has to wait for it
AppRuns == thread = Nobody /\ AppStep /\ UNCHANGED backendVars

BackendRuns == app = "running" /\ ~verifying /\ BackendStep /\ UNCHANGED appVars

ServiceChanges == ServiceMoves /\ UNCHANGED appVars

\* the process ends between any two steps, in the middle of a swap as well
Closes == Close /\ Die

QuitsToInstall == thread = Nobody /\ (\E c \in Clicks : QuitAndInstall(c)) /\ Die

Installs == InstallerEnds /\ \E r \in Releases : Replaced(r)
GivesUp  == InstallerEnds /\ UNCHANGED backendVars

Next ==
    \/ AppRuns
    \/ BackendRuns
    \/ ServiceChanges
    \/ Closes
    \/ QuitsToInstall
    \/ Installs
    \/ GivesUp

Fairness ==
    /\ \A u \in Updates : WF_vars(app = "running" /\ ~verifying /\ UpdateStep(u)
                                  /\ UNCHANGED appVars)
    /\ WF_vars(thread = Nobody /\ Launch /\ UNCHANGED backendVars)
    /\ WF_vars(thread = Nobody /\ Verify /\ UNCHANGED backendVars)

Spec == Init /\ [][Next]_vars /\ Fairness

(* The types of both halves, and that a closed application leaves no       *)
(* update under way.                                                       *)
TypeOK ==
    /\ BackendTypeOK
    /\ AppTypeOK
    /\ app # "running" => Active = {}

\* What one program leaves on disk for another to act on is true: a lock is
\* held exactly while an update runs, a raised maintenance flag belongs to an
\* install under way or to one the next launch will hear of.
MarksAreTrue == TypeOK /\ LockGuardsSwap /\ MaintenanceExplained
=============================================================================
