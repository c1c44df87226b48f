------------------------------ MODULE AppUpdate ------------------------------
(***************************************************************************)
(* The update of the application itself (updater/updater.main.js with the  *)
(* state machine of updater.state.js, services/maintenance-mode.js and     *)
(* services/pre-update-backup.js), under UPDATER_V2=1.  electron-updater   *)
(* and the installer are external: they answer a check, a download and a   *)
(* quitAndInstall with an event, an error or a new process.                *)
(*                                                                         *)
(* A click on "install" raises the maintenance flag, may await a backup,   *)
(* writes the install marker and arms a timer of 250 ms that quits into    *)
(* the installer.  The machine stays at READY_TO_INSTALL during the backup,*)
(* so a second click starts a second install.                              *)
(***************************************************************************)
EXTENDS Naturals

CONSTANTS
    Clicks,         \* clicks on "install" that may be in flight at once
    BackupRequired, \* server mode with UPDATER_REQUIRE_BACKUP=1
    BackupProduced, \* a producer of backup files was given (main.js gives none)
    ServerMode,     \* the application manages a local service
    MaxChecks       \* bound on the checks for an update

ASSUME AppAssumption ==
    /\ {BackupRequired, BackupProduced, ServerMode} \subseteq BOOLEAN
    /\ BackupRequired => ServerMode
    /\ MaxChecks \in Nat

VARIABLES
    app,            \* running, gone, installing (quit into the installer)
    phase,          \* state of the UpdaterStateMachine
    asking,         \* a check of electron-updater is under way
    fetching,       \* a download is under way
    clicks,         \* per click: none, backup, armed
    marker,         \* updater-installing.json exists
    maintenance,    \* maintenance.json exists
    verifying,      \* runPostUpdateVerification has not run yet
    checks,         \* number of checks so far
    backedUp,       \* a backup was validated since the last download
    tangled         \* two clicks were in flight, or one died with the process

appVars == <<app, phase, asking, fetching, clicks, marker, maintenance,
             verifying, checks, backedUp, tangled>>

-----------------------------------------------------------------------------
Transitions ==
    [idle       |-> {"checking"},
     checking   |-> {"available", "none", "failed"},
     none       |-> {"idle", "checking"},
     available  |-> {"downloading", "idle", "failed"},
     downloading|-> {"downloaded", "failed"},
     downloaded |-> {"ready", "failed"},
     ready      |-> {"installing", "idle", "failed"},
     installing |-> {"stopping", "failed"},
     stopping   |-> {"starting", "failed"},
     starting   |-> {"health", "failed"},
     health     |-> {"completed", "failed"},
     completed  |-> {"idle", "checking"},
     failed     |-> {"idle", "checking"}]

\* transition: the same state again, or one the table allows; anything else
\* throws
Can(next) == next = phase \/ next \in Transitions[phase]

\* fail: FAILED when the table allows it, else only the message changes
Fail == IF Can("failed") THEN "failed" ELSE phase

InFlight == {c \in Clicks : clicks[c] # "none"}
NoClicks == [c \in Clicks |-> "none"]

AppInit ==
    /\ app = "running"
    /\ phase = "idle"
    /\ asking = FALSE
    /\ fetching = FALSE
    /\ clicks = NoClicks
    /\ marker = FALSE
    /\ maintenance = FALSE
    /\ verifying = FALSE
    /\ checks = 0
    /\ backedUp = FALSE
    /\ tangled = FALSE

\* initUpdaterV2 runs the verification's synchronous part before anything else
Ready == app = "running" /\ ~verifying

-----------------------------------------------------------------------------
(* Check, 45 seconds after launch or when asked; a check out of turn is    *)
(* ignored.                                                                *)
Check ==
    /\ Ready
    /\ Can("checking")
    /\ checks < MaxChecks
    /\ checks' = checks + 1
    /\ phase' = "checking"
    /\ asking' = TRUE
    /\ UNCHANGED <<app, fetching, clicks, marker, maintenance, verifying,
                   backedUp, tangled>>

\* update-available; a transition that throws rejects the check, which fails
UpdateAvailable ==
    /\ Ready /\ asking
    /\ asking' = FALSE
    /\ phase' = IF Can("available") THEN "available" ELSE Fail
    /\ UNCHANGED <<app, fetching, clicks, marker, maintenance, verifying,
                   checks, backedUp, tangled>>

\* update-not-available goes through its own state back to idle
UpdateNotAvailable ==
    /\ Ready /\ asking
    /\ asking' = FALSE
    /\ phase' = IF phase = "checking" THEN "idle" ELSE phase
    /\ UNCHANGED <<app, fetching, clicks, marker, maintenance, verifying,
                   checks, backedUp, tangled>>

\* the error event, or a rejected check or download
UpdaterError ==
    /\ Ready /\ (asking \/ fetching)
    /\ asking' = FALSE
    /\ fetching' = FALSE
    /\ phase' = Fail
    /\ UNCHANGED <<app, clicks, marker, maintenance, verifying, checks,
                   backedUp, tangled>>

\* download admits FAILED as well, where its transition then throws
Download ==
    /\ Ready
    /\ phase \in {"available", "failed"}
    /\ Can("downloading")
    /\ phase' = "downloading"
    /\ fetching' = TRUE
    /\ UNCHANGED <<app, asking, clicks, marker, maintenance, verifying,
                   checks, backedUp, tangled>>

\* update-downloaded: DOWNLOADED, then READY_TO_INSTALL in the same handler
UpdateDownloaded ==
    /\ Ready /\ fetching
    /\ fetching' = FALSE
    /\ phase' = IF Can("downloaded") THEN "ready" ELSE Fail
    /\ backedUp' = FALSE
    /\ UNCHANGED <<app, asking, clicks, marker, maintenance, verifying,
                   checks, tangled>>

-----------------------------------------------------------------------------
(* install.                                                                *)

\* After the backup, or at once when none is required: the marker, then the
\* transition; where that throws the timer is never armed.
Arm(c) ==
    /\ marker' = TRUE
    /\ phase' = IF Can("installing") THEN "installing" ELSE phase
    /\ clicks' = [clicks EXCEPT ![c] = IF Can("installing") THEN "armed" ELSE "none"]

Install(c) ==
    /\ Ready
    /\ clicks[c] = "none"
    /\ phase \in {"ready", "downloaded"}
    /\ maintenance' = TRUE
    /\ tangled' = (tangled \/ InFlight # {})
    /\ IF BackupRequired
       THEN clicks' = [clicks EXCEPT ![c] = "backup"] /\ UNCHANGED <<marker, phase>>
       ELSE Arm(c)
    /\ UNCHANGED <<app, asking, fetching, verifying, checks, backedUp>>

BackupValidated(c) ==
    /\ Ready /\ clicks[c] = "backup"
    /\ BackupProduced
    /\ backedUp' = TRUE
    /\ Arm(c)
    /\ UNCHANGED <<app, asking, fetching, maintenance, verifying, checks, tangled>>

\* mutant: the install goes on after a backup that failed
BackupIgnored(c) ==
    /\ Ready /\ clicks[c] = "backup"
    /\ Arm(c)
    /\ UNCHANGED <<app, asking, fetching, maintenance, verifying, checks, backedUp, tangled>>

BackupFails(c) ==
    /\ Ready /\ clicks[c] = "backup"
    /\ maintenance' = FALSE
    /\ phase' = Fail
    /\ clicks' = [clicks EXCEPT ![c] = "none"]
    /\ UNCHANGED <<app, asking, fetching, marker, verifying, checks, backedUp, tangled>>

\* quitAndInstall: the process ends and the installer runs
QuitAndInstall(c) ==
    /\ Ready /\ clicks[c] = "armed"
    /\ app' = "installing"
    /\ phase' = "idle"
    /\ asking' = FALSE /\ fetching' = FALSE
    /\ clicks' = NoClicks
    /\ UNCHANGED <<marker, maintenance, verifying, checks, backedUp, tangled>>

QuitFails(c) ==
    /\ Ready /\ clicks[c] = "armed"
    /\ maintenance' = FALSE
    /\ phase' = Fail
    /\ clicks' = [clicks EXCEPT ![c] = "none"]
    /\ UNCHANGED <<app, asking, fetching, marker, verifying, checks, backedUp, tangled>>

-----------------------------------------------------------------------------
(* The process.                                                            *)

\* the application is closed, or crashes
Close ==
    /\ app = "running"
    /\ app' = "gone"
    /\ phase' = "idle"
    /\ asking' = FALSE /\ fetching' = FALSE /\ verifying' = FALSE
    /\ clicks' = NoClicks
    /\ tangled' = (tangled \/ InFlight # {})
    /\ UNCHANGED <<marker, maintenance, checks, backedUp>>

\* the installer has done its work, or gave up
InstallerEnds ==
    /\ app = "installing"
    /\ app' = "gone"
    /\ UNCHANGED <<phase, asking, fetching, clicks, marker, maintenance,
                   verifying, checks, backedUp, tangled>>

Launch ==
    /\ app = "gone"
    /\ app' = "running"
    /\ verifying' = marker
    /\ backedUp' = FALSE
    /\ UNCHANGED <<phase, asking, fetching, clicks, marker, maintenance,
                   checks, tangled>>

(* runPostUpdateVerification on the machine of the new process, which is   *)
(* IDLE.  Its first transition throws where the table does not allow it,   *)
(* and nothing after it runs; otherwise service and health are awaited and *)
(* marker and flag are cleared whatever they say.                          *)
Verify ==
    /\ app = "running" /\ verifying
    /\ verifying' = FALSE
    /\ LET legal == Can(IF ServerMode THEN "starting" ELSE "health")
       IN /\ marker' = (marker /\ ~legal)
          /\ maintenance' = (maintenance /\ ~legal)
          /\ phase' \in (IF legal THEN {"completed", "failed"} ELSE {phase})
    /\ UNCHANGED <<app, asking, fetching, clicks, checks, backedUp, tangled>>

AppStep ==
    \/ Check
    \/ UpdateAvailable
    \/ UpdateNotAvailable
    \/ UpdaterError
    \/ Download
    \/ UpdateDownloaded
    \/ \E c \in Clicks : Install(c) \/ BackupValidated(c) \/ BackupFails(c)
    \/ \E c \in Clicks : QuitFails(c)
    \/ Launch
    \/ Verify

-----------------------------------------------------------------------------
(* Properties.                                                             *)

AppTypeOK ==
    /\ app \in {"running", "gone", "installing"}
    /\ phase \in DOMAIN Transitions
    /\ clicks \in [Clicks -> {"none", "backup", "armed"}]
    /\ asking \in BOOLEAN /\ fetching \in BOOLEAN
    /\ marker \in BOOLEAN /\ maintenance \in BOOLEAN /\ verifying \in BOOLEAN
    /\ backedUp \in BOOLEAN /\ tangled \in BOOLEAN
    /\ checks \in 0 .. MaxChecks

(* The installer runs only with the marker written, under the maintenance  *)
(* flag and, where a backup is required, after one made for this very      *)
(* download was validated.  Two installs at once break the last two: the   *)
(* backup of one fails and lifts the flag while the timer of the other is  *)
(* armed.  (updater.main.js, install.)                                     *)
InstallIsPrepared ==
    app = "installing" =>
        /\ marker
        /\ maintenance \/ tangled
        /\ BackupRequired => backedUp \/ tangled

(* The maintenance flag is never forgotten by a running application: it is *)
(* up only for an install under way, or for one the next launch will hear  *)
(* of by its marker.  (every way out of install.)                          *)
MaintenanceExplained ==
    maintenance => InFlight # {} \/ marker \/ tangled

(* After a relaunch with an install marker the update is verified: unless  *)
(* the process ends first the marker goes, whether the verification        *)
(* succeeds or fails.  (runPostUpdateVerification.)                        *)
VerificationEnds == verifying ~> (~marker \/ app # "running")
=============================================================================
