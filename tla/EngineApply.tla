---------------------------- MODULE EngineApply ----------------------------
(***************************************************************************)
(* engine.System.Apply: how one sing-box configuration replaces another.   *)
(*                                                                         *)
(* A candidate is written to a temporary file, checked, renamed over the   *)
(* live file, and sing-box is told to load it; every later failure rolls   *)
(* the file back and reloads again.  The calls are serialised by the node  *)
(* service's mutex, so one Apply runs at a time, but sing-box itself is a  *)
(* separate systemd unit that may die, be restarted by systemd, or handle  *)
(* a SIGHUP between any two steps, and J-UI itself may be killed.          *)
(*                                                                         *)
(* Simplifications:                                                        *)
(*  - a configuration is an opaque value; ListenersOf gives the sockets it *)
(*    asks for and Refused the ones "sing-box check" turns down;           *)
(*  - a running sing-box owns exactly the sockets of what it loaded; one   *)
(*    that cannot bind exits, which is the step Die;                       *)
(*  - a command may fail or time out at any call, whether or not it took   *)
(*    effect first; only the is-active probe that picks between reload and *)
(*    start is taken at its word.                                          *)
(***************************************************************************)
EXTENDS Naturals

CONSTANTS
    Configs,          \* configurations that Apply may be given
    Refused,          \* those that "sing-box check" rejects
    Sockets,          \* (network, host, port) triples
    ListenersOf,      \* Configs -> SUBSET Sockets
    None,             \* no file / no process
    Units,            \* "main", and "residential" for the per-node ones
    Crashes           \* may J-UI be killed in the middle of an Apply?

ASSUME ConfigAssumption ==
    /\ Refused \subseteq Configs
    /\ None \notin Configs
    /\ ListenersOf \in [Configs -> SUBSET Sockets]
    /\ Units \subseteq {"main", "residential"}
    /\ Crashes \in BOOLEAN

VARIABLES
    file,      \* contents of ConfigPath, None when it does not exist
    running,   \* configuration the sing-box process loaded, None when down
    unit,      \* systemd's view: "active", "restarting" (on-failure), "stopped"
    hup,       \* a SIGHUP was delivered and not yet handled
    pc,        \* where the current Apply is
    cand,      \* its candidate
    prev,      \* the file it read before committing
    result,    \* what the last Apply returned
    clean,     \* no Apply was cut short since the last one that reloaded
    of         \* which kind of unit this System is for

vars == <<file, running, unit, hup, pc, cand, prev, result, clean, of>>
unitVars == <<running, unit, hup>>
callVars == <<cand, prev, of>>

StartIfInactive == of = "residential"

Valid == Configs \ Refused
MaybeConfig == Configs \cup {None}

Results == {"none", "ok", "rejected", "unrepaired", "rolled_back", "rollback_failed"}

Steps == {"check", "compare", "restart", "verify_restart", "rename", "sync",
          "signal", "settle", "verify", "restore", "stop", "reload_previous",
          "verify_previous"}

\* The steps at which the live file has been replaced and the call has not
\* yet reported: what a kill of J-UI leaves unresolved.
Committed == {"sync", "signal", "settle", "verify", "restore", "stop",
              "reload_previous", "verify_previous"}

----------------------------------------------------------------------------
(* sing-box and systemd.                                                   *)

Healthy == unit = "active"

\* ListenersHealthy: every wanted socket is owned by the unit's main process.
Owns(sockets) == sockets = {} \/ (running # None /\ sockets \subseteq ListenersOf[running])

LaunchedUnchecked == "running"
Launched == IF file = None THEN "restarting" ELSE "active"

\* systemctl start or restart: a process is launched and reads the live file.
Launch ==
    /\ running' = file
    /\ unit' = Launched
    /\ hup' = FALSE

\* The process exits: a listener could not be bound, or it was killed.
Die ==
    /\ unit = "active"
    /\ running' = None
    /\ unit' = "restarting"
    /\ hup' = FALSE
    /\ UNCHANGED <<file, pc, callVars, result, clean>>

\* Restart=on-failure with RestartSec=2s.
AutoRestart ==
    /\ unit = "restarting"
    /\ file # None
    /\ Launch
    /\ UNCHANGED <<file, pc, callVars, result, clean>>

\* sing-box reads the live file again on SIGHUP; it keeps the instance it has
\* when the file cannot be loaded.
HandleHup ==
    /\ unit = "active"
    /\ hup
    /\ running' = IF file \in Valid THEN file ELSE running
    /\ hup' = FALSE
    /\ UNCHANGED <<file, unit, pc, callVars, result, clean>>

\* systemctl reload delivers the signal and returns before it is handled; it
\* fails on a unit that is not active.  A failure may follow the delivery.
ReloadLost == unit = "active" /\ UNCHANGED unitVars
ReloadOK == unit = "active" /\ hup' = TRUE /\ UNCHANGED <<running, unit>>
ReloadFails == (ReloadOK \/ UNCHANGED unitVars)

----------------------------------------------------------------------------
(* Apply.                                                                  *)

Return(r) == pc' = "idle" /\ result' = r
Goto(step) == pc' = step /\ UNCHANGED result

\* The candidate has been written to a temporary file next to ConfigPath.
Begin ==
    /\ pc = "idle"
    /\ \E c \in Configs : cand' = c
    /\ Goto("check")
    /\ UNCHANGED <<file, unitVars, prev, clean, of>>

\* "sing-box check" on the temporary file.
CheckIgnored == cand \in Configs
CheckPasses == cand \in Valid

\* The check, then the previous file is read.
Check ==
    /\ pc = "check"
    /\ \/ /\ CheckPasses
          /\ prev' = file
          /\ Goto(IF file = cand THEN "compare" ELSE "rename")
       \/ /\ Return("rejected")
          /\ UNCHANGED prev
    /\ UNCHANGED <<file, unitVars, cand, clean, of>>

\* The file already holds the candidate: nothing to do if the unit looks well.
Compare ==
    /\ pc = "compare"
    /\ \/ Healthy /\ Owns(ListenersOf[cand]) /\ Return("ok")
       \/ Goto("restart")
    /\ UNCHANGED <<file, unitVars, callVars, clean>>

Restart ==
    /\ pc = "restart"
    /\ \/ Launch /\ Goto("verify_restart")
       \/ (Launch \/ UNCHANGED unitVars) /\ Return("unrepaired")
    /\ UNCHANGED <<file, callVars, clean>>

\* The repair path has no rollback: there is no other file to go back to.
VerifyRestart ==
    /\ pc = "verify_restart"
    /\ \/ Healthy /\ Owns(ListenersOf[cand]) /\ Return("ok") /\ clean' = TRUE
       \/ Return("unrepaired") /\ UNCHANGED clean
    /\ UNCHANGED <<file, unitVars, callVars>>

Rename ==
    /\ pc = "rename"
    /\ \/ file' = cand /\ Goto("sync")
       \/ Return("rejected") /\ UNCHANGED file
    /\ UNCHANGED <<unitVars, callVars, clean>>

SyncDirectory ==
    /\ pc = "sync"
    /\ Goto("signal") \/ Goto("restore")
    /\ UNCHANGED <<file, unitVars, callVars, clean>>

\* reload, or start when a residential unit is not up yet.
Signal ==
    /\ pc = "signal"
    /\ IF StartIfInactive /\ ~Healthy
       THEN \/ Launch /\ Goto("settle")
            \/ (Launch \/ UNCHANGED unitVars) /\ Goto("restore")
       ELSE \/ ReloadOK /\ Goto("settle")
            \/ ReloadFails /\ Goto("restore")
    /\ UNCHANGED <<file, callVars, clean>>

Settle ==
    /\ pc = "settle"
    /\ Goto("verify") \/ Goto("restore")
    /\ UNCHANGED <<file, unitVars, callVars, clean>>

Verify ==
    /\ pc = "verify"
    /\ \/ Healthy /\ Owns(ListenersOf[cand]) /\ Return("ok") /\ clean' = TRUE
       \/ Goto("restore") /\ UNCHANGED clean
    /\ UNCHANGED <<file, unitVars, callVars>>

----------------------------------------------------------------------------
(* rollback, with its own deadline.                                        *)

\* What rollback writes back; a file that did not exist is removed.
RestoreNothing == file
Restored == prev

\* atomicWrite may fail before or after its rename; os.Remove may fail.
RestoreFile ==
    /\ pc = "restore"
    /\ \/ /\ file' = Restored
          /\ Goto(IF prev = None /\ StartIfInactive THEN "stop" ELSE "reload_previous")
          /\ UNCHANGED clean
       \/ /\ file' \in (IF prev = None THEN {file} ELSE {file, prev})
          /\ Return("rollback_failed")
          /\ clean' = FALSE
    /\ UNCHANGED <<unitVars, callVars>>

\* A unit that had no configuration is stopped; the outcome is not looked at.
StopUnit ==
    /\ pc = "stop"
    /\ \/ running' = None /\ unit' = "stopped" /\ hup' = FALSE
       \/ UNCHANGED unitVars
    /\ Return("rolled_back")
    /\ UNCHANGED <<file, callVars, clean>>

\* Reload the previous configuration, falling back to a restart.
NoRollbackSignal == UNCHANGED unitVars
RollbackSignal == ReloadOK \/ Launch

ReloadPrevious ==
    /\ pc = "reload_previous"
    /\ \/ RollbackSignal /\ Goto("verify_previous") /\ UNCHANGED clean
       \/ (ReloadFails \/ Launch) /\ Return("rollback_failed") /\ clean' = FALSE
    /\ UNCHANGED <<file, callVars>>

VerifyPrevious ==
    /\ pc = "verify_previous"
    /\ \/ /\ Healthy
          /\ Owns(IF prev = None THEN {} ELSE ListenersOf[prev])
          /\ Return("rolled_back")
          /\ clean' = TRUE
       \/ /\ Return("rollback_failed")
          /\ clean' = FALSE
    /\ UNCHANGED <<file, unitVars, callVars>>

\* J-UI is killed.  The temporary file is never read again.
Crash ==
    /\ Crashes
    /\ pc # "idle"
    /\ pc' = "idle"
    /\ result' = "none"
    /\ clean' = (clean /\ pc \notin Committed)
    /\ UNCHANGED <<file, unitVars, callVars>>

----------------------------------------------------------------------------

\* The installer leaves a checked file and a running main unit; a residential
\* unit has neither before its first Apply.
Init ==
    /\ of \in Units
    /\ IF StartIfInactive
       THEN file = None /\ running = None /\ unit = "stopped"
       ELSE file \in Valid /\ running = file /\ unit = "active"
    /\ hup = FALSE
    /\ pc = "idle"
    /\ cand = None
    /\ prev = None
    /\ result = "none"
    /\ clean = TRUE

ApplyStep ==
    \/ Check \/ Compare \/ Restart \/ VerifyRestart
    \/ Rename \/ SyncDirectory \/ Signal \/ Settle \/ Verify
    \/ RestoreFile \/ StopUnit \/ ReloadPrevious \/ VerifyPrevious

Systemd == Die \/ AutoRestart \/ HandleHup

Next == Begin \/ ApplyStep \/ Systemd \/ Crash

\* Every call of Apply returns (commands run under a deadline), and systemd
\* and sing-box act on what they were told.
Fairness == WF_vars(ApplyStep) /\ WF_vars(AutoRestart) /\ WF_vars(HandleHup)

Spec == Init /\ [][Next]_vars
FairSpec == Spec /\ Fairness

----------------------------------------------------------------------------

TypeOK ==
    /\ file \in MaybeConfig
    /\ running \in MaybeConfig
    /\ unit \in {"active", "restarting", "stopped"}
    /\ hup \in BOOLEAN
    /\ pc \in Steps \cup {"idle"}
    /\ cand \in MaybeConfig
    /\ prev \in MaybeConfig
    /\ result \in Results
    /\ clean \in BOOLEAN
    /\ of \in Units

\* Only a configuration that passed "sing-box check" is ever the live file, at
\* every instant, so that systemd's own restart of sing-box never loads an
\* unchecked one (engine.go:95-97 runs before the rename at 123).
FileAlwaysChecked == file \in Valid \cup {None}

\* Between two Applies none of which was cut short, sing-box serves what is on
\* disk, is down, or has the reload signal still to handle: a failed Apply
\* never leaves the candidate running behind a restored file.  A residential
\* unit whose file was removed is left to the runtime's prune.
RunningMatchesFile ==
    (pc = "idle" /\ clean /\ file # None) => (running \in {None, file} \/ hup)

\* What Apply returns tells what is on disk: the candidate after success, the
\* file found at entry after a rollback or a refused rename, and never a third
\* thing when the rollback itself failed.
OutcomeMatchesDisk ==
    [][(pc # "idle" /\ pc' = "idle") =>
        /\ result' = "ok" => file' = cand
        /\ result' = "rolled_back" => file' = prev
        /\ (result' = "rejected" /\ pc = "rename") => file' = prev
        /\ result' = "rollback_failed" => file' \in {cand, prev}]_vars

\* After an Apply that reported success, sing-box does get to run the live
\* file, unless another Apply starts first (engine.go:139-170: reload is
\* asynchronous, so this is only ever eventual).
EventuallyServed ==
    (pc = "idle" /\ result = "ok" /\ clean) ~> (running = file \/ pc # "idle")

\* When Apply reports success, sing-box runs the candidate or has been told to
\* load it: what the event recorded after it says ("checked, restarted and
\* passed the port health check", service.go:1298), with no proviso about the
\* Applies before it.
SuccessMeansLoaded ==
    [][(pc # "idle" /\ pc' = "idle" /\ result' = "ok")
        => (running' = cand \/ hup')]_vars

=============================================================================
