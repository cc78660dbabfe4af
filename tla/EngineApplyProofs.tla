-------------------------- MODULE EngineApplyProofs --------------------------
(***************************************************************************)
(* Proofs about EngineApply, for any set of configurations and sockets,    *)
(* for the main unit and the residential ones, with and without kills.     *)
(*                                                                         *)
(* The properties of a finished Apply depend on where it stands, so the    *)
(* inductive invariant says, step by step, what the live file is           *)
(* (FileByStep) and at which steps sing-box is known to serve that file or *)
(* to have been told to (ServedByStep).                                    *)
(***************************************************************************)
EXTENDS EngineApply, TLAPS

\* The candidate has passed the check by the time anything depends on it.
PastCheck == Steps \ {"check"}

ChecksHeld ==
    /\ FileAlwaysChecked
    /\ prev \in Valid \cup {None}
    /\ pc \in PastCheck => cand \in Valid

FileByStep ==
    /\ pc \in {"compare", "restart", "verify_restart"} => file = cand
    /\ pc = "rename" => file = prev
    /\ pc \in {"sync", "signal", "settle", "verify", "restore"} => file = cand
    /\ pc \in {"stop", "reload_previous", "verify_previous"} => file = prev
    /\ pc = "stop" => prev = None

\* sing-box serves the live file, is down, or is about to read it again.
Serving == running \in {None, file} \/ hup

\* Before the rename Serving is inherited from the Apply before, if that one
\* was not cut short; after a reload or a launch it holds by itself.
ServedByStep ==
    file # None =>
        /\ (clean /\ pc \in {"idle", "check", "compare", "restart", "rename"}) => Serving
        /\ pc \in {"verify_restart", "settle", "verify", "verify_previous"} => Serving

IInv == TypeOK /\ ChecksHeld /\ FileByStep /\ ServedByStep

----------------------------------------------------------------------------

\* A freshly launched sing-box serves the live file.
LEMMA LaunchServes ==
    ASSUME Launch, UNCHANGED file
    PROVE  Serving'
BY DEF Launch, Serving

\* Every step of the specification keeps the variables within their types.
LEMMA TypeStep ==
    ASSUME TypeOK, [Next]_vars
    PROVE  TypeOK'
<1> USE ConfigAssumption DEF TypeOK, MaybeConfig, Valid, Results, Steps,
        Goto, Return, unitVars, callVars
<1>1. CASE Begin
  BY <1>1 DEF Begin
<1>2. CASE Check \/ Compare \/ Rename \/ SyncDirectory \/ Settle
  BY <1>2 DEF Check, Compare, Rename, SyncDirectory, Settle
<1>3. CASE Restart
  BY <1>3 DEF Restart, Launch, Launched
<1>4. CASE Signal
  BY <1>4 DEF Signal, Launch, Launched, ReloadOK, ReloadFails
<1>5. CASE VerifyRestart \/ Verify \/ VerifyPrevious
  BY <1>5 DEF VerifyRestart, Verify, VerifyPrevious
<1>6. CASE RestoreFile
  BY <1>6 DEF RestoreFile, Restored
<1>7. CASE StopUnit
  BY <1>7 DEF StopUnit
<1>8. CASE ReloadPrevious
  BY <1>8 DEF ReloadPrevious, RollbackSignal, Launch, Launched, ReloadOK, ReloadFails
<1>9. CASE Systemd
  BY <1>9 DEF Systemd, Die, AutoRestart, HandleHup, Launch, Launched
<1>10. CASE Crash
  BY <1>10 DEF Crash, Committed
<1>11. CASE UNCHANGED vars
  BY <1>11 DEF vars
<1> QED
  BY <1>1, <1>2, <1>3, <1>4, <1>5, <1>6, <1>7, <1>8, <1>9, <1>10, <1>11 DEF Next, ApplyStep

\* Only checked configurations reach the live file, the candidate past the
\* check, and the copy kept for the rollback.
LEMMA ChecksStep ==
    ASSUME IInv, [Next]_vars
    PROVE  ChecksHeld'
<1> USE ConfigAssumption DEF IInv, TypeOK, ChecksHeld, FileAlwaysChecked, PastCheck, Steps, MaybeConfig,
        Valid, Goto, Return, unitVars, callVars
<1>1. CASE Begin \/ Crash \/ Systemd
  BY <1>1 DEF Begin, Crash, Systemd, Die, AutoRestart, HandleHup
<1>2. CASE Check
  BY <1>2 DEF Check, CheckPasses
<1>3. CASE Compare \/ Restart \/ VerifyRestart \/ Rename \/ SyncDirectory \/ Signal \/ Settle \/ Verify
  BY <1>3 DEF Compare, Restart, VerifyRestart, Rename, SyncDirectory, Signal, Settle, Verify
<1>4. CASE RestoreFile
  BY <1>4 DEF RestoreFile, Restored
<1>5. CASE StopUnit \/ ReloadPrevious \/ VerifyPrevious
  BY <1>5 DEF StopUnit, ReloadPrevious, VerifyPrevious
<1>6. CASE UNCHANGED vars
  BY <1>6 DEF vars
<1> QED
  BY <1>1, <1>2, <1>3, <1>4, <1>5, <1>6 DEF Next, ApplyStep

\* What the live file is follows from where the Apply stands.
LEMMA FileStep ==
    ASSUME IInv, [Next]_vars
    PROVE  FileByStep'
<1> USE DEF IInv, TypeOK, FileByStep, Steps, Goto, Return, unitVars, callVars
<1>1. CASE Begin \/ Crash \/ Systemd
  BY <1>1 DEF Begin, Crash, Systemd, Die, AutoRestart, HandleHup
<1>2. CASE Check
  BY <1>2 DEF Check
<1>3. CASE Compare \/ Restart \/ VerifyRestart
  BY <1>3 DEF Compare, Restart, VerifyRestart
<1>4. CASE Rename \/ SyncDirectory \/ Signal \/ Settle \/ Verify
  BY <1>4 DEF Rename, SyncDirectory, Signal, Settle, Verify
<1>5. CASE RestoreFile
  BY <1>5 DEF RestoreFile, Restored
<1>6. CASE StopUnit \/ ReloadPrevious \/ VerifyPrevious
  BY <1>6 DEF StopUnit, ReloadPrevious, VerifyPrevious
<1>7. CASE UNCHANGED vars
  BY <1>7 DEF vars
<1> QED
  BY <1>1, <1>2, <1>3, <1>4, <1>5, <1>6, <1>7 DEF Next, ApplyStep

\* Whatever sing-box, systemd and Apply do, sing-box serves the live file at
\* the steps that ServedByStep names.
LEMMA ServedStep ==
    ASSUME IInv, [Next]_vars
    PROVE  ServedByStep'
<1> USE DEF IInv, TypeOK, FileByStep, ServedByStep, Steps, Goto, Return, unitVars, callVars
<1>1. CASE Begin \/ Check \/ Compare \/ Rename \/ SyncDirectory \/ Settle
  BY <1>1 DEF Begin, Check, Compare, Rename, SyncDirectory, Settle, Serving
<1>2. CASE Restart
  BY <1>2, LaunchServes DEF Restart, Serving
<1>3. CASE VerifyRestart \/ Verify \/ VerifyPrevious
  BY <1>3 DEF VerifyRestart, Verify, VerifyPrevious, Serving
<1>4. CASE Signal
  <2>1. ReloadOK => Serving'
    BY DEF ReloadOK, Serving
  <2> QED
    BY <1>4, <2>1, LaunchServes DEF Signal
<1>5. CASE RestoreFile \/ StopUnit
  BY <1>5 DEF RestoreFile, StopUnit, Restored
<1>6. CASE ReloadPrevious
  <2>1. ReloadOK => Serving'
    BY DEF ReloadOK, Serving
  <2> QED
    BY <1>6, <2>1, LaunchServes DEF ReloadPrevious, RollbackSignal
<1>7. CASE Die
  BY <1>7 DEF Die, Serving
<1>8. CASE AutoRestart
  BY <1>8, LaunchServes DEF AutoRestart
<1>9. CASE HandleHup
  <2>1. file # None => file \in Valid
    BY DEF ChecksHeld, FileAlwaysChecked
  <2> QED
    BY <1>9, <2>1 DEF HandleHup, Serving
<1>10. CASE Crash
  BY <1>10 DEF Crash, Committed, Serving
<1>11. CASE UNCHANGED vars
  BY <1>11 DEF vars, Serving
<1> QED
  BY <1>1, <1>2, <1>3, <1>4, <1>5, <1>6, <1>7, <1>8, <1>9, <1>10, <1>11
  DEF Next, ApplyStep, Systemd

\* IInv holds of every reachable state, from the installer's initial one on.
THEOREM Invariance == Spec => []IInv
<1>1. Init => IInv
  BY ConfigAssumption
  DEF Init, IInv, TypeOK, ChecksHeld, FileAlwaysChecked, FileByStep, ServedByStep, Serving,
      PastCheck, Steps, MaybeConfig, Valid, Results
<1>2. IInv /\ [Next]_vars => IInv'
  BY TypeStep, ChecksStep, FileStep, ServedStep DEF IInv
<1> QED
  BY <1>1, <1>2, PTL DEF Spec

\* The types of EngineApply's variables hold in every reachable state.
THEOREM TypeCorrect == Spec => []TypeOK
<1>1. IInv => TypeOK
  BY DEF IInv
<1> QED
  BY <1>1, Invariance, PTL

\* Apply never puts an unchecked configuration under sing-box's path, whenever
\* it is killed and whatever fails.
THEOREM OnlyCheckedFiles == Spec => []FileAlwaysChecked
<1>1. IInv => FileAlwaysChecked
  BY DEF IInv, ChecksHeld
<1> QED
  BY <1>1, Invariance, PTL

\* Between Applies that ran to their end, sing-box serves the live file, is
\* down, or has been told to read it.
THEOREM ServesTheFile == Spec => []RunningMatchesFile
<1>1. IInv => RunningMatchesFile
  BY DEF IInv, ServedByStep, RunningMatchesFile, Serving
<1> QED
  BY <1>1, Invariance, PTL

\* What Apply returns tells what is on disk: the candidate, or the file that
\* was there when the call began.
THEOREM OutcomeTellsDisk == Spec => OutcomeMatchesDisk
<1> DEFINE Told ==
        (pc # "idle" /\ pc' = "idle") =>
            /\ result' = "ok" => file' = cand
            /\ result' = "rolled_back" => file' = prev
            /\ (result' = "rejected" /\ pc = "rename") => file' = prev
            /\ result' = "rollback_failed" => file' \in {cand, prev}
<1>1. IInv /\ [Next]_vars => [Told]_vars
  <2> SUFFICES ASSUME IInv, Next, pc # "idle", pc' = "idle"
               PROVE  Told
    BY DEF vars
  <2> USE DEF IInv, TypeOK, FileByStep, Steps, Goto, Return, unitVars, callVars
  <2>1. CASE Begin \/ Systemd
    BY <2>1 DEF Begin, Systemd, Die, AutoRestart, HandleHup
  <2>2. CASE Crash
    BY <2>2 DEF Crash
  <2>3. CASE Check
    BY <2>3 DEF Check
  <2>4. CASE Compare \/ Restart \/ VerifyRestart
    BY <2>4 DEF Compare, Restart, VerifyRestart
  <2>5. CASE Rename \/ SyncDirectory \/ Signal \/ Settle \/ Verify
    BY <2>5 DEF Rename, SyncDirectory, Signal, Settle, Verify
  <2>6. CASE RestoreFile
    BY <2>6 DEF RestoreFile, Restored
  <2>7. CASE StopUnit \/ ReloadPrevious \/ VerifyPrevious
    BY <2>7 DEF StopUnit, ReloadPrevious, VerifyPrevious
  <2> QED
    BY <2>1, <2>2, <2>3, <2>4, <2>5, <2>6, <2>7 DEF Next, ApplyStep
<1> QED
  BY <1>1, Invariance, PTL DEF Spec, OutcomeMatchesDisk

=============================================================================
