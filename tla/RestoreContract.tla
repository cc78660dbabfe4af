--------------------------- MODULE RestoreContract ---------------------------
(***************************************************************************)
(* What `j-ui restore` promises its caller, without saying how: which      *)
(* version of the installation is being served, and the verdict the        *)
(* command ends with.  BackupRestore implements it.                        *)
(***************************************************************************)

VARIABLES
    serving,  \* "old", "new", or "none" while the services are down
    verdict   \* "idle", "running", and then how the command ended

vars == <<serving, verdict>>

Versions == {"old", "new", "none"}

\* restored: the backup is live; previous: the earlier state is, and it is
\* served again; kept: it never left its place, or is back and its services
\* did not come up; abandoned: the way back failed; killed: no verdict at all.
Verdicts == {"restored", "previous", "kept", "abandoned", "killed"}

Init == serving \in {"old", "none"} /\ verdict = "idle"

\* Before the command and after a kill, the services stop and start on
\* whatever whole version is in place; nobody else replaces that version.
Services ==
    /\ verdict \in {"idle", "killed"}
    /\ serving' \in Versions
    /\ verdict = "idle" => serving' # "new"
    /\ UNCHANGED verdict

Begin == verdict = "idle" /\ verdict' = "running" /\ UNCHANGED serving

\* While it runs, the command stops the services, and tries the backup once.
Swap ==
    /\ verdict = "running"
    /\ serving' \in {"new", "none"}
    /\ serving = "old" => serving' = "none"
    /\ UNCHANGED verdict

Finish ==
    /\ verdict = "running"
    /\ verdict' \in Verdicts
    /\ verdict' = "restored"  => serving' = "new"
    /\ verdict' = "previous"  => serving' = "old"
    /\ verdict' = "kept"      => serving' \in {"old", "none"}
    /\ verdict' = "abandoned" => serving' = "none"
    /\ verdict' = "killed"    => serving' \in {serving, "none"}

Next == Services \/ Begin \/ Swap \/ Finish

\* A command that was begun comes to an end.
Spec == Init /\ [][Next]_vars /\ WF_vars(Finish)
=============================================================================
