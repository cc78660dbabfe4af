---------------------------- MODULE BackupRestore ----------------------------
(***************************************************************************)
(* `j-ui restore`: replaces the data directory (SQLite database) and the   *)
(* configuration directory (instance key, environment file) of an          *)
(* installation by those of a backup, and goes back when anything fails.   *)
(*                                                                         *)
(* The two directories are replaced by four renames that no transaction    *)
(* holds together; the way back is an archive that the command makes of    *)
(* the stopped installation before it closes the host firewall, and that   *)
(* it removes when it ends.  Every call may fail, and the command may be   *)
(* killed between any two of them.                                         *)
(*                                                                         *)
(* Simplifications:                                                        *)
(*  - a version is "old" (before the command) or "new" (of the backup); a   *)
(*    database and a key go together iff they are of the same version;     *)
(*  - validation is a verdict on the archive (see Refused), extraction and *)
(*    staging one step that may fail and changes nothing live;             *)
(*  - the firewall is the set of rules J-UI opened and the set of rows     *)
(*    that record them, at the outcomes FirewallSync establishes: a rule   *)
(*    opened has a row, a row goes only once its rule is closed (what      *)
(*    FirewallSync records as misled or cut is left out);                  *)
(*  - each clean-up, read or merge of rules opens a whole application,     *)
(*    whose watcher may synchronise the firewall before it is closed; the  *)
(*    closing itself is not a step, see Watching.  That the watcher may    *)
(*    also start sing-box is left out: `up` is about j-ui.service;         *)
(*  - residential tunnels are closed with one call that may fail.          *)
(***************************************************************************)
CONSTANTS
    None,     \* no directory, or no service running
    Part,     \* a directory that a failed removal left in pieces
    Wanted,   \* firewall rules that the nodes of a version need
    Faults    \* what may go wrong, a subset of FaultKinds

Gens == {"old", "new"}
Rules == Wanted["old"] \cup Wanted["new"]
FaultKinds ==
    {"stop", "vpngate", "archive", "firewall", "stage", "rename", "remove",
     "start", "load", "merge", "restop", "kill", "crash", "unclean", "odd", "watch", "tmp"}

ASSUME BackupAssumption == DOMAIN Wanted = Gens /\ Faults \subseteq FaultKinds

\* A data directory: wal - committed writes are only in the write-ahead log;
\* whole - no committed write is missing; odd - what of its contents the backup
\* validator objects to; fw - the rows of the managed firewall rules.
Oddities == {"no", "state", "material"}
DataTrees == [gen : Gens, wal : BOOLEAN, whole : BOOLEAN, odd : Oddities, fw : SUBSET Rules]
Data == DataTrees \cup {None, Part}
Keys == Gens \cup {"other"}
Configs == Keys \cup {None, Part}
Pairs == [data : Data, config : Configs]

ASSUME PlacesAssumption ==
    None # Part /\ None \notin DataTrees \cup Keys /\ Part \notin DataTrees \cup Keys

VARIABLES
    live,     \* the two directories
    aside,    \* where the running replacement has put the earlier ones
    left,     \* directories left under such names, by directory and version
    archive,  \* the rollback archive
    up,       \* the version the running services opened, None when stopped
    open,     \* rules J-UI has open on the host
    target,   \* the kind of backup, see Targets
    pc,       \* the next step of the command
    job,      \* the archive Restore works on: "target" or "rollback"
    failed,   \* this call of Restore has met an error
    why,      \* what made the command go back: "restore", "foreign", "start"
    rescued,  \* rules read from the backup's database before going back
    report,   \* the verdict
    torn,     \* a removal failed (history)
    blind,    \* the rules could not be read (history, part of the message)
    astray    \* rules opened when their database was not looked at again (history)

vars == <<live, aside, left, archive, up, open, target, pc, job, failed, why,
          rescued, report, torn, blind, astray>>
trees == <<live, aside, left>>
host == <<up, open>>
plan == <<target, why, rescued, blind, astray>>

NoPair == [data |-> None, config |-> None]
Fault(f) == f \in Faults

\* A backup that cannot be unpacked, one whose database and key do not belong
\* together, one that holds something the validator objects to, one of an
\* installation with other paths, and one whose services do not come up.
Targets == {"good", "corrupt", "torn", "odd", "foreign", "sick"}

Whole(pair) == pair.data \in DataTrees /\ pair.config \in Keys
\* OpenExisting: both files must be there.
Openable(pair) == pair.data # None /\ pair.config # None
Version(pair) ==
    IF Whole(pair) /\ pair.data.gen = pair.config THEN pair.config ELSE "mixed"

Backup == [data |-> [gen |-> "new", wal |-> FALSE, whole |-> TRUE,
                     odd |-> IF target = "odd" THEN "state" ELSE "no",
                     fw |-> Wanted["new"]],
           config |-> IF target = "torn" THEN "other" ELSE "new"]

\* create, without a snapshot: files are copied, the write-ahead log is not.
Archived(pair) ==
    [pair EXCEPT !.data.wal = FALSE, !.data.whole = @ /\ ~pair.data.wal]

Source(j) == IF j = "target" THEN Backup ELSE archive

\* The checks of Restore before it touches anything: the archive can be
\* unpacked and its database is sound, the key opens the database, and rows
\* and protocol material are what this version of J-UI stores.
BadArchive(j) == j = "target" /\ target = "corrupt"
WrongKey(pair) == pair.data.gen # pair.config
BadState(pair) == pair.data.odd = "state"
BadMaterial(pair) == pair.data.odd = "material"

\* Mutant: the key is not tried.
RefusedWithoutKey(j) == BadArchive(j) \/ BadState(Source(j)) \/ BadMaterial(Source(j))
Refused(j) ==
    \/ BadArchive(j)
    \/ WrongKey(Source(j)) \/ BadState(Source(j)) \/ BadMaterial(Source(j))

----------------------------------------------------------------------------
(* The installation before the command.                                    *)

\* The server commits a write, perhaps of a node that the validator objects to:
\* an update may leave out settings that it asks for.
Edit ==
    /\ pc \in {"idle", "stop"} /\ up = "old"
    /\ \E odd \in {"no", "material"} :
        /\ odd = "material" => Fault("odd")
        /\ live' = [live EXCEPT !.data.wal = TRUE, !.data.odd = odd]
    /\ UNCHANGED <<aside, left, archive, host, plan, pc, job, failed, report, torn>>

Crash ==
    /\ Fault("crash")
    /\ pc \in {"idle", "stop"} /\ up = "old"
    /\ up' = None
    /\ UNCHANGED <<trees, archive, open, plan, pc, job, failed, report, torn>>

----------------------------------------------------------------------------
(* Ends of the command.  The deferred calls run whatever the outcome: the  *)
(* rollback archive goes, and so does the lock.                            *)

End(verdict) ==
    /\ pc' = "done"
    /\ report' = verdict
    /\ archive' = NoPair

\* `systemctl start`, whose failure is ignored: the rows and rules of the
\* version that is opened are synchronised, perhaps not to the end.
Synced(tree, rules, rows) ==
    /\ live' = [live EXCEPT !.data.fw = rows]
    /\ open' = (open \ tree.fw) \cup rules

PartSynced ==
    LET tree == live.data IN
    /\ Whole(live)
    /\ \E rows \in SUBSET (tree.fw \cup Wanted[tree.gen]) :
       \E rules \in SUBSET (rows \cap ((open \cap tree.fw) \cup Wanted[tree.gen])) :
          Synced(tree, rules, rows)

HalfStarted(gen) ==
    \/ UNCHANGED <<up, open, live>>
    \/ up = None /\ PartSynced /\ up' \in {gen, None}
    \/ /\ up = None /\ Openable(live) /\ ~Whole(live)
       /\ up' = gen
       /\ UNCHANGED <<open, live>>

\* Services that are still up are not started again.
Started(gen) ==
    \/ /\ up = None /\ Openable(live)
       /\ up' = gen
       /\ IF Whole(live)
          THEN Synced(live.data, Wanted[live.data.gen], Wanted[live.data.gen])
          ELSE UNCHANGED <<open, live>>
    \/ up # None /\ UNCHANGED <<up, open, live>>

EndStarting(verdict) ==
    /\ Started(Version(live)) \/ (Fault("start") /\ HalfStarted(Version(live)))
    /\ End(verdict)
    /\ UNCHANGED <<aside, left, plan, job, failed, torn>>

EndDown(verdict) ==
    /\ End(verdict)
    /\ UNCHANGED <<trees, host, plan, job, failed, torn>>

----------------------------------------------------------------------------
(* The command up to the replacement.                                      *)

\* The lifecycle lock; with it held by an update or an installation the
\* command ends here.
Lock ==
    /\ pc = "idle"
    /\ target' \in Targets
    /\ pc' = "stop"
    /\ UNCHANGED <<trees, archive, host, why, rescued, blind, astray, job, failed, report, torn>>

\* Both services stop; a clean stop empties the log.
Stop ==
    /\ pc = "stop"
    /\ \/ /\ up' = None
          /\ \E clean \in BOOLEAN :
              /\ clean => up # None
              /\ ~clean => up = None \/ Fault("unclean")
              /\ live' = IF clean THEN [live EXCEPT !.data.wal = FALSE] ELSE live
          /\ pc' = "vpngate"
          /\ UNCHANGED <<archive, report>>
       \/ /\ Fault("stop")
          /\ up' \in {up, None}
          /\ UNCHANGED live
          /\ End("kept")
    /\ UNCHANGED <<aside, left, open, plan, job, failed, torn>>

CleanVpnGate ==
    /\ pc = "vpngate"
    /\ \/ /\ pc' = "archive"
          /\ UNCHANGED <<trees, archive, host, plan, job, failed, report, torn>>
       \/ Fault("vpngate") /\ EndStarting("kept")

MakeArchive ==
    /\ pc = "archive"
    /\ \/ /\ archive' = Archived(live)
          /\ pc' = "close"
          /\ UNCHANGED <<trees, host, plan, job, failed, report, torn>>
       \/ Fault("archive") /\ EndStarting("kept")

\* CleanupFirewall of the version in place; opening the database and closing
\* it again empties the log.  A failure may have closed some of the rules.
Closed(rows, rules) ==
    /\ live' = [live EXCEPT !.data.fw = rows, !.data.wal = FALSE]
    /\ open' = (open \ live.data.fw) \cup rules

CleanupFirewall ==
    /\ pc = "close"
    /\ \/ /\ Closed({}, {})
          /\ pc' = "stage"
       \/ /\ Fault("firewall")
          /\ \E rows \in SUBSET live.data.fw :
             \E rules \in SUBSET (rows \cap open) : Closed(rows, rules)
          /\ pc' = "recover"
    /\ UNCHANGED <<aside, left, archive, up, plan, job, failed, report, torn>>

\* The services are started again on what never left its place.
Recover == pc = "recover" /\ EndStarting("kept")

----------------------------------------------------------------------------
(* backup.Restore, of the backup and, on the way back, of the archive.     *)

Step(from, to) ==
    /\ pc = from
    /\ pc' = to
    /\ UNCHANGED <<archive, host, plan, job, report>>

\* The command turns to the rollback archive.
GoBack(reason) ==
    /\ job' = "rollback"
    /\ why' = reason
    /\ pc' = "stage"

\* Returns an error before anything live was touched.
Stage ==
    /\ pc = "stage"
    /\ \/ ~Refused(job) /\ Step("stage", "aside_data") /\ failed' = FALSE
       \/ /\ Refused(job) \/ Fault("stage")
          /\ Step("stage", "returned") /\ failed' = TRUE
    /\ UNCHANGED <<trees, torn>>

Fail(from, to) ==
    /\ Fault("rename")
    /\ Step(from, to)
    /\ failed' = TRUE
    /\ UNCHANGED <<trees, torn>>

\* A directory that does not exist is no error and is not put back later.
Aside(d, from, next) ==
    /\ aside' = [aside EXCEPT ![d] = live[d]]
    /\ live' = [live EXCEPT ![d] = None]
    /\ Step(from, next)
    /\ UNCHANGED <<left, failed, torn>>

AsideData == Aside("data", "aside_data", "aside_config") \/ Fail("aside_data", "returned")
AsideConfig == Aside("config", "aside_config", "put_data") \/ Fail("aside_config", "undo_data")

Put(d, from, next) ==
    /\ live' = [live EXCEPT ![d] = Source(job)[d]]
    /\ Step(from, next)
    /\ UNCHANGED <<aside, left, failed, torn>>

PutData == Put("data", "put_data", "put_config") \/ Fail("put_data", "undo_data")
PutConfig == Put("config", "put_config", "drop_data") \/ Fail("put_config", "undo_remove")

\* The replacement is taken back.  Its data directory has to go first; if it
\* cannot be removed, the earlier one stays aside, but the configuration
\* returns all the same.
UndoRemove ==
    \/ /\ live' = [live EXCEPT !.data = None]
       /\ Step("undo_remove", "undo_data")
       /\ UNCHANGED <<aside, left, failed, torn>>
    \/ /\ Fault("remove")
       /\ live' = [live EXCEPT !.data = Part]
       /\ torn' = TRUE
       /\ Step("undo_remove", "undo_config")
       /\ UNCHANGED <<aside, left, failed>>

Back(d, from, next) ==
    /\ live' = IF aside[d] = None THEN live ELSE [live EXCEPT ![d] = aside[d]]
    /\ aside' = [aside EXCEPT ![d] = None]
    /\ Step(from, next)
    /\ UNCHANGED <<left, failed, torn>>

\* A failed rename of one directory does not keep the other from returning.
UndoData == Back("data", "undo_data", "undo_config") \/ Fail("undo_data", "undo_config")
UndoConfig == Back("config", "undo_config", "returned") \/ Fail("undo_config", "returned")

\* Both are in place; a failure to remove the earlier ones is an error of
\* Restore all the same.
Drop(d, from, next) ==
    \/ /\ aside' = [aside EXCEPT ![d] = None]
       /\ Step(from, next)
       /\ UNCHANGED <<live, left, failed, torn>>
    \/ /\ Fault("remove") /\ aside[d] # None
       /\ aside' = [aside EXCEPT ![d] = Part]
       /\ failed' = TRUE
       /\ torn' = TRUE
       /\ Step(from, next)
       /\ UNCHANGED <<live, left>>

DropData == Drop("data", "drop_data", "drop_config")
DropConfig == Drop("config", "drop_config", "returned")

\* What is still aside stays under a name that nothing refers to.
GenOf(d, tree) == IF d = "data" /\ tree \notin {None, Part} THEN tree.gen ELSE tree
Forsake ==
    /\ left' = left \cup {<<d, GenOf(d, aside[d])>> : d \in DOMAIN aside}
    /\ aside' = NoPair

\* The command's reaction to the outcome: go on with the backup, go back, or
\* give up with the services down.
Returned ==
    /\ pc = "returned"
    /\ Forsake
    /\ \/ /\ ~failed
          /\ pc' = IF job = "target" THEN "check" ELSE IF why = "start" THEN "merge" ELSE "restart"
          /\ UNCHANGED <<archive, job, why, report>>
       \/ /\ failed /\ job = "target"
          /\ GoBack("restore")
          /\ UNCHANGED <<archive, report>>
       \/ /\ failed /\ job = "rollback"
          /\ End("abandoned")
          /\ UNCHANGED <<job, why>>
    /\ UNCHANGED <<live, host, target, rescued, blind, astray, failed, torn>>

----------------------------------------------------------------------------
(* The command after the replacement.                                      *)

\* Mutant: the rollback archive goes once the backup is in place.
CheckDiscarding ==
    /\ pc = "check"
    /\ pc' = "verify"
    /\ archive' = NoPair
    /\ UNCHANGED <<trees, host, plan, job, failed, report, torn>>

\* The environment file of the backup must name the same roots and engine.
Check ==
    /\ pc = "check"
    /\ \/ target # "foreign" /\ pc' = "verify" /\ UNCHANGED <<job, why>>
       \/ target = "foreign" /\ GoBack("foreign")
    /\ UNCHANGED <<trees, archive, host, target, rescued, blind, astray, failed, report, torn>>

\* startAndVerify: twenty attempts, and the services may be up when they end.
Verify ==
    /\ pc = "verify"
    /\ \/ /\ target # "sick"
          /\ Started(Version(live))
          /\ End("restored")
       \/ /\ target = "sick" \/ Fault("start")
          /\ HalfStarted(Version(live))
          /\ pc' = "restop"
          /\ UNCHANGED <<archive, report>>
    /\ UNCHANGED <<aside, left, plan, job, failed, torn>>

\* The outcome of this stop is ignored.
StopAgain ==
    /\ pc = "restop"
    /\ up' = None \/ (Fault("restop") /\ up' = up)
    /\ pc' = "reclose"
    /\ UNCHANGED <<trees, archive, open, plan, job, failed, report, torn>>

CleanupTarget ==
    /\ pc = "reclose"
    /\ \/ Closed({}, {})
       \/ /\ Fault("firewall")
          /\ \E rows \in SUBSET live.data.fw :
             \E rules \in SUBSET (rows \cap open) : Closed(rows, rules)
    /\ pc' = "load"
    /\ UNCHANGED <<aside, left, archive, up, plan, job, failed, report, torn>>

\* The rules that could not be closed are carried over to the other database.
LoadRules ==
    /\ pc = "load"
    /\ \/ rescued' = live.data.fw /\ UNCHANGED blind
       \/ Fault("load") /\ rescued' = {} /\ blind' = TRUE
    /\ GoBack("start")
    /\ UNCHANGED <<trees, archive, host, target, astray, failed, report, torn>>

\* Mutant: nothing is carried over.
MergeNothing ==
    /\ pc = "merge"
    /\ pc' = "restart"
    /\ UNCHANGED <<trees, archive, host, plan, job, failed, report, torn>>

MergeRules ==
    /\ pc = "merge"
    /\ \/ /\ live' = [live EXCEPT !.data.fw = @ \cup rescued]
          /\ pc' = "restart"
          /\ UNCHANGED <<archive, report, blind>>
       \/ /\ Fault("merge")
          /\ End("kept")
          /\ blind' = TRUE
          /\ UNCHANGED live
    /\ UNCHANGED <<aside, left, host, target, why, rescued, astray, job, failed, torn>>

\* Mutant: the services are started and not verified.
RestartUnverified ==
    /\ pc = "restart"
    /\ Started(Version(live)) \/ (Fault("start") /\ HalfStarted(Version(live)))
    /\ End("previous")
    /\ UNCHANGED <<aside, left, plan, job, failed, torn>>

Restart ==
    /\ pc = "restart"
    /\ \/ Started(Version(live)) /\ End("previous")
       \/ Fault("start") /\ HalfStarted(Version(live)) /\ End("kept")
    /\ UNCHANGED <<aside, left, plan, job, failed, torn>>

----------------------------------------------------------------------------
(* Synchronisations that the command does not ask for.                     *)

\* The command has an application open, or will open one or has not closed it
\* yet: while it works on the rules of the version in place, before the
\* replacement begins, and after a replacement to merge the rules.
Watching ==
    /\ Fault("watch")
    /\ \/ pc \in {"close", "recover", "reclose", "load", "merge"}
       \/ pc = "stage" /\ (job = "target" \/ why = "start")
       \/ pc = "restart" /\ why = "start"

\* The services of the backup ignored the second stop.
Unstopped ==
    /\ up = "new" /\ pc # "killed"
    /\ pc \in {"reclose", "load"} \/ job = "rollback"

\* The rows of the database in place are still to be closed, read or merged,
\* or that database stays in place.
Attended == {"close", "recover", "reclose", "load", "merge", "restart"}

\* Otherwise the command has done with the database, and what a synchronisation
\* opens has a row only there.
Strayed == astray' = astray \cup (open' \ open)

\* The watcher of the command's application deletes an expired node and
\* synchronises, or a service that is still up does; when the database that it
\* opened was moved away, its rows are no longer those in place.
Resync ==
    /\ \/ /\ Watching \/ (Unstopped /\ GenOf("data", live.data) = "new")
          /\ PartSynced
          /\ IF pc \in Attended THEN UNCHANGED astray ELSE Strayed
       \/ /\ Unstopped /\ GenOf("data", live.data) # "new"
          /\ \E rules \in SUBSET Wanted["new"] : open' = (open \ Wanted["new"]) \cup rules
          /\ Strayed
          /\ UNCHANGED live
    /\ UNCHANGED <<aside, left, archive, up, target, pc, job, failed, why, rescued,
                   report, torn, blind>>

----------------------------------------------------------------------------
(* A kill takes the lock and leaves everything else, archive included.     *)

Kill ==
    /\ Fault("kill")
    /\ pc \notin {"idle", "done", "killed"}
    /\ pc' = "killed"
    /\ report' = "killed"
    /\ Forsake
    /\ UNCHANGED <<live, archive, host, plan, job, failed, torn>>

\* The host comes up again, perhaps with its temporary directory emptied.  With
\* a directory in pieces, what the services do depends on which files a failed
\* removal took; that case is left out.
Boot ==
    /\ pc = "killed" /\ ~torn
    /\ Started(Version(live)) \/ (up' = None /\ UNCHANGED <<open, live>>)
    /\ archive' = archive \/ (Fault("tmp") /\ archive' = NoPair)
    /\ UNCHANGED <<aside, left, plan, pc, job, failed, report, torn>>

----------------------------------------------------------------------------
Init ==
    /\ live = [data |-> [gen |-> "old", wal |-> FALSE, whole |-> TRUE, odd |-> "no",
                         fw |-> Wanted["old"]],
               config |-> "old"]
    /\ aside = NoPair /\ left = {} /\ archive = NoPair
    /\ up = "old" /\ open = Wanted["old"]
    /\ target = "good" /\ pc = "idle" /\ job = "target" /\ failed = FALSE
    /\ why = "restore" /\ rescued = {} /\ report = "none"
    /\ torn = FALSE /\ blind = FALSE /\ astray = {}

Replace ==
    \/ Stage \/ AsideData \/ AsideConfig \/ PutData \/ PutConfig
    \/ UndoRemove \/ UndoData \/ UndoConfig \/ DropData \/ DropConfig

Command ==
    \/ Stop \/ CleanVpnGate \/ MakeArchive \/ CleanupFirewall \/ Recover
    \/ Replace \/ Returned \/ Check \/ Verify
    \/ StopAgain \/ CleanupTarget \/ LoadRules \/ MergeRules \/ Restart

Next == Edit \/ Crash \/ Lock \/ Command \/ Resync \/ Kill \/ Boot

\* Every step of a command that was begun ends: its subprocesses return and
\* its waits are bounded.
Spec == Init /\ [][Next]_vars /\ WF_vars(Command)

----------------------------------------------------------------------------
(* Properties.                                                             *)

\* The shape of the state, on which the properties below rely.
TypeOK ==
    /\ live \in Pairs /\ aside \in Pairs /\ archive \in Pairs
    /\ left \subseteq {"data", "config"} \X Configs
    /\ up \in Gens \cup {None} /\ open \subseteq Rules
    /\ rescued \subseteq Rules /\ astray \subseteq Rules
    /\ target \in Targets
    /\ job \in {"target", "rollback"} /\ why \in {"restore", "foreign", "start"}
    /\ report \in {"none", "restored", "previous", "kept", "abandoned", "killed"}
    /\ failed \in BOOLEAN /\ torn \in BOOLEAN /\ blind \in BOOLEAN

\* Whenever the command is interrupted, the two directories that a booting
\* service would open belong together: the order of the renames in
\* replaceTreeWithOps leaves one of them absent while they do not, unless a
\* removal failed.
NeverMixed == Openable(live) /\ ~torn => Version(live) # "mixed"

\* A copy of each directory of this version is in place, put aside, in the
\* rollback archive, or left beside the live ones.
Survives(d, gen) ==
    \/ gen \in {GenOf(d, live[d]), GenOf(d, aside[d]), GenOf(d, archive[d])}
    \/ <<d, gen>> \in left

\* Until the command has either reported success or reported that the way back
\* failed, a copy of the previous state exists.  After a kill it may be lost
\* with the temporary directory that holds the rollback archive, and then only
\* where the directory of the backup exists: what the renames have not yet
\* replaced never depends on the archive.
OldSurvives ==
    report \notin {"restored", "abandoned"} =>
        \A d \in {"data", "config"} :
            \/ Survives(d, "old")
            \/ report = "killed" /\ archive = NoPair /\ Survives(d, "new")

\* The same without the temporary directory, see README.
OldSurvivesReboot ==
    report \notin {"restored", "abandoned"} =>
        \A d \in {"data", "config"} : Survives(d, "old")

\* When the command has ended with a database in place and did not say that
\* the rules could not be read or saved, every rule J-UI opened on the host is
\* a row of that database, so that a later synchronisation can close it: the
\* rules a sick backup opened are carried back by MergeFirewallRecoveryRules.
\* Only a synchronisation that ran when the command had done with its database
\* - after the clean-up before the replacement, or after the rules were read -
\* may leave a rule without a row, and only a rule that it opened.
NothingOrphaned ==
    pc = "done" /\ ~blind /\ report # "abandoned" => open \subseteq live.data.fw \cup astray

\* The same without those synchronisations, see README.
EveryRuleHasRow ==
    pc = "done" /\ ~blind /\ report # "abandoned" => open \subseteq live.data.fw

\* When the command reports that the previous data is back, no committed write
\* is missing from it.
PreviousIsWhole == report = "previous" => live.data.whole

Contract == INSTANCE RestoreContract WITH
    serving <- IF up = None THEN "none" ELSE up,
    verdict <- IF pc = "idle" THEN "idle" ELSE IF report = "none" THEN "running" ELSE report

\* The command keeps its contract: it serves only whole versions, the verdict
\* names the version that is served, and every command comes to a verdict.
KeepsContract == Contract!Spec
=============================================================================
