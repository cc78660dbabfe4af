# TLA+ models of J-UI

J-UI is a panel for a single VPS: it keeps proxy nodes in SQLite, generates
sing-box configurations from them, opens the host firewall for them, and runs
temporary exits through VPNGate servers. None of what it keeps in step has a
common commit: a row, a file, a systemd unit, a firewall rule and a network
namespace are each changed by a command of its own that may fail, and J-UI may
be killed between any two of them. That is what these modules are about.

Contents: [inventory](#inventory) · [modules](#modules-and-the-code) ·
[runs](#runs) · [fairness](#fairness) · [proofs](#proofs) ·
[known disagreements](#known-disagreements) · [limits](#what-is-not-modelled) · [plan](#plan)

## Inventory

| Component | State | Operations | Talks to |
|---|---|---|---|
| Engine (`internal/engine`) | the live configuration file, the sing-box unit | `Apply` with check, rename, reload, verify, rollback | systemd, sing-box |
| Node service (`internal/node/service.go`) | nodes, clients, outbounds, settings; one mutex | create, clone, update, delete, client and outbound changes, `reconcile`, `compensate` | database, engine, firewall, residential runtime |
| Residential runtime (`temporary_runtime.go`) | one unit and one file per residential node | apply each, prune the rest | engine |
| Landing rules (`landing*.go`) | settings | set, update from source | node service's reconcile |
| Firewall openings (`syncFirewall`, `internal/firewall`) | `managed_firewall_rules`, the host's rules | sync, clean-up | firewalld, UFW, nftables |
| Application (`internal/application`, `cmd/j-ui`) | the process, its expiry watcher | start-up, shutdown, commands | node service, VPNGate |
| VPNGate exits (`internal/vpngate/service.go`) | `vpngate_exits`, failure counters; two mutexes | create, swap, extend, delete, reconcile | netns, database |
| Network namespaces (`internal/netns`) | namespaces, veth pairs, nft tables, transient units | provision, stop, probe | ip, nft, systemd-run, OpenVPN |
| HTTP API (`internal/api`) | residential jobs, prerequisites; one settings lock | handlers, residential scripts | all services |
| Ports and prerequisites (`node/service.go`, `api/handler.go`, `cmd/j-ui`) | ports of the nodes, start port, verified domains | move all ports, next port, verify, clear, configure | node service, host sockets, Cloudflare |
| Authentication (`internal/auth`) | sessions, attempt limiter | login, logout, change password, event streams | database |
| Backup (`internal/backup`, `cmd/j-ui restore`) | archives, the two directories | create, restore by replacing directories, roll back | file system, systemd, firewall |
| SOCKS bridge, exit check, DNS dialer, monitor, subscription, config, secrets, front end, scripts | little or none | I/O, formatting | - |

`PROJECT.json` lists every component with its status, and the hazards with the
line where each bites.

What is hard here, and what correctness means for each component:

- *Engine.* systemd restarts a dying sing-box by itself, from whatever file is
  there; a reload is asynchronous; every command after the rename may fail, and
  so may the rollback. The file must always be a checked one, the answer must
  tell what is on disk, and sing-box must run that.
- *Firewall openings.* The row has to exist before the opening and to go after
  it; a borrowed administrator rule must not be closed; the shortcut that skips
  verified rules must not skip one that was never opened; a clean-up that says
  it succeeded must have closed everything. An opening takes several commands,
  and the backend is selected by probes whose failure reads "not active".
- *Node service.* An operation that fails must leave the rows, the
  configuration and the units as they were; one that succeeds must have
  deployed what the rows say. The expiry watcher works from a list it read
  without the mutex, races the start-up pass, and exists once per process.
- *VPNGate exits.* Health is probed without the mutex and acted on with it;
  tunnels outlive the process that started them; candidates are exclusive
  between exits; an expired exit must be stopped even if others cannot be.
- *Residential scripts.* One request calls three services with three mutexes
  over tables whose ids are given again, and takes back what it did when a call
  fails. The tables must agree whoever wrote last, a failed script must leave
  nothing, the last removal must take the exit along, and a job must end.
- *Ports and prerequisites.* A verification takes seconds, and what it read is
  written back afterwards; enabling a node checks one row and enables another.
  No two nodes that are on may share a port, and a domain that a running node
  depends on must not be exchanged under it.
- *Authentication.* A login is compared and recorded under different locks, side
  by side with others and with a change of the password. No guess may be free,
  no slot lost, and no session may outlive the password the panel replaced.
- *Restore.* Two directories are exchanged by four renames, each of which may
  fail or be the last thing that happens. They must never be mixed, the previous
  state must survive until a verdict, and the verdict must be true.

## Modules and the code

| Module | Models | MC module, proofs |
|---|---|---|
| `EngineApply` | `engine.System.Apply` and `rollback` with sing-box and systemd | `MCEngineApply`, `EngineApplyProofs` |
| `FirewallSync` | `syncFirewall`, `CleanupFirewall`, the rule table, `Ensure`/`Close` of the three backends | `MCFirewallSync`, `FirewallSyncProofs` |
| `NodeTransactions` | node operations, `reconcile`, `compensate`, residential runtime, expiry, start-up | `MCNodeTransactions`, `NodeTransactionsProofs` |
| `VpnGateExits` | `vpngate.Service` over `netns.Manager` by effect | `MCVpnGateExits`, `VpnGateExitsProofs` |
| `ResidentialNodes` | the API's residential scripts and their jobs, composed with the outbound, exit and node tables | `MCResidentialNodes`, `ResidentialNodesProofs` |
| `NodePorts` | node and prerequisite handlers, `SetStartPort` and the port searches, `configure-argo`, `configure-install` | `MCNodePorts`, `NodePortsProofs` |
| `AdminSessions` | `auth.Service`, the sessions table, password changes, event streams | `MCAdminSessions`, `AdminSessionsProofs` |
| `BackupRestore` | `j-ui restore` and `replaceTreeWithOps` | `MCBackupRestore`, `BackupRestoreProofs` |
| `RestoreContract` | what that command promises: the abstract specification `BackupRestore` implements | - |

Every module has the same layout: the surroundings, the helpers, one action per
step of the code, `Init`, `Next`, the fairness, and the properties, each with the
lines it is about. The `map` of `PROJECT.json` gives the lines of every
definition. The operators that stand directly before a definition with a
similar name (`TrackLater` before `TrackFirewallRule`) are faulty variants of it
and are used by no specification: substituted for it they must break a property.

**EngineApply.** `pc` is the place in `Apply`; `cand` and `prev` are its locals;
`file`, `running`, `unit` and `hup` are the host. A command's failure may come
before or after its effect. `clean` is a history variable: no earlier Apply was
cut short between its rename and its return. `of` says whether the System is the main unit's
or a residential one's (`StartIfInactive` in the code).

**FirewallSync.** `own` and `at` are the columns of `managed_firewall_rules`,
`admin` the administrator's UFW rules. A rule of J-UI's on a backend is two
things: what J-UI's own queries find (`marker`) and what is wholly in force
(`live`), because firewalld's permanent rules and its reload, and UFW's two rules,
are separate commands. `CloseOK`, `HalfClosed`, `CloseFails` and `EnsureOn` give
what `Close` and `Ensure` may leave of a rule, an interruption between two
commands included. `Selects` and `Targets` are the selection of a backend by
probes, of which a failing one reads "not active" until nftables is left;
`NothingToClose` is firewalld's `Close`, which returns nil when its query fails.
One action per firewall operation or write of `syncFirewall`. `verified` is
`Service.firewallVerified`. `Operation` is the part of a node operation that this
component sees: another set of wanted ports. Two history variables name what the
code loses track of: `cut`, the rules on which a backend's commands stopped half
way, and `misled`, those J-UI acted on after a failed probe or query, or could not
take back. The properties are about the other rules; what happens to these is under
[known disagreements](#known-disagreements).

**NodeTransactions.** Each process has its own mutex, hence one `pc` per process.
`Begin` takes the mutex and writes the row, together because they are one SQLite
statement under the mutex; `ReadRows`, `ApplyMain`, `ApplyUnit`, `Prune` and
`Save` are reconcile; `Compensate` undoes the write and reconciles again. A unit
is its file and what its process runs, and `engine.Apply` appears by what
`EngineApply` says of both: after success the candidate is in place, and it runs
unless the file was the candidate already, in which case a process that looks
healthy keeps what it has (`Succeeded`); after a rollback the earlier file is
(`Refused`); an Apply that was killed or could not roll back leaves the file and
the process at odds (`Torn`). systemd starts processes from the file that is there
(`Relaunch`), and a restart of the server stops the residential units (`StopUnits`).
`origin` and `whole` (no Apply has been torn) are history variables. Ids are handed out as SQLite does without `AUTOINCREMENT`, so a
deleted node's id comes back.

**VpnGateExits.** A slot's tunnel, its row, and the holder of `Service.mu` with
its locals (`kind`, `cur`, `tries`, `orig`). The pass of `Reconcile` first takes
its snapshot and probes without the mutex (`Snapshot`, `Probe`), then visits the
slots in order (`Expire`, `Skip`, `BeginRepair`). Every write drops the health
result of its row, which is what `exitHealthResult.matches` does. `Provision` and
`Stop` appear by their outcomes, partial clean-up included.

**ResidentialNodes.** Composes what `NodeTransactions` and `VpnGateExits` treat
apart. `outs`, `exits` and `nodes` are the three tables; `settings`, `nmu` and
`vmu` the handler's lock and the mutexes of the two services. `role` is the
script a request runs, `at` the call it is in, `loc` the ids it has read or been
given. Besides the scripts there are the other holders of the settings lock
(`RequestConfig`): `setProtocolPrerequisites` takes it before it reads the request's
body, and may therefore stay at the step `"body"`. A removal reads the node and then
the exits (`RequestRemoval`, `ReadExit`). A call is two steps: what it does on taking its mutex (`CreateExit`,
`DeleteExit`, ...) and the rest (`Connect`, `StopExit`, ...). `After` says which
call follows, and so contains the whole of the compensation. `by`, `left` and
`spoiled` are history variables: who created a row, who removed the last node of
an exit, whose compensation was refused. `same` is one too: when the removal came
to delete the node, node and exit were still on the outbound it had read
(`StillRead`). An id may have been given again by then, and of a removal that
deletes a stranger's row `LastTurnsOff` promises nothing.

**NodePorts.** `pre` is the setting `protocol_prerequisites`, `seen` the copy a
request read and will write back, `vet` the row its check was about, `saved` what
a failure puts back. A request is locked (`Lock`), checked (`SetPrerequisite`,
`CheckPrerequisite`), applied and reconciled (`Apply`, `Reconcile`). `Allotted`
is the loop of `SetStartPort` over the nodes in the order of their ids, as a
recursive function; `StartPortPacks` compares it, in every reachable table and
for every start port, with what it is to achieve. `odd` is a history variable: the
node came on otherwise than by the check of what it is. `Install` may end without
having written anything. The residential `CloneTemporary`, which puts an enabled WS
node on a port of its choice, is in `ResidentialNodes` only; here its node would be
an odd one.

**AdminSessions.** `fails`, `busy`, `active` and `sweeps` are the limiter,
`sessions` the table, `pc` the place of each login between them; `wrong` and
`panel` are history variables (all wrong passwords, the panel's latest change).

**BackupRestore.** `live`, `aside` and `left` are the directories in place, put
aside by the running replacement, and left behind; `archive` is the rollback
archive, which a reboot may empty (`Boot`). One action per rename, removal, start
and stop. Closing, reading and merging the firewall's rules open a whole application
each, whose watcher may synchronise the firewall before the application is closed
(`Watching`), and a service that ignored its stop goes on doing so (`Resync`);
`astray`, a history variable, has the rules opened that way when the command had done
with its database. The refinement mapping
takes the version the services opened to `serving` and the verdict, or how far
the command is, to `verdict`; `KeepsContract` is the contract's whole
specification, its fairness included.

## Runs

Runs that pass:

| Run | Instance | Shows |
|---|---|---|
| `engine_units` | main and residential units; 3 good configurations, two of which have the same sockets, 1 refused; kills | the live file is always checked; sing-box serves it; answers tell what is on disk; a success is served in the end |
| `firewall_failures` | 2 rules, any of the three backends, kills, every command, probe, query and write failing | no opening without a row, none unwanted after a sync, a process's first sync opens all wanted ports, clean-ups are complete; all but for rules in `misled` or `cut` |
| `firewall_switch` | 2 rules, the administrator changes between the three backends | rows and openings migrate; borrowed rows hide no rule of J-UI's; all but for rules that could not be taken back |
| `nodes_failures` | 2 ids, no expiry, failures and kills, inside an Apply too | after every operation or pass that says ok or failed, files in place and units up are what the rows say, and they are what runs until an Apply is torn; a failed one restores the rows |
| `nodes_expiry` | 2 ids, one expiry | expired nodes go; the server gets to serve |
| `exits_failures` | 1 slot, 3 candidates, both policies, failures and kills | no tunnel without a row; a running row names its tunnel |
| `exits_pair` | 2 slots, 2 candidates | no two exits on one server; lost tunnels are noticed, expired exits stopped (no clean-up fails here, see `ExitsStuck.cfg`) |
| `residential_scripts` | 3 requests, 2 of which create, 2 exits, one failure | outbounds and exits agree; failed scripts leave nothing; the last removal takes the exit along; jobs end unless they wait behind a body that never comes; stopped tunnels come back |
| `ports_requests` | 3 requests or commands out of 22, 3 ids, 4 ports of which a stranger has one, 2 domains, any failure | running nodes have the verified domain and ports of their own; moving all ports packs them; the two locks do not deadlock |
| `sessions_limits` | 2 logins at once, 2 sources in a table of 1, 2 failures allowed | the limiter's counters are exact and no guess is free; the panel's change revokes; streams end |
| `restore_faults` | every kind of backup, every fault but an ignored stop, kills anywhere, the temporary directory lost at a reboot | directories are never mixed, the previous state survives where the renames have not replaced it, no rule is orphaned but by a watcher that came too late, the contract is kept |

The bounds. Two rules, ids or slots are enough for one to be left behind, skipped
or starved while the other is worked on, and for a name to be reused; the loops
over them do not count. Three configurations are needed so that the previous,
the candidate and a third can differ, and two with the same sockets so that the
socket check cannot tell them apart. Three candidates let one exit's swap fail on one and go on to another;
with two exits, two candidates are enough for each to hold what the other wants,
the rest being freed by expiry. One unit of time separates "before the expiry"
from "after". The two-slot run grants no extensions: an exit extended between
every snapshot and its pass would have every health result discarded. `Failures`, `Crashes`, `Switches` and `Stuck` turn whole
classes of events on, so that a run says which of them its properties survive.

`nodes_failures` leaves out the expiry and a second value of the landing rules, which
with failures, kills and a file and a process for each unit are beyond the time a run
should take; `NodesSettings.cfg` checks the same properties with both, for one id,
and `nodes_expiry` the expiry for two.

In `residential_scripts` three requests are the fewest with which two overlapping
removals meet a script, or a script and an administrator's call give an id away
that a third still holds; a second failure would only spoil a compensation, which
the property exempts. In `ports_requests` two requests overlap while a third has
changed the table or the setting before them; the inputs are chosen so that every
pair of operations has a conflict over a port or a domain. A limiter table of one
source is full as soon as there is a second; its limit of two lets two logins side
by side pass it together. `restore_faults` has no counters and is complete but for
the number of edits before the command.

The deadlock check is on where the system can always go on, and in
`ports_requests`, where only the state in which all requests are served may
stand still. It is off in `residential_scripts` and `restore_faults`, whose
requests and command come to an end.

`nodes_reuse` expects a violation; see [known disagreements](#known-disagreements).

## Fairness

- `EngineApply`: a call of Apply ends, because every command runs under a
  deadline; systemd restarts the unit (`Restart=on-failure`), and sing-box
  handles a delivered SIGHUP. Nothing is assumed of `Begin`, `Die` or `Crash`.
- `NodeTransactions`: the holder of the mutex goes on, the ticker fires, systemd
  starts a stopped server; a waiting goroutine gets the mutex in the end although
  requests keep coming, since Go's `sync.Mutex` turns to first-in-first-out after
  a waiter has waited a millisecond, hence strong fairness of `Expire` and
  `StartReconcile`. No request is assumed to arrive.
- `VpnGateExits`: likewise the ticker, the probes (deadline of five seconds), the
  holder of the mutex, and strong fairness for the pass that waits for it.
  Candidates are not assumed to work, nor requests to arrive or to cease.
- `ResidentialNodes`: one weak fairness for all steps but the arrival of
  requests. Requests are finitely many and every call takes finitely many steps,
  so "something that can go on does" is enough, and less than the scheduler gives.
  It does not include `ReadBody`: the server sets no deadline for a body, only for
  headers (`main.go:76-81`).
- `AdminSessions`: a login that was begun goes on, and gets the read lock although
  writers come (`sync.RWMutex` admits waiting readers before the next writer); the
  panel's change goes on; a stream's ticker ticks.
- `BackupRestore`: the command goes on; its subprocesses and waits have deadlines.
- `NodePorts` states none: its properties are invariants.

## Proofs

Checked by TLAPS, for every value of the constants the assumptions allow.

**EngineApplyProofs** (assumes only `ConfigAssumption`: refused configurations
are configurations, `None` is not one, each has its sockets). `TypeCorrect`,
`OnlyCheckedFiles`, `ServesTheFile`, `OutcomeTellsDisk`. None of the three
properties is inductive: what is on disk when Apply returns depends on what was
there at each step. The invariant is the type, `ChecksHeld` (the candidate and
the previous file are checked ones once the check is past), `FileByStep` (which
of the two is the live file at each step) and `ServedByStep` (where sing-box is
known to serve the live file or to have a signal pending).

**FirewallSyncProofs** (assumes `FirewallAssumption`). `TypeCorrect`;
`NothingLeaks`, `NothingExtra`, `BorrowedIsOthers` and `CleanupClosesAll` under each
of two assumptions: that the backend does not change, or that nothing fails and
J-UI is not killed; `StartupRepairs` under the first. One of the two is needed (see
the known disagreements), and `StartupRepairs` is about the backend in use, which a
change in the middle of a sync replaces. Under both, failing probes and commands cut
in two included, the statements are about the rules that are neither `misled` nor
`cut`. Both invariants say that what is in force on a backend is what the queries
find there, but for rules in `cut` (`Whole`). The one for one backend (`IInv`) adds
what the rows promise of the host (`RowsTrue`: a borrowed row goes with an
administrator's rule and no rule of J-UI's), that everything J-UI was not misled
about is on one backend (`OneBackend`), and what each loop has still to visit
(`StaleLoop`, `EnsureLoop`, `CleanupLoop`). The one for changes of
backend (`SInv`) says instead that each opening is where its row says, but for the
step between `Ensure` and the record (`RowsOf`), that nothing of a rule is left
elsewhere by the time it is opened (`CurOnSeen`), and that a rule without a row at
the start of a sync owns nothing before its turn (`NewRows`), so that no migration
is missed. An operation's outcome on the host is summed up once, in `EnsureEffect`,
`CloseDone`, `CloseHalf` and `CloseFailed`.

**VpnGateExitsProofs** (assumes `ExitAssumption` and `NoExitAssumption`, any
number of slots, stuck ones included). `TypeCorrect`, `TunnelsHaveRows`,
`RowsNameTunnels`, `NoSharedCandidate`. The argument: the holder of the mutex always works on a slot
with a row (`Places`); rows of the slots a pass has still to visit stay, because
only the holder drops rows (`QueueHeld`); while candidates are being tried the
row does not say "running", and by the time it is about to say so the tunnel is
the row's or gone (`Tunnels`). `EndStep`, `GoOnStep` and `FaultedStep` state once
what a step of an operation has to establish; each action is then a few lines.
`NoSharedCandidate` assumes besides that clean-ups succeed, writes are made, and
kills and extensions do not both occur (it is false otherwise, see below). A slot
*claims* its row's candidate while its tunnel is up, it is shown as running or it is
being brought up, and, where kills leave rows half way, for as long as the pass may
still repair it; claims differ (`ClaimsDiffer`). Only an operation adds one, and the
candidates it has left to try and the one it may fall back to are nobody else's
(`TriesFree`, `OrigFree`). `StepAt` states what a step at one slot owes to all this.

**AdminSessionsProofs** (assumes `SessionAssumption` and `NoneAssumption`: finitely
many logins and sources, at least one source, limits that are numbers).
`PanelChangeRevokes`: that a session is never older than the panel's password is
not inductive, since a login inserts its session long after it compared. The
invariant adds that a login between the two holds off the writer (`Excluded`) and
matched a password at least as new as the panel's (`MatchedIsNew`).
`CountersExact`: inductive with the types of the counters; each step adds a login
to the set in flight, removes one, or leaves the set alone (`SameFlight`).
`GuessesStayBounded`: a wrong password is compared in one step and recorded in a
later one, at a later time. The invariant says that until then its login, which
still has the source's slot, makes up for it (`WrongIsCounted`, at every moment to
come), that recorded failures and slots together keep the limit (`WithinLimit`),
and that the sources with either fit the table (`TableFits`), so that
`finishAttempt` always finds room to record a failure (`RecordedIs`). The window is
the recursive function `RecentAt`; what is needed of it is proved for `Append`
(`RecentOfAppend`) and carried to all sequences by the shortest for which it would
fail (`ByAppending`).

**NodeTransactionsProofs** (assumes `NodeAssumption`; `TypeHolds` for any
processes, the others for `Procs = {Server}`). `TypeHolds`, `SettledHolds`,
`FailureRestoresHolds`, `ExpiredIsClosedHolds`. `Reversible`: from the write to
the answer, the undo record turns the rows back into those the operation found.
`Applied`: the snapshot reconcile works on is what the rows say, and the files of the
main unit and of the units it has visited are in place, the latter up exactly when
they should be. With these the first half of `Settled` is inductive
(`TransactionHolds`). The second half is an invariant of its own, for any processes
(`SoundHolds`): as long as no Apply has been torn, a process runs its file, is down, or
has none. `FailureRestores` follows from the first for every step that ends an operation.
The restriction is needed: a second process writes between a snapshot and its
application, which is what `NodesCommand.cfg` shows.

**ResidentialNodesProofs** (assumes `ResidentialAssumption`, and by
`RowsAssumption` that a row is not the absence of one; any number of requests of
every kind, any number of failures). `TablesHold`, `KindsAgreeHolds`,
`LeavesNothingHolds`, `LastTurnsOffHolds`. For the tables: which steps each
script can be at and which ids its locals hold there (`ScriptOK`, `LocalsOK`), who
holds the mutexes (`Locked`), and what a call that is under way relies on (`Held`)
although the VPNGate service writes the outbounds without the node service's
mutex: a row being checked or deleted can have become an exit's, never another
manual one. For the histories: all that a request created and has not given up is
where its locals say, or is the row that some deletion under way read (`Owns`);
and the removal that took an exit's last node is on its way to the exit
(`Leaves`). `Respects` states once what a step of one request may do to the rows
of the others; each action then has to show this and what it owes itself. The
proof attempt corrected the model twice. Two arms of `AfterRemove`'s CASE
overlapped, so that TLC's choice between them was not the formula's; and
`LastTurnsOff` was false for a number of requests beyond the run's bound, where
an id is given again between a removal's read and its deletion, hence
`StillRead`.

**NodePortsProofs** (assumes `PortsAssumption`, `StatesAssumption` and
`InputsAssumption`, which say that ports are numbers, that the markers are not
values, and that the enumerated inputs are of the right kind). `PortsHold`,
`PortsFitHolds`, `EnabledMatchesHolds`, `StartPortPacksHolds`. `Carries` says what
a request has read and checked by its step, `Relies` what of that is still so
while it holds its lock; a node that came on through the check then has the domain
its check saw. `StartPortPacks` is about a recursive function; it is proved for
the turns of its loop by the least turn at which it fails.

**BackupRestoreProofs** (assumes `BackupAssumption` and `PlacesAssumption`, with
every fault and any rules). `ShapeHolds`, `NeverMixedHolds`, `OldSurvivesHolds`,
`NothingOrphanedHolds`, `ContractSafety`. `ShapeInv` says which version each place
holds at each step of the command, and how the two directories may stand side by
side; `Extant`, where the previous state still is while the command runs, and
`AfterKill`, what is left of that once the command was killed and the host has booted,
the archive possibly lost; `Recorded`, that every open rule has its row in the database
or among the rules carried over, or is astray. `ContractSafety` is the refinement of `RestoreContract` step
by step, without its fairness, while the second stop of the services is not
ignored; with it ignored the contract is not kept (see below).

Model-checked only: all liveness properties and the whole of `KeepsContract`, whose
specification has fairness (fairness and ENABLED are out of the prover's reach),
and the deadlock check of `NodePorts`. Every invariant and every action property
that a passing run checks is a theorem; where a theorem has a hypothesis on the
constants besides the assumptions, the paragraphs above name it.

## Known disagreements

The code and a statement of the repository disagree in these. The first is a run
of `PROJECT.json`; the others have a configuration beside it, with which TLC finds
the property named violated.

| Configuration | Property | What happens |
|---|---|---|
| `NodesReuse.cfg` (run `nodes_reuse`) | `OnlyDueDeleted` | the watcher deletes a node that got the id of the expired one it had listed, and records that it had expired |
| `EngineStale.cfg` | `SuccessMeansLoaded` | killed between rename and reload, J-UI applies the same configuration again and reports success, while sing-box runs the one before |
| `NodesStale.cfg` | `SettledRunning` | the same seen from the node service: after a kill inside an Apply, the start-up reports a deployment that was "checked, restarted and passed the port health check" (`service.go:1298`, translated), while sing-box runs the one before |
| `FirewallReload.cfg` | `CrashRepaired` | killed between firewalld's permanent rule and its reload, J-UI takes the rule it finds as owned and does not reload: the port stays closed, though "A crash before or during Ensure is repaired on the next reconciliation" (`service.go:1347`) |
| `FirewallProbe.cfg` | `IntentRemovable` | a row without a backend is closed on nftables after a probe of UFW or firewalld failed, or a failed query is read as "no such rule": the row is forgotten and the opening stays, though "stale intent is removable" (`service.go:1348`) |
| `FirewallSkipped.cfg` | `OperationOpensPorts` | a row left pending by a failed `Ensure` and a failed compensation makes the retry skip the rule and report success with the port closed |
| `NodesCommand.cfg` | `ExpiredIsClosed` | the watcher of a command expires a node that the server then deploys again |
| `ExitsStuck.cfg` | `ExpiredStops` | one exit whose clean-up keeps failing keeps all later ones from being expired |
| `SessionsCommand.cfg` | `CommandRevokes` | a login in flight while a command replaces the password keeps the session it made with the old one, though `ChangeAdministrator` says "the previous credentials stop working immediately" |
| `ResidentialStall.cfg` | `EveryJobEnds` | an accepted job stays "running" behind a client that sent the header of a change of prerequisites and not its body: the lock is taken before the body is read (`handler.go:709-713`), and bodies have no deadline |
| `RestoreReboot.cfg` | `OldSurvivesReboot` | the rollback archive is in the system's temporary directory (`main.go:274`): killed after the previous directories were dropped, and rebooted with that directory emptied, the host has no copy of the previous state, which nothing has proved dispensable yet |
| `RestoreWatch.cfg` | `EveryRuleHasRow` | the application that the clean-up opens runs its watcher (`main.go:1019-1076`, `application.go:425-478`), which may open the ports again after they were closed and before the database is replaced |
| `RestoreWal.cfg` | `PreviousIsWhole` | after an unclean stop the write-ahead log is not part of the rollback archive, so the state that is put back may lack committed writes |

In `restore`, further: the outcome of the second `systemctl stop` is ignored, so
the backup's services may still run when the command reports that the way back
failed; the rollback archive is deleted even then; and an installation with a
REALITY node whose handshake server was left out by an update makes an archive
that is refused when it is needed.

More is known of the models and has no run, because each case needs a
rare sequence and is best fixed rather than watched. A row without a backend is
closed on the backend that is active then, so a kill before the backend is
recorded followed by a change of backend leaves an opening without a row (this is
why the firewall's theorems assume one backend, or no failure and no kill). When the
backend that `Ensure` selected is switched off before the opening is taken back, that
`Close` fails, its result is ignored, and the row does not say where the opening is
(`service.go:1352`; such a rule is `misled`). An exit
extended after it was marked expired is restored by no pass. Such an exit, swapped and interrupted by a
kill, comes back on the server that another exit has taken since (this is why
`DistinctTunnels` is checked and proved only where kills and extensions do not both
occur).

Hazards that no property covers, beside those above: `systemctl stop` ignored in
the rollback of a residential unit (`engine.go:203`); an administrator's rule that
vanishes under a borrowed row (`node/service.go:1327`); a row that can never be
applied, or an exit that cannot be cleaned up, which end every start-up
(`application.go:454`, `:449`), and likewise a WS node for which no Cloudflare port
is left (`:439`); the next port that `SetStartPort` reports, which is the start port
plus the number of nodes (`node/service.go:253`); health failures that survive a
swap, and a block recorded over a failed clean-up (`vpngate/service.go:538`,
`:738`); an exit without an id returned after its state could not be written, which
a script cannot take back (`:319`); ids that were given again between a removal's
read and its deletions (`api/handler.go:1408`); a node that cannot be put back
because its outbound went meanwhile (`store.go:1178`); the re-verification of a
Tunnel whose origin port the running node itself holds (`api/handler.go:926`);
`configure-argo`, `configure-install` and `backup`, which take no lock against the
panel or a restore (`main.go:476`, `:823`, `:218`); and a second `restore` after a
kill between the renames, which cannot make its archive (`main.go:292`).

## What is not modelled

Formatting and parsing (configuration generation, subscriptions, catalog, rule
sources), encryption, monitoring, the front end and the scripts. Each module's
head comment names its simplifications; the ones that matter most:

- `reconcile` reads rows and settings at one instant, and a node's contents are
  one value: two columns of a node never disagree in the models.
- The administrator's firewall rules do not change.
- The contents of an outbound row are who wrote it: the health and credentials that
  `CheckOutbound` may write over a VPNGate row are not told apart.
- Where `ResidentialNodes`, `NodePorts` and `BackupRestore` use a component that
  has a module, they use what its properties say of it.
- Commands of the shell that read only, and a backup taken while a restore runs.
- Failures are transient: no row is one that sing-box refuses for ever.
- The start-up's one-time migration of VLESS-WS ports is left out.

## Plan

The mapped definitions stand for about 4600 of the 15400 lines of Go outside the
tests. The largest parts still without a model are the namespaces' commands, the
firewall's management rules, configuration generation, subscriptions and
monitoring, of which the last three keep no state. In this order:

1. An abstract specification that `VpnGateExits` and the exits of `ResidentialNodes`
   both refine, so that what the one takes of the other is checked.
2. `NodeTransactions`: an abstract specification in which an operation is atomic
   (rows and deployment change together or not at all, or the outcome says
   "incomplete"), refined by it: `Reversible` and `Applied` are its refinement mapping.
3. `netns.Manager`: `Provision` and `Stop` command by command, with the
   "blocked when the tunnel fails" property of the namespace's firewall.
4. Host firewall management rules and the saved nft state; changes of the
   administrator's rules in `FirewallSync`.
5. The SOCKS bridge's limiter and the retention of configuration versions.
