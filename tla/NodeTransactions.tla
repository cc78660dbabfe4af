-------------------------- MODULE NodeTransactions --------------------------
(***************************************************************************)
(* node.Service: every change of the nodes is a transaction over three     *)
(* stores that have no common commit - the SQLite rows, the main sing-box  *)
(* configuration and one sing-box unit per residential node.               *)
(*                                                                         *)
(* An operation takes the service's mutex, writes its rows, and runs       *)
(* reconcile, which regenerates and applies everything from the rows; when *)
(* that fails it undoes the write and reconciles once more.  The expiry    *)
(* watcher and the start-up pass delete expired nodes by the same          *)
(* operation, from a list they read without the mutex.  Every j-ui command *)
(* opens a second application with a watcher and a mutex of its own.       *)
(*                                                                         *)
(* Simplifications:                                                        *)
(*  - rev stands for all of a node's contents, its clients included, and   *)
(*    the landing rules and the outbounds are one value each;              *)
(*  - engine.Apply is one step, taken at what EngineApply shows of it.  A  *)
(*    reload that Apply has seen through counts as loaded, although        *)
(*    sing-box handles the signal a moment later; and a kill falls         *)
(*    anywhere inside it;                                                  *)
(*  - the firewall sync, which FirewallSync models, is a step of reconcile *)
(*    that may fail;                                                       *)
(*  - reconcile reads rows, clients and settings at one instant;           *)
(*  - a request refused by validation changes nothing and is left out;     *)
(*  - of the start-up, the one-time migration of old VLESS-WS ports is left *)
(*    out, and so is the pass over the VPNGate exits, which VpnGateExits   *)
(*    models.                                                              *)
(***************************************************************************)
EXTENDS Naturals

CONSTANTS
    MaxId,      \* bound on node ids
    Revs,       \* contents a node may have
    Landings,   \* values of the landing rules
    Outbounds,  \* values of the outbounds
    MaxTime,    \* bound on the clock
    Procs,      \* processes with the application open
    Server,     \* the one that serves the API
    NoNode,     \* no row / no unit
    Never,      \* no expiry
    Failures,   \* may a write or a command fail?
    Crashes     \* may the server be killed?

Ids == 1..MaxId
Expiries == (1..MaxTime) \cup {Never}

\* res: the node carries a temporary source and runs in a unit of its own.
Nodes == [res : BOOLEAN, exp : Expiries, on : BOOLEAN, rev : Revs]
WellFormed == {n \in Nodes : ~n.res => n.exp = Never}
Rows == [Ids -> Nodes \cup {NoNode}]
Settings == [landing : Landings, outbounds : Outbounds]

ASSUME NodeAssumption ==
    /\ MaxId \in Nat \ {0}
    /\ MaxTime \in Nat
    /\ Server \in Procs
    /\ NoNode \notin Nodes \cup (Revs \X Outbounds) \cup Revs
    /\ NoNode \notin Settings \X [Ids -> Revs \cup {NoNode}]
    /\ Never \notin Nat
    /\ Landings # {}
    /\ Outbounds # {}
    /\ Failures \in BOOLEAN
    /\ Crashes \in BOOLEAN

VARIABLES
    clock,    \* time, in units of an expiry
    rows,     \* the nodes table
    setting,  \* the settings the main configuration depends on
    main,     \* the main sing-box unit
    units,    \* the residential units
    whole,    \* no Apply has been torn so far (history)
    stage,    \* of the server: "down", "expiring", "reconciling", "up"
    listed,   \* ids an expiry pass has still to delete, per process and pass
    pc,       \* where the holder of each process's mutex is, "free" without one
    who,      \* what holds it: "api", "watch" or "boot"
    undo,     \* the write that a failure takes back
    phase,    \* "do", or "undo" once the write is being taken back
    spoiled,  \* taking it back has failed
    snap,     \* the rows and settings that reconcile read
    left,     \* residential nodes it has still to apply
    origin,   \* rows and settings when the operation began (history)
    last      \* how the last operation ended

store == <<rows, setting>>
deployed == <<main, units, whole>>
passes == <<stage, listed>>
job == <<who, undo, phase, spoiled, snap, left, origin>>
vars == <<clock, store, deployed, passes, job, pc, last>>

Used == {i \in Ids : rows[i] # NoNode}
Due(i) == rows[i] # NoNode /\ rows[i].res /\ rows[i].exp # Never /\ rows[i].exp <= clock
DueNodes == {i \in Ids : Due(i)}

\* An id that SQLite may give: INTEGER PRIMARY KEY without AUTOINCREMENT takes
\* the largest one in the table plus one, a deleted node's id included.
FreshIds == {i \in Ids : (\A j \in Used : j < i) /\ (i = 1 \/ i - 1 \in Used)}

\* Nodes are listed and visited in the order of their ids.
AnyOrder(ids) == ids
First(ids) == {i \in ids : \A j \in ids : i <= j}

Served(r, i, res) == r[i] # NoNode /\ r[i].on /\ r[i].res = res

\* What reconcile generates from rows r and settings s.
MainOf(r, s) == <<s, [i \in Ids |-> IF Served(r, i, FALSE) THEN r[i].rev ELSE NoNode]>>
UnitsSwapped(r, s) == [i \in Ids |-> IF Served(r, i, TRUE) THEN <<s.outbounds, r[i].rev>> ELSE NoNode]
UnitsOf(r, s) == [i \in Ids |-> IF Served(r, i, TRUE) THEN <<r[i].rev, s.outbounds>> ELSE NoNode]
UnitIn(p, i) == UnitsOf(snap[p][1], snap[p][2])[i]
MainIn(p) == MainOf(snap[p][1], snap[p][2])

\* A sing-box unit: the configuration file in its place and the configuration
\* that its process runs, NoNode for none.
Unit(file, run) == [file |-> file, run |-> run]
Loaded(c) == Unit(c, c)

\* engine.Apply of configuration c returns without error.  A file that holds c
\* already is loaded again only if the unit does not look healthy.
Succeeded(u, c) ==
    {Loaded(c)} \cup {v \in {u} : u.file = c /\ u.run # NoNode}

\* Apply returns an error, without the rename or with the rename taken back.
\* The rollback of a unit that had no file does not look whether it stopped.
Refused(u, c) ==
    {u, Loaded(u.file)} \cup {v \in {Unit(NoNode, c)} : u.file = NoNode}

\* Apply ends after the rename and before it is through: a kill, or a rollback
\* that fails.
Torn(u, c) == {Unit(f, r) : f \in {u.file, c}, r \in {u.run, u.file, c}}

\* stop, of a unit that goes away: stopped, and then its file removed.
Stopping(u) == {u, Unit(u.file, NoNode)}

\* An undo record: what the write replaced.
Undo(kind, i, n) == [kind |-> kind, id |-> i, node |-> n, setting |-> setting]

\* The locals of a process that holds no operation, and the undo record of a
\* reconcile that nothing was written for.
Blank == <<[i \in Ids |-> NoNode], CHOOSE s \in Settings : TRUE>>
Nothing == [kind |-> "nothing", id |-> 1, node |-> NoNode, setting |-> Blank[2]]

----------------------------------------------------------------------------
(* Taking the mutex and writing.                                           *)

Begin(p, w, u) ==
    /\ pc[p] = "free"
    /\ pc' = [pc EXCEPT ![p] = "read"]
    /\ who' = [who EXCEPT ![p] = w]
    /\ undo' = [undo EXCEPT ![p] = u]
    /\ phase' = [phase EXCEPT ![p] = "do"]
    /\ spoiled' = [spoiled EXCEPT ![p] = FALSE]
    /\ origin' = [origin EXCEPT ![p] = <<rows, setting>>]
    /\ last' = "none"
    /\ UNCHANGED <<clock, deployed, snap, left>>

SetRow(i, n) == rows' = [rows EXCEPT ![i] = n] /\ UNCHANGED setting

Insert(n) ==
    /\ stage = "up"
    /\ \E i \in FreshIds :
        /\ Begin(Server, "api", Undo("created", i, NoNode))
        /\ SetRow(i, n)
    /\ UNCHANGED passes

Create == \E n \in Nodes : ~n.res /\ n.exp = Never /\ Insert(n)

\* A copy is disabled and keeps the temporary source and expiry, if any.
Clone == \E i \in Used : Insert([rows[i] EXCEPT !.on = FALSE])

\* A residential node; its expiry, if it has one, is in the future.
CloneTemporary ==
    \E n \in Nodes :
        /\ n.res /\ n.on
        /\ n.exp # Never => n.exp > clock
        /\ Insert(n)

\* Update and SetEnabled.  An update posts the node's settings back, with or
\* without the temporary source and expiry.
Update ==
    /\ stage = "up"
    /\ \E i \in Used, on \in BOOLEAN, rev \in Revs, keep \in BOOLEAN :
        /\ Begin(Server, "api", Undo("updated", i, rows[i]))
        /\ SetRow(i, [res |-> keep /\ rows[i].res,
                      exp |-> IF keep THEN rows[i].exp ELSE Never,
                      on |-> on, rev |-> rev])
    /\ UNCHANGED passes

\* AddClient, UpdateClient and DeleteClient.
ChangeClients ==
    /\ stage = "up"
    /\ \E i \in Used, rev \in Revs :
        /\ Begin(Server, "api", Undo("updated", i, rows[i]))
        /\ SetRow(i, [rows[i] EXCEPT !.rev = rev])
    /\ UNCHANGED passes

\* SetLanding, SetLandingRules and UpdateLandingRuleSource.
ChangeLanding ==
    /\ stage = "up"
    /\ Begin(Server, "api", Undo("settings", 1, NoNode))
    /\ \E l \in Landings : setting' = [setting EXCEPT !.landing = l]
    /\ UNCHANGED <<rows, passes>>

\* CreateOutbound, UpdateOutbound and DeleteOutbound.
ChangeOutbounds ==
    /\ stage = "up"
    /\ Begin(Server, "api", Undo("settings", 1, NoNode))
    /\ \E o \in Outbounds : setting' = [setting EXCEPT !.outbounds = o]
    /\ UNCHANGED <<rows, passes>>

Delete(p, w, i) ==
    /\ rows[i] # NoNode
    /\ Begin(p, w, Undo("deleted", i, rows[i]))
    /\ SetRow(i, NoNode)

DeleteNode ==
    /\ stage = "up"
    /\ \E i \in Used : Delete(Server, "api", i)
    /\ UNCHANGED passes

----------------------------------------------------------------------------
(* reconcile.                                                              *)

\* The mutex is released.
Release(p) ==
    /\ pc' = [pc EXCEPT ![p] = "free"]
    /\ who' = [who EXCEPT ![p] = "api"]
    /\ undo' = [undo EXCEPT ![p] = Nothing]
    /\ phase' = [phase EXCEPT ![p] = "do"]
    /\ spoiled' = [spoiled EXCEPT ![p] = FALSE]
    /\ snap' = [snap EXCEPT ![p] = Blank]
    /\ left' = [left EXCEPT ![p] = {}]
    /\ origin' = [origin EXCEPT ![p] = Blank]

\* The process ends: nothing of what it was doing survives.
Exit ==
    /\ stage' = "down"
    /\ listed' = [listed EXCEPT ![Server] = [w \in {"watch", "boot"} |-> {}]]
    /\ Release(Server)
    /\ last' = "none"

\* The API is served once the start-up's own reconcile is through.
StageAgain(p) == IF who[p] = "boot" /\ stage = "reconciling" THEN "expiring" ELSE stage
StageAfter(p) == IF who[p] = "boot" /\ stage = "reconciling" THEN "up" ELSE stage

\* An operation that ends without error or with one: an expiry pass goes on
\* after the first and returns after the second, and a start-up that meets an
\* error ends the process.
Finish(p, outcome) ==
    \/ /\ ~(who[p] = "boot" /\ outcome # "ok")
       /\ Release(p)
       /\ last' = outcome
       /\ listed' = IF who[p] = "api" THEN listed
                    ELSE [listed EXCEPT ![p][who[p]] =
                            IF outcome = "ok" THEN @ \ {undo[p].id} ELSE {}]
       /\ stage' = StageAfter(p)
    \/ who[p] = "boot" /\ outcome # "ok" /\ Exit

\* An error of reconcile: the write is undone, once.
Fail(p) ==
    \/ /\ phase[p] = "do" /\ undo[p].kind # "nothing"
       /\ pc' = [pc EXCEPT ![p] = "undo"]
       /\ UNCHANGED <<passes, job, last>>
    \/ phase[p] = "undo" /\ Finish(p, "incomplete")
    \/ undo[p].kind = "nothing" /\ Finish(p, "failed")

Goto(p, step) ==
    pc' = [pc EXCEPT ![p] = step] /\ UNCHANGED <<passes, who, undo, phase, spoiled, origin, last>>

ReadRows(p) ==
    /\ pc[p] = "read"
    /\ \/ /\ snap' = [snap EXCEPT ![p] = <<rows, setting>>]
          /\ left' = [left EXCEPT ![p] = {i \in Ids : Served(rows, i, TRUE)}]
          /\ Goto(p, "main")
       \/ Failures /\ Fail(p)
    /\ UNCHANGED <<clock, store, deployed>>

\* The firewall, the generation, and Apply of the main configuration.
ApplyMain(p) ==
    /\ pc[p] = "main"
    /\ \/ /\ main' \in Succeeded(main, MainIn(p))
          /\ Goto(p, "units")
          /\ UNCHANGED <<snap, left, whole>>
       \/ /\ Failures
          /\ \/ main' \in Refused(main, MainIn(p)) /\ UNCHANGED whole
             \/ main' \in Torn(main, MainIn(p)) /\ whole' = FALSE
          /\ Fail(p)
    /\ UNCHANGED <<clock, store, units>>

\* Apply of one residential unit.
ApplyUnit(p) ==
    /\ pc[p] = "units"
    /\ \E i \in First(left[p]) :
        \/ /\ \E u \in Succeeded(units[i], UnitIn(p, i)) : units' = [units EXCEPT ![i] = u]
           /\ left' = [left EXCEPT ![p] = @ \ {i}]
           /\ Goto(p, "units")
           /\ UNCHANGED <<snap, whole>>
        \/ /\ Failures
           /\ \/ /\ \E u \in Refused(units[i], UnitIn(p, i)) : units' = [units EXCEPT ![i] = u]
                 /\ UNCHANGED whole
              \/ /\ \E u \in Torn(units[i], UnitIn(p, i)) : units' = [units EXCEPT ![i] = u]
                 /\ whole' = FALSE
           /\ Fail(p)
    /\ UNCHANGED <<clock, store, main>>

\* prune: units that systemd has and that belong to nodes that are gone, off,
\* or no longer residential.
SuperfluousGone(p) == {i \in Ids : units[i].run # NoNode /\ snap[p][1][i] = NoNode}
Superfluous(p) == {i \in Ids : units[i].run # NoNode /\ UnitIn(p, i) = NoNode}

Prune(p) ==
    /\ pc[p] = "units" /\ left[p] = {}
    /\ \E i \in Superfluous(p) :
        \/ /\ units' = [units EXCEPT ![i] = Loaded(NoNode)]
           /\ Goto(p, "units")
           /\ UNCHANGED <<snap, left>>
        \/ /\ Failures
           /\ \E u \in Stopping(units[i]) : units' = [units EXCEPT ![i] = u]
           /\ Fail(p)
    /\ UNCHANGED <<clock, store, main, whole>>

Ending(p) == IF phase[p] = "do" THEN "ok" ELSE IF spoiled[p] THEN "incomplete" ELSE "failed"

\* SaveConfigVersion is the last thing that can fail.
Save(p) ==
    /\ pc[p] = "units" /\ left[p] = {} /\ Superfluous(p) = {}
    /\ Finish(p, Ending(p)) \/ (Failures /\ Fail(p))
    /\ UNCHANGED <<clock, store, deployed>>

----------------------------------------------------------------------------
(* compensate.                                                             *)

\* The undoing statement finds the row it expects: DELETE and UPDATE need it
\* to be there, the INSERT of a deleted node needs its id to be free.
CanUndo(u) ==
    CASE u.kind \in {"created", "updated"} -> rows[u.id] # NoNode
      [] u.kind = "deleted" -> rows[u.id] = NoNode
      [] OTHER -> TRUE

TakenBackUpdate(u) == IF u.kind = "updated" THEN [rows EXCEPT ![u.id] = u.node] ELSE rows
TakenBack(u) == IF u.kind = "settings" THEN rows ELSE [rows EXCEPT ![u.id] = u.node]

\* The rows are put back, and reconcile runs whether or not that worked.
Compensate(p) ==
    /\ pc[p] = "undo"
    /\ \/ /\ CanUndo(undo[p])
          /\ rows' = TakenBack(undo[p])
          /\ setting' = IF undo[p].kind = "settings" THEN undo[p].setting ELSE setting
          /\ UNCHANGED spoiled
       \/ /\ Failures \/ ~CanUndo(undo[p])
          /\ spoiled' = [spoiled EXCEPT ![p] = TRUE]
          /\ UNCHANGED store
    /\ phase' = [phase EXCEPT ![p] = "undo"]
    /\ pc' = [pc EXCEPT ![p] = "read"]
    /\ UNCHANGED <<clock, deployed, passes, who, undo, snap, left, origin, last>>

----------------------------------------------------------------------------
(* Expiry passes, start-up and shutdown.                                   *)

Alive(p) == p # Server \/ stage # "down"

\* The watcher's tick: ExpireTemporary lists the nodes without the mutex.
Tick(p) ==
    /\ Alive(p)
    /\ listed[p]["watch"] = {} /\ ~(pc[p] # "free" /\ who[p] = "watch")
    /\ DueNodes # {}
    /\ listed' = [listed EXCEPT ![p]["watch"] = DueNodes]
    /\ UNCHANGED <<clock, store, deployed, stage, job, pc, last>>

\* Delete of a listed id, which may by now be gone: then the pass returns.
Expire(p, w) ==
    /\ w = "boot" => (p = Server /\ stage = "expiring")
    /\ \E i \in First(listed[p][w]) :
        \/ Delete(p, w, i) /\ UNCHANGED passes
        \/ /\ rows[i] = NoNode /\ pc[p] = "free"
           /\ IF w = "boot" THEN Exit
              ELSE /\ listed' = [listed EXCEPT ![p][w] = {}]
                   /\ UNCHANGED <<stage, job, pc, last>>
           /\ UNCHANGED <<clock, store, deployed>>

\* Application.Reconcile, first part; its watcher has been started before.
Start ==
    /\ stage = "down"
    /\ stage' = "expiring"
    /\ listed' = [listed EXCEPT ![Server]["boot"] = DueNodes]
    /\ UNCHANGED <<clock, store, deployed, job, pc, last>>

\* ... and Nodes.Reconcile, when no expired node is left to delete.
StartReconcile ==
    /\ stage = "expiring" /\ listed[Server]["boot"] = {}
    /\ ~(pc[Server] # "free" /\ who[Server] = "boot")
    /\ Begin(Server, "boot", Nothing)
    /\ stage' = "reconciling"
    /\ UNCHANGED <<store, listed>>

\* What a kill of process p leaves of the Apply or the stop it was in.
CutShort(p) ==
    \/ UNCHANGED deployed
    \/ /\ pc[p] = "main" /\ main' \in Torn(main, MainIn(p))
       /\ whole' = FALSE
       /\ UNCHANGED units
    \/ /\ pc[p] = "units"
       /\ \E i \in First(left[p]) : \E u \in Torn(units[i], UnitIn(p, i)) :
            units' = [units EXCEPT ![i] = u]
       /\ whole' = FALSE
       /\ UNCHANGED main
    \/ /\ pc[p] = "units" /\ left[p] = {}
       /\ \E i \in Superfluous(p) : \E u \in Stopping(units[i]) :
            units' = [units EXCEPT ![i] = u]
       /\ UNCHANGED <<main, whole>>

\* Killed, or restarted by systemd: the process does not wait for requests.
Crash ==
    /\ Crashes
    /\ CutShort(Server)
    /\ Exit
    /\ UNCHANGED <<clock, store>>

\* A sing-box process that exits is launched again by systemd, and loads the
\* file that is in place.
Relaunch ==
    /\ \/ /\ main.run # main.file
          /\ main' = Loaded(main.file)
          /\ UNCHANGED units
       \/ /\ \E i \in Ids :
                /\ units[i].run \notin {NoNode, units[i].file}
                /\ units' = [units EXCEPT ![i] = Loaded(units[i].file)]
          /\ UNCHANGED main
    /\ UNCHANGED <<clock, store, whole, passes, job, pc, last>>

\* The residential units stop with the server (PartOf=j-ui.service), and are
\* started but never enabled: none is up after a reboot.
StopUnits ==
    /\ stage = "down" /\ pc[Server] = "free"
    /\ \E i \in Ids : units[i].run # NoNode
    /\ units' = [i \in Ids |-> Unit(units[i].file, NoNode)]
    /\ last' = "none"
    /\ UNCHANGED <<clock, store, main, whole, passes, job, pc>>

Elapse ==
    /\ clock < MaxTime
    /\ clock' = clock + 1
    /\ UNCHANGED <<store, deployed, passes, job, pc, last>>

\* The server was stopped earlier, with any nodes; time may pass meanwhile.
Init ==
    /\ clock = 0
    /\ rows \in [Ids -> WellFormed \cup {NoNode}]
    /\ setting \in Settings
    /\ main = Loaded(MainOf(rows, setting))
    /\ units = [i \in Ids |-> Loaded(UnitsOf(rows, setting)[i])]
    /\ whole = TRUE
    /\ stage = "down"
    /\ listed = [p \in Procs |-> [w \in {"watch", "boot"} |-> {}]]
    /\ pc = [p \in Procs |-> "free"]
    /\ who = [p \in Procs |-> "api"]
    /\ undo = [p \in Procs |-> Nothing]
    /\ phase = [p \in Procs |-> "do"]
    /\ spoiled = [p \in Procs |-> FALSE]
    /\ snap = [p \in Procs |-> Blank]
    /\ left = [p \in Procs |-> {}]
    /\ origin = [p \in Procs |-> Blank]
    /\ last = "none"

Reconcile(p) == ReadRows(p) \/ ApplyMain(p) \/ ApplyUnit(p) \/ Prune(p) \/ Save(p)

Next ==
    \/ Create \/ Clone \/ CloneTemporary \/ Update \/ DeleteNode
    \/ ChangeClients \/ ChangeLanding \/ ChangeOutbounds
    \/ \E p \in Procs : Reconcile(p) \/ Compensate(p) \/ Tick(p)
    \/ \E p \in Procs, w \in {"watch", "boot"} : Expire(p, w)
    \/ Start \/ StartReconcile \/ Crash \/ Relaunch \/ StopUnits \/ Elapse

Spec == Init /\ [][Next]_vars

\* The holder of the mutex goes on (its commands have deadlines); systemd
\* starts a server that is down; the ticker fires; and a waiter gets the mutex
\* in the end, however many requests compete for it (sync.Mutex hands it over
\* to one that has starved).
Fairness ==
    /\ \A p \in Procs : WF_vars(Reconcile(p)) /\ WF_vars(Compensate(p)) /\ WF_vars(Tick(p))
    /\ \A p \in Procs, w \in {"watch", "boot"} : SF_vars(Expire(p, w))
    /\ WF_vars(Start) /\ SF_vars(StartReconcile)

FairSpec == Spec /\ Fairness

----------------------------------------------------------------------------

Kinds == {"nothing", "created", "updated", "deleted", "settings"}

UnitsWith(configs) == [file : configs, run : configs]

TypeOK ==
    /\ clock \in 0..MaxTime
    /\ rows \in Rows
    /\ setting \in Settings
    /\ main \in UnitsWith(Settings \X [Ids -> Revs \cup {NoNode}])
    /\ units \in [Ids -> UnitsWith((Revs \X Outbounds) \cup {NoNode})]
    /\ whole \in BOOLEAN
    /\ stage \in {"down", "expiring", "reconciling", "up"}
    /\ listed \in [Procs -> [{"watch", "boot"} -> SUBSET Ids]]
    /\ pc \in [Procs -> {"free", "read", "main", "units", "undo"}]
    /\ who \in [Procs -> {"api", "watch", "boot"}]
    /\ undo \in [Procs -> [kind : Kinds, id : Ids, node : Nodes \cup {NoNode}, setting : Settings]]
    /\ phase \in [Procs -> {"do", "undo"}]
    /\ spoiled \in [Procs -> BOOLEAN]
    /\ snap \in [Procs -> Rows \X Settings]
    /\ left \in [Procs -> SUBSET Ids]
    /\ origin \in [Procs -> Rows \X Settings]
    /\ last \in {"none", "ok", "failed", "incomplete"}

Quiet == \A p \in Procs : pc[p] = "free"

\* Whenever no operation is in progress and the last one either succeeded or
\* failed with its compensation complete, what the rows say is in place,
\* whatever kills and failed rollbacks came before (service.go:1213-1300 and
\* 561-579): each unit has exactly the file generated from them, every enabled
\* residential node has its unit up, and no other residential unit is.  The
\* processes run those files too, as long as no Apply has been torn: after
\* that, one that looks healthy may run an earlier file for good, because
\* Apply does not load again a file that equals the candidate
\* (engine.go:104-107; SettledRunning and EngineApply.SuccessMeansLoaded).
InPlace ==
    /\ main.file = MainOf(rows, setting)
    /\ \A i \in Ids :
        IF Served(rows, i, TRUE)
        THEN units[i].file = UnitsOf(rows, setting)[i] /\ units[i].run # NoNode
        ELSE units[i].run = NoNode

InForce ==
    /\ main.run = main.file
    /\ \A i \in Ids : units[i].run \in {NoNode, units[i].file}

Settled ==
    (Quiet /\ last \in {"ok", "failed"}) => (InPlace /\ (whole => InForce))

\* The same without the proviso: that the deployment whose success an operation
\* reports is the one that runs, "checked, restarted and passed the port health
\* check" (service.go:1298).
SettledRunning ==
    (Quiet /\ last = "ok") => InForce

\* An operation that fails without "rollback_incomplete" leaves the rows as it
\* found them (service.go:561-579; README: the database state is restored).
FailureRestores ==
    [][\A p \in Procs :
        (pc[p] # "free" /\ pc'[p] = "free" /\ last' = "failed" /\ undo[p].kind # "nothing")
            => <<rows', setting'>> = origin[p]]_vars

\* No residential unit goes on listening for a node that is not there, once an
\* expiry has been reported: "deleted, and its listening port closed"
\* (service.go:962).
ExpiredIsClosed ==
    (Quiet /\ last = "ok") => \A i \in Ids : rows[i] = NoNode => units[i].run = NoNode

\* An expiry pass only deletes nodes whose time is up (service.go:955, 962).
OnlyDueDeleted ==
    [][\A p \in Procs :
        (pc[p] = "free" /\ pc'[p] # "free" /\ who'[p] # "api" /\ undo'[p].kind = "deleted")
            => Due(undo'[p].id)]_vars

\* A node whose time is up goes away, whatever requests keep arriving.
ExpiredGoes == \A i \in Ids : Due(i) ~> ~Due(i)

\* A server that starts gets to serve, although the start-up pass and the
\* watcher both delete the expired nodes and the loser of that race ends the
\* process.
StartCompletes == (stage = "down") ~> (stage = "up")

=============================================================================
