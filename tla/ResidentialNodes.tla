-------------------------- MODULE ResidentialNodes --------------------------
(***************************************************************************)
(* Residential nodes: one request of the panel that is a script over three *)
(* services, each with tables and a mutex of its own.                      *)
(*                                                                         *)
(*   a VPNGate job:     find or create an exit, clone a node onto it, URI  *)
(*   a manual request:  create an outbound, check it, clone a node, URI    *)
(*   a removal:         delete the node, and what it was the last to use   *)
(*                                                                         *)
(* A script that fails deletes what it had created, ignoring the errors of *)
(* those deletions.  Beside the scripts an administrator calls the same    *)
(* services one by one.  The scripts that create hold the handler's        *)
(* settings lock, removals and single calls do not; the node service and   *)
(* the VPNGate service lock only themselves and share the outbounds table. *)
(* The settings lock has other holders: createNode, updateNode and         *)
(* setNodeEnabled for as long as the node service takes, and               *)
(* setProtocolPrerequisites, which takes it before it has read the body of *)
(* its request, for as long as the client takes to send it.                *)
(* Rows go by id, and SQLite gives the largest id plus one: the id of a    *)
(* row that was deleted is given again.                                    *)
(*                                                                         *)
(* Simplifications:                                                        *)
(*  - a call is two steps, between which every other request runs: what it *)
(*    does on taking its mutex, and the rest;                              *)
(*  - a row's contents are the request that created it;                    *)
(*  - the node every script copies stays, and a request that is refused by *)
(*    validation, a prerequisite or a missing candidate is refused without *)
(*    a reason;                                                            *)
(*  - reconcile, the tunnel and the rest of an exit's life are taken at    *)
(*    what NodeTransactions and VpnGateExits say of them, and what the     *)
(*    lock's other holders write at what NodePorts says.                   *)
(***************************************************************************)
EXTENDS Naturals, FiniteSets

CONSTANTS
    N,          \* number of requests, which are named in the order they arrive
    Before,     \* whoever created the rows of the initial state
    None,       \* no row, no holder
    MaxExits,   \* the limit on VPNGate exits
    MaxScripts, \* bound on the requests that create
    MaxFaults   \* bound on writes, commands and reconciles that fail

ASSUME ResidentialAssumption ==
    /\ N \in Nat \ {0}
    /\ Before \notin 1..N
    /\ None \notin (1..N) \cup {Before}
    /\ MaxExits \in Nat \ {0}
    /\ MaxScripts \in Nat
    /\ MaxFaults \in Nat

Requests == 1..N

\* Every request adds at most one row to a table, which starts with two.
Ids == 1..(2 + N)
Owners == Requests \cup {Before}
Sources == {"vpngate", "manual"}
OutRows == [kind : Sources, by : Owners]
ExitRows == [out : Ids, by : Owners, running : BOOLEAN, up : BOOLEAN, left : Owners \cup {None}]
NodeRows == [out : Ids, source : Sources, by : Owners]

ASSUME RowsAssumption == None \notin OutRows \cup ExitRows \cup NodeRows

\* The roles of a request: the scripts, the single calls, and "config": the
\* other holders of the settings lock.
Scripts == {"job", "manual", "remove"}
Calls == {"vnew", "vdel", "onew", "odel", "ocheck", "clone", "ndel"}
Singles == {"vnew", "vdel", "odel", "ocheck", "ndel"}

VARIABLES
    outs,      \* the outbounds table
    exits,     \* the vpngate_exits table; up: its tunnel, left: who last
               \* deleted a node of it (history)
    nodes,     \* the residential nodes
    settings,  \* holder of the handler's settings lock
    nmu,       \* holder of the node service's mutex
    vmu,       \* holder of the VPNGate service's mutex
    role,      \* what each request does
    at,        \* the call or the step of the script it is in
    busy,      \* it has taken the call's mutex
    loc,       \* its locals: ids of what it works on
    saved,     \* the row its current call read or deleted
    jobs,      \* status of each job in the job table
    spoiled,   \* requests a failure left something of behind (history)
    faults     \* failures so far

tables == <<outs, exits, nodes>>
locks == <<settings, nmu, vmu>>
vars == <<tables, locks, role, at, busy, loc, saved, jobs, spoiled, faults>>

NoIds == [exit |-> 0, out |-> 0, node |-> 0, source |-> "vpngate", reused |-> FALSE, same |-> TRUE]

Used(t) == {i \in Ids : t[i] # None}
Fresh(t) == {i \in Ids : (\A j \in Used(t) : j < i) /\ (i = 1 \/ i - 1 \in Used(t))}
Insert(t, i, row) == [t EXCEPT ![i] = row]
Remove(t, i) == [t EXCEPT ![i] = None]
InUse(o) == \E n \in Used(nodes) : nodes[n].out = o
MayFail == faults < MaxFaults

----------------------------------------------------------------------------
(* What a script does after a call of it that ended in result ok.          *)

AfterJob(op, ok, l) ==
    CASE op = "vnew" -> IF ok THEN "clone" ELSE IF l.exit # 0 THEN "vdel" ELSE "failed"
      [] op = "clone" -> IF ok THEN "uri" ELSE IF l.reused THEN "failed" ELSE "vdel"
      [] op = "ndel" -> IF l.reused THEN "failed" ELSE "vdel"
      [] OTHER -> "failed"

AfterManualUnchecked(op, ok) ==
    CASE op = "onew" -> IF ok THEN "ocheck" ELSE "failed"
      [] op = "ocheck" -> IF ok THEN "clone" ELSE "failed"
      [] op = "clone" -> IF ok THEN "uri" ELSE "odel"
      [] op = "ndel" -> "odel"
      [] OTHER -> "failed"

AfterManual(op, ok) ==
    CASE op = "onew" -> IF ok THEN "ocheck" ELSE "failed"
      [] op = "ocheck" -> IF ok THEN "clone" ELSE "odel"
      [] op = "clone" -> IF ok THEN "uri" ELSE "odel"
      [] op = "ndel" -> "odel"
      [] OTHER -> "failed"

AfterRemoveBlind(op, ok) ==
    CASE op = "ndel" -> IF ok THEN "list" ELSE "failed"
      [] OTHER -> "done"

AfterRemove(op, ok) ==
    CASE ~ok -> "failed"
      [] ok /\ op = "ndel" -> "list"
      [] OTHER -> "done"

\* Which of the three scripts it is.
After(r, op, ok, l) ==
    CASE role[r] = "job" -> AfterJob(op, ok, l)
      [] role[r] = "manual" -> AfterManual(op, ok)
      [] role[r] = "remove" -> AfterRemove(op, ok)
      [] OTHER -> "done"

\* complete and fail write the outcome if the job is still in the table.
Reported(r, step) ==
    IF role[r] = "job" /\ step \in {"done", "failed"} /\ jobs[r] # None
    THEN [jobs EXCEPT ![r] = IF step = "done" THEN "succeeded" ELSE "failed"]
    ELSE jobs

\* The script goes on at step; its locals and the lock it holds go with its end.
Goto(r, step, l) ==
    /\ at' = [at EXCEPT ![r] = step]
    /\ loc' = [loc EXCEPT ![r] = IF step \in {"done", "failed"}
                                 THEN [NoIds EXCEPT !.same = l.same] ELSE l]
    /\ jobs' = Reported(r, step)
    /\ settings' = IF step \in {"done", "failed"} /\ settings = r THEN None ELSE settings

\* A call returns: "ok", "refused" or after a "fault".  lost: it left a row behind that no later step deletes -
\* one whose id it does not return, or one a compensation failed to delete.
Return(r, how, l, lost) ==
    /\ Goto(r, After(r, at[r], how = "ok", l), l)
    /\ faults' = IF how = "fault" THEN faults + 1 ELSE faults
    /\ busy' = [busy EXCEPT ![r] = FALSE]
    /\ saved' = [saved EXCEPT ![r] = None]
    /\ spoiled' = IF lost /\ role[r] \in {"job", "manual"} THEN spoiled \cup {r} ELSE spoiled
    /\ UNCHANGED role

\* The call goes on with its mutex, remembering row.
Hold(r, l, row) ==
    /\ busy' = [busy EXCEPT ![r] = TRUE]
    /\ loc' = [loc EXCEPT ![r] = l]
    /\ saved' = [saved EXCEPT ![r] = row]
    /\ UNCHANGED <<settings, role, at, jobs, spoiled, faults>>

NodeLock(r) == nmu = None /\ nmu' = r /\ UNCHANGED vmu
NodeUnlock(r) == nmu = r /\ nmu' = None /\ UNCHANGED vmu
GateLock(r) == vmu = None /\ vmu' = r /\ UNCHANGED nmu
GateUnlock(r) == vmu = r /\ vmu' = None /\ UNCHANGED nmu
Calling(r, op) == at[r] = op /\ ~busy[r]
Within(r, op) == at[r] = op /\ busy[r]

\* A call that ends where it takes its mutex, having changed nothing.
Refused(r, mutex, how, lost) ==
    /\ mutex = None
    /\ Return(r, how, loc[r], lost)
    /\ UNCHANGED <<tables, nmu, vmu>>

----------------------------------------------------------------------------
(* vpngate.Service.                                                        *)

\* Create: the exit and its outbound are inserted in one transaction.
CreateExit(r) ==
    /\ Calling(r, "vnew")
    /\ \/ Refused(r, vmu, "refused", FALSE)
       \/ /\ Cardinality(Used(exits)) < MaxExits
          /\ GateLock(r)
          /\ \E o \in Fresh(outs), e \in Fresh(exits) :
              /\ outs' = Insert(outs, o, [kind |-> "vpngate", by |-> r])
              /\ exits' = Insert(exits, e, [out |-> o, by |-> r, running |-> FALSE,
                                            up |-> FALSE, left |-> None])
              /\ Hold(r, [loc[r] EXCEPT !.exit = e, !.out = o], None)
          /\ UNCHANGED nodes

\* A tunnel that does not come up leaves a faulted exit, which is returned; a
\* result that cannot be saved leaves a faulted exit and one that cannot be read
\* back a running one, and neither is.
Connect(r) ==
    /\ Within(r, "vnew")
    /\ GateUnlock(r)
    /\ LET up == [exits EXCEPT ![loc[r].exit].running = TRUE, ![loc[r].exit].up = TRUE]
       IN \/ /\ exits' = up
             /\ Return(r, "ok", loc[r], FALSE)
          \/ /\ UNCHANGED exits
             /\ Return(r, "refused", loc[r], FALSE)
          \/ /\ MayFail
             /\ exits' \in {exits, up}
             /\ Return(r, "fault", NoIds, TRUE)
    /\ UNCHANGED <<outs, nodes>>

\* Delete: refused while a node uses the exit's outbound.
DeleteExit(r) ==
    /\ Calling(r, "vdel")
    /\ LET e == loc[r].exit IN
        \/ exits[e] = None /\ Refused(r, vmu, "refused", FALSE)
        \/ exits[e] # None /\ InUse(exits[e].out) /\ Refused(r, vmu, "refused", TRUE)
        \/ exits[e] # None /\ MayFail /\ Refused(r, vmu, "fault", TRUE)
        \/ /\ exits[e] # None /\ ~InUse(exits[e].out)
           /\ GateLock(r)
           /\ Hold(r, loc[r], None)
           /\ UNCHANGED tables

\* The outbound goes, the exit with it, unless a node has come to use it: the
\* tunnel is down by then.
StopExit(r) ==
    /\ Within(r, "vdel")
    /\ GateUnlock(r)
    /\ LET e == loc[r].exit
           down == [exits EXCEPT ![e].up = FALSE]
       IN \/ /\ ~InUse(exits[e].out)
             /\ outs' = Remove(outs, exits[e].out)
             /\ exits' = Remove(exits, e)
             /\ Return(r, "ok", loc[r], FALSE)
          \/ /\ InUse(exits[e].out)
             /\ exits' = down
             /\ Return(r, "refused", loc[r], TRUE)
             /\ UNCHANGED outs
          \/ /\ MayFail
             /\ exits' \in {exits, down}
             /\ Return(r, "fault", loc[r], TRUE)
             /\ UNCHANGED outs
    /\ UNCHANGED nodes

\* The watcher: an exit that runs without a tunnel gets one, or is blocked.
WatchIdle ==
    /\ vmu = None
    /\ \E e \in Used(exits), again \in BOOLEAN :
        /\ exits[e].running /\ ~exits[e].up /\ ~InUse(exits[e].out)
        /\ exits' = [exits EXCEPT ![e].running = again, ![e].up = again]
    /\ UNCHANGED <<outs, nodes, locks, role, at, busy, loc, saved, jobs, spoiled, faults>>
Watch ==
    /\ vmu = None
    /\ \E e \in Used(exits), again \in BOOLEAN :
        /\ exits[e].running /\ ~exits[e].up
        /\ exits' = [exits EXCEPT ![e].running = again, ![e].up = again]
    /\ UNCHANGED <<outs, nodes, locks, role, at, busy, loc, saved, jobs, spoiled, faults>>

----------------------------------------------------------------------------
(* node.Service.                                                           *)

CreateOutbound(r) ==
    /\ Calling(r, "onew")
    /\ \/ Refused(r, nmu, "refused", FALSE)
       \/ /\ NodeLock(r)
          /\ \E o \in Fresh(outs) :
              /\ outs' = Insert(outs, o, [kind |-> "manual", by |-> r])
              /\ Hold(r, [loc[r] EXCEPT !.out = o, !.source = "manual"], None)
          /\ UNCHANGED <<exits, nodes>>

\* reconcile, and the compensation when it fails.
ApplyOutbound(r) ==
    /\ Within(r, "onew")
    /\ NodeUnlock(r)
    /\ \/ Return(r, "ok", loc[r], FALSE) /\ UNCHANGED outs
       \/ /\ MayFail
          /\ \/ outs' = Remove(outs, loc[r].out) /\ Return(r, "fault", NoIds, FALSE)
             \/ UNCHANGED outs /\ Return(r, "fault", NoIds, TRUE)
    /\ UNCHANGED <<exits, nodes>>

\* The foreign key of the nodes refuses an outbound in use, the kind refuses
\* one that belongs to an exit.
DeleteOutbound(r) ==
    /\ Calling(r, "odel")
    /\ LET o == loc[r].out
           free == outs[o] # None /\ outs[o].kind = "manual" /\ ~InUse(o)
       IN \/ outs[o] = None /\ Refused(r, nmu, "refused", FALSE)
          \/ outs[o] # None /\ ~free /\ Refused(r, nmu, "refused", TRUE)
          \/ outs[o] # None /\ MayFail /\ Refused(r, nmu, "fault", TRUE)
          \/ /\ free
             /\ NodeLock(r)
             /\ outs' = Remove(outs, o)
             /\ Hold(r, loc[r], outs[o])
             /\ UNCHANGED <<exits, nodes>>

\* RestoreOutbound inserts under the old id, which an exit may have by now.
ApplyDeletion(r) ==
    /\ Within(r, "odel")
    /\ NodeUnlock(r)
    /\ \/ Return(r, "ok", loc[r], FALSE) /\ UNCHANGED outs
       \/ /\ MayFail
          /\ outs' \in {outs, IF outs[loc[r].out] = None
                              THEN Insert(outs, loc[r].out, saved[r]) ELSE outs}
          /\ Return(r, "fault", loc[r], TRUE)
    /\ UNCHANGED <<exits, nodes>>

\* CheckOutbound reads the row, spends seconds on the check ...
CheckUnlocked(r) ==
    /\ Calling(r, "ocheck")
    /\ \/ outs[loc[r].out] = None /\ Refused(r, nmu, "refused", FALSE)
       \/ /\ outs[loc[r].out] # None
          /\ Hold(r, loc[r], outs[loc[r].out])
          /\ UNCHANGED <<tables, nmu, vmu>>
CheckOutbound(r) ==
    /\ Calling(r, "ocheck")
    /\ \/ outs[loc[r].out] = None /\ Refused(r, nmu, "refused", FALSE)
       \/ /\ outs[loc[r].out] # None
          /\ NodeLock(r)
          /\ Hold(r, loc[r], outs[loc[r].out])
          /\ UNCHANGED tables

\* ... and writes all of it back under the id, if that still exists.
WriteCheck(r) ==
    /\ Within(r, "ocheck")
    /\ nmu' = IF nmu = r THEN None ELSE nmu
    /\ \/ /\ outs[loc[r].out] # None
          /\ outs' = Insert(outs, loc[r].out, saved[r])
          /\ \E how \in {"ok", "refused"} : Return(r, how, loc[r], FALSE)
       \/ /\ outs[loc[r].out] = None \/ MayFail
          /\ Return(r, IF outs[loc[r].out] = None THEN "refused" ELSE "fault", loc[r], FALSE)
          /\ UNCHANGED outs
    /\ UNCHANGED <<exits, nodes, vmu>>

\* History: r deletes a node of outbound o; only removals matter.
LeftBy(r, o) == [e \in Ids |-> IF exits[e] # None /\ exits[e].out = o
                               THEN [exits[e] EXCEPT !.left = IF role[r] = "remove" THEN r ELSE None]
                               ELSE exits[e]]

\* CloneTemporary: the outbound must exist, whatever it is by now.
CloneTemporary(r) ==
    /\ Calling(r, "clone")
    /\ \/ Refused(r, nmu, "refused", FALSE)
       \/ /\ outs[loc[r].out] # None
          /\ NodeLock(r)
          /\ \E n \in Fresh(nodes) :
              /\ nodes' = Insert(nodes, n, [out |-> loc[r].out, source |-> loc[r].source, by |-> r])
              /\ Hold(r, [loc[r] EXCEPT !.node = n], None)
          /\ UNCHANGED <<outs, exits>>

ApplyClone(r) ==
    /\ Within(r, "clone")
    /\ NodeUnlock(r)
    /\ \/ Return(r, "ok", loc[r], FALSE) /\ UNCHANGED <<exits, nodes>>
       \/ /\ MayFail
          /\ \/ /\ nodes' = Remove(nodes, loc[r].node)
                /\ exits' = LeftBy(r, loc[r].out)
                /\ Return(r, "fault", loc[r], FALSE)
             \/ UNCHANGED <<exits, nodes>> /\ Return(r, "fault", loc[r], TRUE)
    /\ UNCHANGED outs

\* The node that a removal read still has the outbound it read, and that the
\* exit: an id can have been given again, to a row of another request.
StillRead(r) ==
    LET l == loc[r] IN
    /\ nodes[l.node].out = l.out
    /\ l.exit # 0 => (exits[l.exit] # None /\ exits[l.exit].out = l.out)

\* Delete of a node.  History: who took it from its exit, and whether it is
\* still the node that a removal read.
DeleteNode(r) ==
    /\ Calling(r, "ndel")
    /\ LET n == loc[r].node IN
        \/ nodes[n] = None /\ Refused(r, nmu, "refused", FALSE)
        \/ nodes[n] # None /\ MayFail /\ Refused(r, nmu, "fault", TRUE)
        \/ /\ nodes[n] # None
           /\ NodeLock(r)
           /\ nodes' = Remove(nodes, n)
           /\ exits' = LeftBy(r, nodes[n].out)
           /\ Hold(r, [loc[r] EXCEPT !.same = role[r] = "remove" => StillRead(r)], nodes[n])
           /\ UNCHANGED outs

\* RestoreNode needs the outbound, which VPNGate may have deleted by now.
ApplyRemoval(r) ==
    /\ Within(r, "ndel")
    /\ NodeUnlock(r)
    /\ \/ Return(r, "ok", loc[r], FALSE) /\ UNCHANGED nodes
       \/ /\ MayFail
          /\ nodes' \in {nodes, IF outs[saved[r].out] # None
                                THEN Insert(nodes, loc[r].node, saved[r]) ELSE nodes}
          /\ Return(r, "fault", loc[r], TRUE)
    /\ UNCHANGED <<outs, exits>>

----------------------------------------------------------------------------
(* The scripts' own steps.                                                 *)

Arrives(r) == at[r] = "idle" /\ \A q \in Requests : q < r => at[q] # "idle"

\* A job is created with every finished job that is old enough forgotten, and
\* runs once it has the settings lock.
PruneAll(gone) == gone \subseteq {j \in Requests : jobs[j] # None}
Prune(gone) == gone \subseteq {j \in Requests : jobs[j] \in {"succeeded", "failed"}}

Creates(r) == Arrives(r) /\ Cardinality({q \in Requests : role[q] \in {"job", "manual"}}) < MaxScripts

Submit(r) ==
    /\ Creates(r)
    /\ \E gone \in SUBSET Requests :
        /\ Prune(gone)
        /\ jobs' = [j \in Requests |-> IF j = r THEN "queued"
                                       ELSE IF j \in gone THEN None ELSE jobs[j]]
    /\ role' = [role EXCEPT ![r] = "job"]
    /\ at' = [at EXCEPT ![r] = "start"]
    /\ UNCHANGED <<tables, locks, busy, loc, saved, spoiled, faults>>

StartJob(r) ==
    /\ at[r] = "start"
    /\ at' = [at EXCEPT ![r] = "lock"]
    /\ jobs' = IF jobs[r] = None THEN jobs ELSE [jobs EXCEPT ![r] = "running"]
    /\ UNCHANGED <<tables, locks, role, busy, loc, saved, spoiled, faults>>

RequestManual(r) ==
    /\ Creates(r)
    /\ role' = [role EXCEPT ![r] = "manual"]
    /\ at' = [at EXCEPT ![r] = "lock"]
    /\ UNCHANGED <<tables, locks, busy, loc, saved, jobs, spoiled, faults>>

\* A request whose own work is done under the settings lock.
RequestConfig(r) ==
    /\ Arrives(r)
    /\ role' = [role EXCEPT ![r] = "config"]
    /\ at' = [at EXCEPT ![r] = "lock"]
    /\ UNCHANGED <<tables, locks, busy, loc, saved, jobs, spoiled, faults>>

\* Of the requests with work of their own, one that changes a prerequisite has
\* still to read its body.
Begin(r) ==
    /\ at[r] = "lock"
    /\ settings = None
    /\ settings' = r
    /\ \E step \in CASE role[r] = "job" -> {"find"}
                      [] role[r] = "manual" -> {"onew"}
                      [] OTHER -> {"body", "work"} :
          at' = [at EXCEPT ![r] = step]
    /\ UNCHANGED <<tables, nmu, vmu, role, busy, loc, saved, jobs, spoiled, faults>>

\* decodeJSON: the client has sent the body; nothing limits how long it takes.
ReadBody(r) ==
    /\ at[r] = "body"
    /\ \E step \in {"work", "failed"} : Goto(r, step, loc[r])
    /\ UNCHANGED <<tables, nmu, vmu, role, busy, saved, spoiled, faults>>

EndWork(r) ==
    /\ at[r] = "work"
    /\ Goto(r, "done", loc[r])
    /\ UNCHANGED <<tables, nmu, vmu, role, busy, saved, spoiled, faults>>

\* runningVPNGateExit, from the table and without VPNGate's mutex; before it,
\* the source node and its prerequisite may end the job.
FindExit(r) ==
    /\ at[r] = "find"
    /\ \/ Goto(r, "failed", loc[r])
       \/ Goto(r, "vnew", loc[r])
       \/ \E e \in Used(exits) :
            /\ exits[e].running
            /\ Goto(r, "clone", [loc[r] EXCEPT !.exit = e, !.out = exits[e].out, !.reused = TRUE])
    /\ UNCHANGED <<tables, nmu, vmu, role, busy, saved, spoiled, faults>>

\* Subscriptions.NodeURI fails without the node, an enabled client or a host.
URI(r) ==
    /\ at[r] = "uri"
    /\ \/ nodes[loc[r].node] # None /\ Goto(r, "done", loc[r])
       \/ Goto(r, "ndel", loc[r])
    /\ UNCHANGED <<tables, nmu, vmu, role, busy, saved, spoiled, faults>>

\* A removal reads the node ...
RequestRemoval(r) ==
    /\ Arrives(r)
    /\ \E n \in Used(nodes) :
        /\ loc' = [loc EXCEPT ![r] = [NoIds EXCEPT !.out = nodes[n].out, !.node = n,
                                                   !.source = nodes[n].source]]
        /\ at' = [at EXCEPT ![r] = IF nodes[n].source = "vpngate" THEN "exit" ELSE "ndel"]
    /\ role' = [role EXCEPT ![r] = "remove"]
    /\ UNCHANGED <<tables, locks, busy, saved, jobs, spoiled, faults>>

\* ... and then the exit whose outbound it has, if one does by now.
ReadExit(r) ==
    /\ at[r] = "exit"
    /\ LET mine == {e \in Used(exits) : exits[e].out = loc[r].out}
       IN \/ \E e \in mine : Goto(r, "ndel", [loc[r] EXCEPT !.exit = e])
          \/ mine = {} /\ Goto(r, "ndel", loc[r])
          \/ Goto(r, "failed", loc[r])
    /\ UNCHANGED <<tables, nmu, vmu, role, busy, saved, spoiled, faults>>

\* With the node deleted it lists the others: the last one takes the exit or
\* the outbound with it.
ListRemaining(r) ==
    /\ at[r] = "list"
    /\ \/ Goto(r, IF InUse(loc[r].out) THEN "done"
                  ELSE IF loc[r].exit # 0 THEN "vdel" ELSE "odel", loc[r])
       \/ MayFail /\ Goto(r, "failed", loc[r])
    /\ UNCHANGED <<tables, nmu, vmu, role, busy, saved, spoiled, faults>>

\* A single call of the API on a row that is there: createVPNGateExit,
\* deleteVPNGateExit, deleteOutbound, checkOutbound and deleteNode.
Call(r) ==
    /\ Arrives(r)
    /\ \E op \in Singles :
        /\ \/ op = "vnew" /\ UNCHANGED loc
           \/ op = "vdel" /\ \E e \in Used(exits) : loc' = [loc EXCEPT ![r].exit = e]
           \/ op \in {"odel", "ocheck"} /\ \E o \in Used(outs) : loc' = [loc EXCEPT ![r].out = o]
           \/ op = "ndel" /\ \E n \in Used(nodes) : loc' = [loc EXCEPT ![r].node = n]
        /\ role' = [role EXCEPT ![r] = "single"]
        /\ at' = [at EXCEPT ![r] = op]
    /\ UNCHANGED <<tables, locks, busy, saved, jobs, spoiled, faults>>

----------------------------------------------------------------------------

\* An exit that two nodes share, and a manual outbound that none uses.
Gate == [kind |-> "vpngate", by |-> Before]
Hand == [kind |-> "manual", by |-> Before]
Bound == [out |-> 1, source |-> "vpngate", by |-> Before]
Table(a, b) == [i \in Ids |-> IF i = 1 THEN a ELSE IF i = 2 THEN b ELSE None]

Init ==
    /\ outs = Table(Gate, Hand)
    /\ nodes = Table(Bound, Bound)
    /\ exits = Table([out |-> 1, by |-> Before, running |-> TRUE, up |-> TRUE, left |-> None], None)
    /\ settings = None /\ nmu = None /\ vmu = None
    /\ role = [r \in Requests |-> "single"]
    /\ at = [r \in Requests |-> "idle"]
    /\ busy = [r \in Requests |-> FALSE]
    /\ loc = [r \in Requests |-> NoIds]
    /\ saved = [r \in Requests |-> None]
    /\ jobs = [r \in Requests |-> None]
    /\ spoiled = {}
    /\ faults = 0

GateCall(r) == CreateExit(r) \/ Connect(r) \/ DeleteExit(r) \/ StopExit(r)
NodeCall(r) ==
    \/ CreateOutbound(r) \/ ApplyOutbound(r) \/ DeleteOutbound(r) \/ ApplyDeletion(r)
    \/ CheckOutbound(r) \/ WriteCheck(r)
    \/ CloneTemporary(r) \/ ApplyClone(r) \/ DeleteNode(r) \/ ApplyRemoval(r)
Request(r) == Submit(r) \/ RequestManual(r) \/ RequestConfig(r) \/ RequestRemoval(r) \/ Call(r)
Proceed(r) ==
    \/ GateCall(r) \/ NodeCall(r)
    \/ StartJob(r) \/ FindExit(r) \/ URI(r) \/ ReadExit(r) \/ ListRemaining(r) \/ EndWork(r)

Next == Watch \/ \E r \in Requests : Request(r) \/ Proceed(r) \/ Begin(r) \/ ReadBody(r)
Spec == Init /\ [][Next]_vars

\* Every command has a deadline, a mutex that is free is taken by one of its
\* waiters, and the watcher ticks: something that can go on does.  Requests are
\* finitely many, so no more is needed.  Nothing is assumed of ReadBody: the
\* server limits the time for a request's header and none for its body.
Fairness == WF_vars(Watch \/ \E r \in Requests : Proceed(r) \/ Begin(r))
FairSpec == Spec /\ Fairness

----------------------------------------------------------------------------

\* The shape of the state, on which the properties below rely.
TypeOK ==
    /\ outs \in [Ids -> OutRows \cup {None}]
    /\ exits \in [Ids -> ExitRows \cup {None}]
    /\ nodes \in [Ids -> NodeRows \cup {None}]
    /\ {settings, nmu, vmu} \subseteq Requests \cup {None}
    /\ role \in [Requests -> Scripts \cup {"single", "config"}]
    /\ at \in [Requests -> Calls \cup {"idle", "start", "lock", "body", "work", "find", "uri",
                                      "exit", "list", "done", "failed"}]
    /\ busy \in [Requests -> BOOLEAN]
    /\ loc \in [Requests -> [exit : Ids \cup {0}, out : Ids \cup {0}, node : Ids \cup {0},
                             source : Sources, reused : BOOLEAN, same : BOOLEAN]]
    /\ saved \in [Requests -> OutRows \cup NodeRows \cup {None}]
    /\ jobs \in [Requests -> {None, "queued", "running", "succeeded", "failed"}]
    /\ spoiled \subseteq Requests
    /\ faults \in 0..MaxFaults

\* The two tables agree whoever wrote them last: every exit has an outbound of
\* kind vpngate that no other exit has, and every such outbound has an exit -
\* though the node service writes outbounds under a mutex that the VPNGate
\* service does not take, and restores and checks write whole rows back.
KindsAgree ==
    /\ \A e \in Used(exits) :
        /\ outs[exits[e].out] # None /\ outs[exits[e].out].kind = "vpngate"
        /\ \A f \in Used(exits) : exits[f].out = exits[e].out => f = e
    /\ \A o \in Used(outs) : outs[o].kind = "vpngate" => \E e \in Used(exits) : exits[e].out = o

\* A script that failed leaves nothing of its own - no node, no exit, no
\* outbound - unless a deletion that takes something back failed or was
\* refused, or a call failed without saying what it had created.
LeavesNothing ==
    \A r \in Requests :
        (at[r] = "failed" /\ role[r] \in {"job", "manual"} /\ r \notin spoiled) =>
            /\ \A n \in Used(nodes) : nodes[n].by # r
            /\ \A e \in Used(exits) : exits[e].by # r
            /\ \A o \in Used(outs) : outs[o].kind = "manual" => outs[o].by # r

\* The last one out turns off the light: of the removals of an exit's nodes,
\* however they overlap, the one that deleted the last node has not reported
\* success with the exit still there.
LastTurnsOff ==
    \A e \in Used(exits) : \A r \in Requests :
        (exits[e].left = r /\ role[r] = "remove" /\ loc[r].same /\ at[r] = "done") => InUse(exits[e].out)

\* Every job that was accepted is found in the table until it has succeeded or
\* failed, and it does one or the other - unless it waits for the settings lock
\* for ever, behind a change of a prerequisite whose body never comes.
JobsEnd ==
    /\ [][\A r \in Requests : jobs[r] \in {"queued", "running"} => jobs'[r] # None]_vars
    /\ []<>(\A r \in Requests :
              \/ jobs[r] \notin {"queued", "running"}
              \/ at[r] = "lock" /\ settings # None /\ at[settings] = "body")

\* Not so: every job ends.  One client that sends a header and no body keeps it
\* waiting.
EveryJobEnds == []<>(\A r \in Requests : jobs[r] \notin {"queued", "running"})

\* A deletion that a new node forestalls has stopped the exit's tunnel: the
\* watcher notices, and the exit runs again or is blocked.
TunnelsHeal == []<>(\A e \in Used(exits) : exits[e].running => exits[e].up)
=============================================================================
