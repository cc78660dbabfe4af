---------------------------- MODULE VpnGateExits ----------------------------
(***************************************************************************)
(* vpngate.Service: temporary exits through volunteers' OpenVPN servers.   *)
(* Each exit is a row with a slot, and the slot names the network          *)
(* namespace whose tunnel carries the traffic.                             *)
(*                                                                         *)
(* One mutex serialises the API's calls and the watcher's reconcile pass,  *)
(* but the pass looks at the tunnels' health before it takes the mutex,    *)
(* tunnels die, candidates fail, nodes are bound to an exit and released   *)
(* by the node service, and J-UI may be killed between a tunnel's change   *)
(* and the row that records it.                                            *)
(*                                                                         *)
(* Simplifications:                                                        *)
(*  - an exit is known by its slot, of which it has exactly one;           *)
(*  - the catalog and its ranking are external: any order of the           *)
(*    candidates that are not excluded may be tried;                       *)
(*  - a health result is dropped as soon as its row is written, which is   *)
(*    what the comparison of updated_at and of the tunnel's fields does;   *)
(*    a write within the same second that changes none of them may keep it;*)
(*  - the copy of the status in the outbound's row is left out.            *)
(***************************************************************************)
EXTENDS Naturals

CONSTANTS
    MaxExits,   \* JUI_VPNGATE_MAX_EXITS
    Cands,      \* candidates of the catalog
    Down,       \* no tunnel
    NoExit,     \* no row
    Policies,   \* failure policies that exits are created with
    Lives,      \* "never" (permanent) and "ahead": lifetimes they are given
    Stuck,      \* slots whose clean-up never succeeds
    Requests,   \* API calls that are made
    Failures,   \* may a write or a clean-up fail?
    Crashes     \* may J-UI be killed?

Slots == 1..MaxExits

ASSUME ExitAssumption ==
    /\ MaxExits \in Nat \ {0}
    /\ Cands # {}
    /\ Down \notin Cands
    /\ Policies \subseteq {"block", "auto_swap"}
    /\ Lives \subseteq {"never", "ahead"}
    /\ Stuck \subseteq Slots
    /\ Requests \subseteq {"create", "swap", "extend", "delete"}
    /\ Failures \in BOOLEAN
    /\ Crashes \in BOOLEAN

Statuses == {"provisioning", "running", "swapping", "faulted", "expired"}
Exits == [cand : Cands, status : Statuses, policy : Policies,
          exp : {"never", "ahead", "past"}, bound : BOOLEAN]

ASSUME NoExitAssumption == NoExit \notin Exits

VARIABLES
    rows,     \* vpngate_exits, by slot
    tunnel,   \* what each slot's tunnel is connected to
    health,   \* the pass's result for a slot: "none", "pending", "well", "ill"
    probing,  \* a pass is looking at the tunnels, before it has the mutex
    fails,    \* Service.healthFailures
    pc,       \* where the holder of the mutex is, "free" without one
    kind,     \* what it does: "create", "swap", "delete", "restore", "autoswap",
              \* "faultswap", or "none"
    cur,      \* slot it works on
    tries,    \* candidates it has still to try
    orig,     \* candidate of the exit when it began
    queue     \* slots the pass has still to visit, itself included

job == <<kind, cur, tries, orig>>
vars == <<rows, tunnel, health, probing, fails, pc, job, queue>>

Used == {s \in Slots : rows[s] # NoExit}
First(slots) == {s \in slots : \A t \in slots : s <= t}
InPass == kind \in {"restore", "autoswap", "faultswap"}

----------------------------------------------------------------------------
(* Rows and tunnels.                                                       *)

\* A write of a row: a health result read before no longer matches it.
Write(s, e) ==
    /\ rows' = [rows EXCEPT ![s] = e]
    /\ health' = [health EXCEPT ![s] = "none"]

NoWrite == UNCHANGED <<rows, health>>

\* orchestrator.Stop: reports an error when anything is left.
StopLeaves(s) == UNCHANGED tunnel
StopOK(s) == s \notin Stuck /\ tunnel' = [tunnel EXCEPT ![s] = Down]
StopFails(s) ==
    /\ Failures \/ s \in Stuck
    /\ \E t \in {tunnel[s]} \cup (IF s \in Stuck THEN {} ELSE {Down}) : tunnel' = [tunnel EXCEPT ![s] = t]

\* activeCandidates of the other exits.
TakenOwn(s) == {rows[t].cand : t \in {u \in Used \cap {s} : rows[u].status # "expired"}}
Taken(s) == {rows[t].cand : t \in {u \in Used \ {s} : rows[u].status # "expired"}}

----------------------------------------------------------------------------
(* The reconcile pass, before it has the mutex.                            *)

CheckableLapsed(s) == s \in Used /\ rows[s].status = "running" /\ rows[s].exp = "past"
Checkable(s) == s \in Used /\ rows[s].status = "running" /\ rows[s].exp # "past"

\* The exits are listed ...
Snapshot ==
    /\ ~probing /\ queue = {} /\ pc # "visit"
    /\ Used # {}
    /\ probing' = TRUE
    /\ health' = [s \in Slots |-> IF Checkable(s) THEN "pending" ELSE "none"]
    /\ UNCHANGED <<rows, tunnel, fails, pc, job, queue>>

\* ... and each is probed in a goroutine, while the API goes on.  A probe may
\* time out on a tunnel that works.
Probe(s) ==
    /\ probing /\ health[s] = "pending"
    /\ \E r \in {"ill"} \cup (IF tunnel[s] = rows[s].cand THEN {"well"} ELSE {}) :
        health' = [health EXCEPT ![s] = r]
    /\ UNCHANGED <<rows, tunnel, probing, fails, pc, job, queue>>

----------------------------------------------------------------------------
(* The pass, with the mutex.                                               *)

BeginPass ==
    /\ probing /\ pc = "free"
    /\ \A s \in Slots : health[s] # "pending"
    /\ probing' = FALSE
    /\ queue' = Used
    /\ pc' = "visit"
    /\ UNCHANGED <<rows, tunnel, health, fails, job>>

EndPass ==
    /\ pc = "visit" /\ queue = {}
    /\ pc' = "free"
    /\ UNCHANGED <<rows, tunnel, health, probing, fails, job, queue>>

\* The pass returns an error: the slots behind this one are not visited.
Abort == pc' = "free" /\ queue' = {}

\* It goes on to the next slot.
Advance(s) == pc' = "visit" /\ queue' = queue \ {s}

\* No operation: the locals are as they were at first.
Anyone == CHOOSE c \in Cands : TRUE
Blank == kind' = "none" /\ cur' = 1 /\ tries' = {} /\ orig' = Anyone

LapsedUnbound(s) == rows[s].exp = "past" /\ ~rows[s].bound
Lapsed(s) == rows[s].exp = "past"

\* expire: stop the tunnel and drop the row, which a bound node's foreign key
\* refuses.
Expire(s) ==
    /\ pc = "visit" /\ s \in First(queue)
    /\ Lapsed(s)
    /\ \/ /\ StopOK(s)
          /\ \/ /\ ~rows[s].bound
                /\ Write(s, NoExit)
                /\ fails' = [fails EXCEPT ![s] = 0]
                /\ Advance(s)
             \/ /\ rows[s].bound
                /\ Write(s, [rows[s] EXCEPT !.status = "expired"])
                /\ UNCHANGED fails
                /\ Advance(s)
             \/ /\ Failures
                /\ NoWrite \/ Write(s, [rows[s] EXCEPT !.status = "expired"])
                /\ UNCHANGED fails
                /\ Abort
       \/ /\ StopFails(s)
          /\ Write(s, [rows[s] EXCEPT !.status = "expired"]) \/ (Failures /\ NoWrite)
          /\ UNCHANGED fails
          /\ Abort
    /\ UNCHANGED <<probing, job>>

\* A running exit is left alone unless two checks in a row have failed.
ToleratedTwice(s) == fails[s] + 1 < 3
Tolerated(s) == fails[s] + 1 < 2

Skip(s) ==
    /\ pc = "visit" /\ s \in First(queue)
    /\ ~Lapsed(s)
    /\ \/ /\ rows[s].status = "running" /\ health[s] = "none"
          /\ UNCHANGED fails
       \/ /\ rows[s].status = "running" /\ health[s] = "well"
          /\ fails' = [fails EXCEPT ![s] = 0]
       \/ /\ rows[s].status = "running" /\ health[s] = "ill" /\ Tolerated(s)
          /\ fails' = [fails EXCEPT ![s] = @ + 1]
       \/ /\ rows[s].status = "expired" \/ (rows[s].status = "faulted" /\ rows[s].policy = "block")
          /\ fails' = [fails EXCEPT ![s] = 0]
    /\ Advance(s)
    /\ UNCHANGED <<rows, tunnel, health, probing, job>>

\* What makes the pass connect an exit again, and in which way.
Repair(s) ==
    CASE rows[s].status = "running" /\ health[s] = "ill" /\ ~Tolerated(s) -> "restore"
      [] rows[s].status \in {"provisioning", "swapping"} -> "restore"
      [] rows[s].status = "faulted" /\ rows[s].policy = "auto_swap" -> "faultswap"
      [] OTHER -> "nothing"

BeginRepair(s) ==
    /\ pc = "visit" /\ s \in First(queue)
    /\ ~Lapsed(s)
    /\ Repair(s) # "nothing"
    /\ fails' = [fails EXCEPT ![s] = 0]
    /\ kind' = Repair(s)
    /\ cur' = s
    /\ orig' = rows[s].cand
    /\ tries' = {}
    /\ pc' = (IF Repair(s) = "restore" THEN "restore" ELSE "swap")
    /\ UNCHANGED <<rows, tunnel, health, probing, queue>>

\* An operation went through, or failed: what its caller does next.
Done ==
    /\ IF InPass THEN Advance(cur) ELSE pc' = "free" /\ UNCHANGED queue
    /\ Blank

Fail ==
    \/ kind \in {"create", "swap", "faultswap"} /\ Done
    \/ /\ kind = "restore" /\ rows[cur].policy = "auto_swap"
       /\ pc' = "swap" /\ kind' = "autoswap"
       /\ UNCHANGED <<cur, tries, orig, queue>>
    \/ /\ kind = "autoswap" \/ (kind = "restore" /\ rows[cur].policy = "block")
       /\ pc' = "block"
       /\ UNCHANGED <<job, queue>>

\* restoreCurrentLocked: the candidate may have left the catalog.
Restore ==
    /\ pc = "restore"
    /\ \/ /\ Write(cur, [rows[cur] EXCEPT !.status = "provisioning"])
          /\ pc' = "provision"
          /\ UNCHANGED <<job, queue>>
       \/ Fail /\ NoWrite
    /\ UNCHANGED <<tunnel, probing, fails>>

\* block: the row gets back the candidate the pass found in it.
Block ==
    /\ pc = "block"
    /\ StopOK(cur) \/ StopFails(cur)
    /\ \/ /\ Write(cur, [rows[cur] EXCEPT !.status = "faulted", !.cand = orig])
          /\ Advance(cur) \/ (Failures /\ Abort)
       \/ Failures /\ NoWrite /\ Abort
    /\ Blank
    /\ UNCHANGED <<probing, fails>>

----------------------------------------------------------------------------
(* swapLocked, Create, and the steps they share.                           *)

\* The tunnel in use is stopped first; when that fails no other is started.
\* The catalog may be unavailable, or hold no other candidate.
Swap ==
    /\ pc = "swap"
    /\ LET others == Cands \ (Taken(cur) \cup {rows[cur].cand}) IN
        \/ /\ others # {}
           /\ StopOK(cur)
           /\ \/ /\ Write(cur, [rows[cur] EXCEPT !.status = "swapping"])
                 /\ tries' = others
                 /\ pc' = "try"
                 /\ UNCHANGED <<kind, cur, orig, queue>>
              \/ Failures /\ NoWrite /\ Fail
        \/ /\ others # {}
           /\ StopFails(cur)
           /\ Write(cur, [rows[cur] EXCEPT !.status = "faulted"]) \/ (Failures /\ NoWrite)
           /\ Fail
        \/ /\ Fail
           /\ UNCHANGED <<rows, health, tunnel>>
    /\ UNCHANGED <<probing, fails>>

\* tryCandidates: the row names the candidate before its tunnel is started.  A
\* write that fails ends the attempts, and the candidate it was about is then in
\* the row that says "faulted".
Try ==
    /\ pc = "try"
    /\ \/ /\ \E c \in tries :
                /\ Write(cur, [rows[cur] EXCEPT !.cand = c])
                /\ tries' = tries \ {c}
          /\ pc' = "provision"
          /\ UNCHANGED <<kind, cur, orig, queue>>
       \/ /\ \E c \in tries : tries' = tries \ {c}   \* SanitizeOpenVPN refuses it
          /\ NoWrite
          /\ UNCHANGED <<pc, kind, cur, orig, queue>>
       \/ /\ Failures
          /\ \E c \in tries :
                NoWrite \/ Write(cur, [rows[cur] EXCEPT !.status = "faulted", !.cand = c])
          /\ Fail
       \/ /\ tries = {}
          /\ pc' = "fault"
          /\ NoWrite
          /\ UNCHANGED <<job, queue>>
    /\ UNCHANGED <<tunnel, probing, fails>>

\* Provision cleans the slot, connects and probes; any failure cleans up again.
Provision ==
    /\ pc = "provision"
    /\ \/ /\ cur \notin Stuck
          /\ tunnel' = [tunnel EXCEPT ![cur] = rows[cur].cand]
          /\ pc' = "persist"
          /\ UNCHANGED <<job, queue>>
       \/ /\ StopOK(cur) \/ StopFails(cur)
                \/ (Failures /\ tunnel' = [tunnel EXCEPT ![cur] = rows[cur].cand])
          /\ IF kind = "restore" THEN Fail ELSE pc' = "try" /\ UNCHANGED <<job, queue>>
    /\ UNCHANGED <<rows, health, probing, fails>>

ConnectedStale(e) == [e EXCEPT !.status = "running", !.cand = orig]
Connected(e) == [e EXCEPT !.status = "running"]

\* persistRunning: one transaction for the exit and its outbound, or the
\* tunnel is stopped and the exit marked faulted.
Persist ==
    /\ pc = "persist"
    /\ \/ /\ Write(cur, Connected(rows[cur]))
          /\ Done
          /\ UNCHANGED tunnel
       \/ /\ Failures
          /\ StopOK(cur) \/ StopFails(cur)
          /\ NoWrite \/ Write(cur, [rows[cur] EXCEPT !.status = "faulted"])
          /\ Fail
    /\ UNCHANGED <<probing, fails>>

\* All candidates failed.
Fault ==
    /\ pc = "fault"
    /\ Write(cur, [rows[cur] EXCEPT !.status = "faulted"]) \/ (Failures /\ NoWrite)
    /\ Fail
    /\ UNCHANGED <<tunnel, probing, fails>>

----------------------------------------------------------------------------
(* The API.                                                                *)

Take(why, s, step) ==
    /\ pc = "free"
    /\ kind' = why
    /\ cur' = s
    /\ pc' = step
    /\ orig' = (IF s \in Used THEN rows[s].cand ELSE Anyone)
    /\ UNCHANGED <<tunnel, probing, fails, queue>>

\* A named candidate is tried alone under "block", first under "auto_swap".
Create ==
    /\ "create" \in Requests
    /\ \E s \in First(Slots \ Used), policy \in Policies, exp \in Lives :
        LET free == Cands \ Taken(s) IN
        \E c \in free, ranked \in {{}, free} :
            /\ Take("create", s, "try")
            /\ Write(s, [cand |-> c, status |-> "provisioning", policy |-> policy,
                         exp |-> exp, bound |-> FALSE])
            /\ tries' = ranked \cup {c}

SwapRequest ==
    /\ "swap" \in Requests
    /\ \E s \in Used : Take("swap", s, "swap")
    /\ tries' = {}
    /\ NoWrite

\* A new lifetime; nothing else about the exit changes.
Extend ==
    /\ "extend" \in Requests
    /\ pc = "free"
    /\ \E s \in Used, exp \in Lives :
        /\ rows' = [rows EXCEPT ![s].exp = exp]
        /\ \E r \in {"none", health[s]} : health' = [health EXCEPT ![s] = r]
    /\ UNCHANGED <<tunnel, probing, fails, pc, job, queue>>

\* Delete looks for bound nodes, then stops the tunnel ...
Delete ==
    /\ "delete" \in Requests
    /\ pc = "free"
    /\ \E s \in Used :
        /\ ~rows[s].bound
        /\ \/ StopOK(s) /\ kind' = "delete" /\ cur' = s /\ pc' = "drop"
           \/ StopFails(s) /\ UNCHANGED <<kind, cur, pc>>
    /\ UNCHANGED <<rows, health, probing, fails, tries, orig, queue>>

\* ... and drops the row, unless a node has been bound to it meanwhile.
Drop ==
    /\ pc = "drop"
    /\ \/ /\ ~rows[cur].bound
          /\ Write(cur, NoExit)
          /\ fails' = [fails EXCEPT ![cur] = 0]
       \/ (rows[cur].bound \/ Failures) /\ NoWrite /\ UNCHANGED fails
    /\ pc' = "free"
    /\ Blank
    /\ UNCHANGED <<tunnel, probing, queue>>

----------------------------------------------------------------------------
(* The surroundings.                                                       *)

\* OpenVPN loses its server.
Lose(s) ==
    /\ tunnel[s] # Down
    /\ tunnel' = [tunnel EXCEPT ![s] = Down]
    /\ UNCHANGED <<rows, health, probing, fails, pc, job, queue>>

\* Time passes an exit's expiry.
Lapse(s) ==
    /\ s \in Used /\ rows[s].exp = "ahead"
    /\ rows' = [rows EXCEPT ![s].exp = "past"]
    /\ UNCHANGED <<tunnel, health, probing, fails, pc, job, queue>>

\* The node service binds a node to the exit's outbound, or removes the last.
Bind(s) ==
    /\ s \in Used
    /\ rows' = [rows EXCEPT ![s].bound = ~@]
    /\ UNCHANGED <<tunnel, health, probing, fails, pc, job, queue>>

Crash ==
    /\ Crashes
    /\ health' = [s \in Slots |-> "none"]
    /\ probing' = FALSE
    /\ fails' = [s \in Slots |-> 0]
    /\ pc' = "free"
    /\ queue' = {}
    /\ Blank
    /\ UNCHANGED <<rows, tunnel>>

Init ==
    /\ rows = [s \in Slots |-> NoExit]
    /\ tunnel = [s \in Slots |-> Down]
    /\ health = [s \in Slots |-> "none"]
    /\ probing = FALSE
    /\ fails = [s \in Slots |-> 0]
    /\ pc = "free"
    /\ kind = "none"
    /\ cur = 1
    /\ tries = {}
    /\ orig = Anyone
    /\ queue = {}

Operation == Restore \/ Block \/ Swap \/ Try \/ Provision \/ Persist \/ Fault \/ Drop
Visit == \E s \in Slots : Expire(s) \/ Skip(s) \/ BeginRepair(s)
Surroundings == \E s \in Slots : Lose(s) \/ Lapse(s) \/ Bind(s)

Next ==
    \/ Create \/ SwapRequest \/ Extend \/ Delete
    \/ Snapshot \/ (\E s \in Slots : Probe(s)) \/ BeginPass \/ Visit \/ EndPass
    \/ Operation
    \/ Surroundings \/ Crash

Spec == Init /\ [][Next]_vars

\* The ticker fires, the probes end at their deadline, the mutex is handed to
\* the pass in the end, and whoever holds it goes on.
Fairness ==
    /\ WF_vars(Snapshot)
    /\ \A s \in Slots : WF_vars(Probe(s))
    /\ SF_vars(BeginPass)
    /\ WF_vars(Visit) /\ WF_vars(EndPass) /\ WF_vars(Operation)

FairSpec == Spec /\ Fairness

----------------------------------------------------------------------------

TypeOK ==
    /\ rows \in [Slots -> Exits \cup {NoExit}]
    /\ tunnel \in [Slots -> Cands \cup {Down}]
    /\ health \in [Slots -> {"none", "pending", "well", "ill"}]
    /\ probing \in BOOLEAN
    /\ fails \in [Slots -> 0..1]
    /\ pc \in {"free", "visit", "restore", "swap", "try", "provision", "persist",
              "fault", "block", "drop"}
    /\ kind \in {"none", "create", "swap", "delete", "restore", "autoswap", "faultswap"}
    /\ cur \in Slots
    /\ tries \subseteq Cands
    /\ orig \in Cands
    /\ queue \subseteq Slots

\* A tunnel is only ever up in a slot that has a row: a row dropped before its
\* tunnel is down leaves one that nothing stops (service.go:442-470, 704-732).
NoOrphanTunnel == \A s \in Slots : tunnel[s] # Down => rows[s] # NoExit

\* An exit shown as running is connected to the candidate its row names, or
\* to nothing: a swap cut short or a stale copy of the row never leaves
\* traffic going out through another server (service.go:335-413, 615-642).
RunningIsRecorded ==
    \A s \in Used : rows[s].status = "running" => tunnel[s] \in {Down, rows[s].cand}

\* No two exits are connected to the same candidate, whatever swaps, fall-backs,
\* restorations in place and expiries came before (service.go:816-825, 568-613;
\* PRD: one VPNGate server is used by one exit).
DistinctTunnels ==
    \A s, t \in Slots : (s # t /\ tunnel[s] # Down) => tunnel[s] # tunnel[t]

\* An exit shown as running whose tunnel is gone gets it back or stops being
\* shown as running, although one failed probe is not acted on and a result
\* that a write has overtaken is thrown away (service.go:513-566).
Heals ==
    \A s \in Slots :
        (s \in Used /\ rows[s].status = "running" /\ tunnel[s] = Down)
            ~> (s \notin Used \/ rows[s].status # "running" \/ tunnel[s] # Down)

\* An exit past its expiry is stopped and removed, or marked expired while a
\* node is bound to it (service.go:704-732; PRD: "stopped automatically").
ExpiredStops ==
    \A s \in Slots \ Stuck :
        (s \in Used /\ rows[s].exp = "past")
            ~> (s \notin Used \/ rows[s].exp # "past"
                \/ (rows[s].status = "expired" /\ tunnel[s] = Down))

=============================================================================
