---------------------------- MODULE FirewallSync ----------------------------
(***************************************************************************)
(* node.Service.syncFirewall and CleanupFirewall over firewall.System and  *)
(* the managed_firewall_rules table: which host firewall openings J-UI     *)
(* makes for its nodes, and what it remembers of them.                     *)
(*                                                                         *)
(* The node service's mutex admits one sync at a time, but every firewall  *)
(* operation and every row written is a step of its own, and an operation  *)
(* made of several commands may fail or be killed between two of them.     *)
(* The probes that select a backend may fail, which the code reads as      *)
(* "not active", and the administrator may activate another backend at any *)
(* step.                                                                   *)
(*                                                                         *)
(* Simplifications:                                                        *)
(*  - a rule is a (protocol, port) key;                                    *)
(*  - the rules of one loop are visited in any order (the code sorts them, *)
(*    or ranges over a map);                                               *)
(*  - J-UI's own rules are found by their marker, or by the policy "jui",  *)
(*    so an administrator's rule is only ever read, never removed;         *)
(*  - the administrator's UFW rules do not change while J-UI is installed; *)
(*  - UFW counts as inactive when firewalld is active, so that a failed    *)
(*    probe always ends at nftables;                                       *)
(*  - firewalld loads its permanent configuration whenever it is started,  *)
(*    and a rule on an inactive backend counts as an opening: it is in     *)
(*    force again when the backend is.                                     *)
(***************************************************************************)
EXTENDS Naturals

CONSTANTS
    Rules,      \* (protocol, port) keys
    Firewalld, UFW, NFTables,
    Unknown,    \* the backend column of a row that has none yet
    NoRule,     \* no rule is being worked on
    Failures,   \* may a command, a probe or a write fail while J-UI lives on?
    Crashes,    \* may J-UI be killed?
    Switches    \* may the active backend change?

Backends == {Firewalld, UFW, NFTables}

ASSUME FirewallAssumption ==
    /\ Firewalld # UFW /\ UFW # NFTables /\ Firewalld # NFTables
    /\ Unknown \notin Backends
    /\ NoRule \notin Rules
    /\ Failures \in BOOLEAN
    /\ Crashes \in BOOLEAN
    /\ Switches \in BOOLEAN

VARIABLES
    desired,   \* rules of the enabled nodes that listen beyond loopback
    own,       \* ownership column of a rule's row, "none" without a row
    at,        \* backend column of a rule's row
    marker,    \* rules J-UI's own queries find on each backend
    live,      \* rules of J-UI's that each backend has wholly in force
    admin,     \* administrator's UFW rules: "none", "allow", "partial"
    active,    \* backend that is really active
    verified,  \* Service.firewallVerified
    up,        \* the service got past its start-up reconciliation
    base,      \* the nodes' rules before the operation in progress
    job,       \* what runs, or ran last: "startup", "op", "undo", "cleanup"
    pc,        \* where it is
    todo,      \* rules its current loop has still to visit
    cur,       \* rule it works on
    was,       \* rules that had a row when it started (trackedSet)
    seen,      \* backend it read before Ensure
    got,       \* ownership Ensure returned
    outcome,   \* "none" before it ends, then "ok" or "failed"
    cut,       \* history: rules on which a backend's commands stopped half way
    misled     \* history: rules J-UI acted on after a failed probe or query, or
               \* could not take back from a backend that was switched off

store == <<own, at>>
host == <<marker, live, cut, misled, admin, active>>
nodes == <<desired, base>>
process == <<up, verified>>
call == <<todo, cur, was, seen, got>>
vars == <<nodes, store, host, process, call, job, pc, outcome>>

Tracked == {r \in Rules : own[r] # "none"}

----------------------------------------------------------------------------
(* firewall.System, external to the service.                               *)

\* A probe that fails reads "not active", and nftables is what is left.
Selects(b) == b = active \/ (Failures /\ b = NFTables)

\* Close goes to the backend its row names, or else to the selected one.
Targets(t) == IF t = Unknown THEN {b \in Backends : Selects(b)} ELSE {t}

\* firewalld and UFW refuse while they are not running.
Works(b) == b \in {active, NFTables}

Mislead(r, wrong) == misled' = IF wrong THEN misled \cup {r} ELSE misled

\* firewalld: the permanent rule is removed, and the reload makes the whole
\* permanent configuration live.  The others remove the rule from both.
Removed(r, b) ==
    /\ marker' = [marker EXCEPT ![b] = @ \ {r}]
    /\ live' = [live EXCEPT ![b] = (IF b = Firewalld THEN marker[b] ELSE @) \ {r}]
    /\ cut' = [cut EXCEPT ![b] = IF b = Firewalld THEN {} ELSE @ \ {r}]

\* Close returns nil also when firewalld has no permanent rule, or when the
\* query for it fails: neither asks what is live.
NothingToClose(r, b) ==
    /\ b = Firewalld
    /\ r \in marker[b] => Failures
    /\ UNCHANGED <<marker, live, cut>>

CloseOK(r, t) ==
    /\ \E b \in Targets(t) :
          /\ Works(b)
          /\ \/ (b = Firewalld => r \in marker[b]) /\ Removed(r, b)
             \/ NothingToClose(r, b)
          /\ Mislead(r, (t = Unknown /\ b # active) \/ r \in marker'[b])
    /\ UNCHANGED <<admin, active>>

\* firewalld: removed and not reloaded.  UFW: one of its two rules deleted.
HalfClosed(r, t) ==
    /\ \E b \in Targets(t) \ {NFTables} :
          /\ Works(b) /\ r \in marker[b]
          /\ IF b = Firewalld
             THEN marker' = [marker EXCEPT ![b] = @ \ {r}] /\ UNCHANGED live
             ELSE live' = [live EXCEPT ![b] = @ \ {r}] /\ UNCHANGED marker
          /\ cut' = [cut EXCEPT ![b] = @ \cup {r}]
    /\ UNCHANGED <<misled, admin, active>>

\* A Close that returns an error may have done nothing, half of it, or all.
CloseFails(r, t) ==
    \/ (Failures \/ \E b \in Targets(t) : ~Works(b)) /\ UNCHANGED host
    \/ Failures /\ (HalfClosed(r, t) \/ CloseOK(r, t))

\* An unambiguous allow is borrowed unless J-UI's own rule is already there.
AdminSays(r, b, what) == b = UFW /\ r \notin marker[b] /\ admin[r] = what
Borrowable(r, b) == AdminSays(r, b, "allow")
Ambiguous(r, b) == AdminSays(r, b, "partial")

\* A rule that is found is taken as it is, without a reload; one that is not,
\* or whose query failed, is added (and firewalld reloaded).
Added(r, b) ==
    \/ r \in marker[b] /\ UNCHANGED <<marker, live, cut>>
    \/ /\ r \notin marker[b] \/ (b = Firewalld /\ Failures)
       /\ marker' = [marker EXCEPT ![b] = @ \cup {r}]
       /\ live' = [live EXCEPT ![b] = (IF b = Firewalld THEN marker[b] ELSE @) \cup {r}]
       /\ cut' = [cut EXCEPT ![b] = IF b = Firewalld THEN {} ELSE @ \ {r}]

\* firewalld: added to the permanent configuration and not reloaded.
HalfAdded(r, b) ==
    /\ b = Firewalld /\ r \notin marker[b]
    /\ marker' = [marker EXCEPT ![b] = @ \cup {r}]
    /\ cut' = [cut EXCEPT ![b] = @ \cup {r}]
    /\ UNCHANGED live

\* Is the port open on the active backend, by whoever's rule?
Opened(r) == r \in live[active] \/ (active = UFW /\ admin[r] = "allow")

SwitchBackend ==
    /\ Switches
    /\ active' \in Backends \ {active}
    /\ live' = [live EXCEPT ![Firewalld] = marker[Firewalld]]
    /\ cut' = [cut EXCEPT ![Firewalld] = {}]
    /\ outcome' = "none"
    /\ UNCHANGED <<nodes, store, marker, misled, admin, process, call, job, pc>>

----------------------------------------------------------------------------
(* Rows of managed_firewall_rules.                                         *)

\* INSERT ... ON CONFLICT DO NOTHING.
TrackLater(r) == UNCHANGED store
TrackFirewallRule(r) ==
    IF own[r] = "none"
    THEN own' = [own EXCEPT ![r] = "pending"] /\ at' = [at EXCEPT ![r] = Unknown]
    ELSE UNCHANGED store

ForgetBlanks(r) == own' = [own EXCEPT ![r] = ""] /\ UNCHANGED at
ForgetFirewallRule(r) ==
    own' = [own EXCEPT ![r] = "none"] /\ at' = [at EXCEPT ![r] = Unknown]

SetFirewallRuleOwnership(r, o, b) ==
    own' = [own EXCEPT ![r] = o] /\ at' = [at EXCEPT ![r] = b]

----------------------------------------------------------------------------
(* syncFirewall.                                                           *)

\* The local variables of a call end with it.
Return ==
    /\ todo' = {}
    /\ cur' = NoRule
    /\ was' = {}
    /\ seen' = Unknown
    /\ got' = "ok"

\* A failed operation is compensated; a failed start-up ends the process.
Fail ==
    /\ pc' = (IF job = "op" THEN "undo" ELSE "idle")
    /\ outcome' = "failed"
    /\ up' = (up /\ job # "startup")
    /\ verified' = (verified /\ job # "startup")
    /\ Return
    /\ UNCHANGED <<nodes, job>>

\* J-UI is killed; its next process starts with nothing verified.
Die ==
    /\ up' = FALSE
    /\ verified' = FALSE
    /\ pc' = "idle"
    /\ outcome' = "none"
    /\ base' = {}
    /\ Return
    /\ UNCHANGED <<desired, store, job>>

\* A failure, or a kill, between two commands of one firewall operation.
Stops == (Failures /\ Fail /\ UNCHANGED store) \/ (Crashes /\ Die)

FailedWrite == Failures /\ Fail /\ UNCHANGED <<store, host>>

\* Rows that no node wants any more.
StaleOwned(wanted) == {r \in Tracked \ wanted : own[r] = "owned"}
Stale(wanted) == Tracked \ wanted

BeginSync(why, wanted) ==
    /\ job' = why
    /\ desired' = wanted
    /\ was' = Tracked
    /\ todo' = Stale(wanted)
    /\ pc' = "stale"
    /\ outcome' = "none"
    /\ UNCHANGED <<store, host, process, cur, seen, got>>

Startup ==
    /\ pc = "idle" /\ ~up
    /\ BeginSync("startup", desired)
    /\ UNCHANGED base

\* A node operation commits a new set of nodes and reconciles.  Those of the
\* expiry watcher and of the port migration may come before the start-up's
\* own sync, and also run in the process of a command.
Operation ==
    /\ pc = "idle"
    /\ \E wanted \in SUBSET Rules : BeginSync("op", wanted)
    /\ base' = desired

\* compensate: undo the write, and reconcile whether or not that worked.
Compensate ==
    /\ pc = "undo"
    /\ BeginSync("undo", base) \/ (Failures /\ BeginSync("undo", desired))
    /\ UNCHANGED base

\* A row no node wants any more: close the rule unless it was borrowed.
CloseStale(r) ==
    /\ pc = "stale" /\ job # "cleanup"
    /\ r \in todo
    /\ \/ /\ IF own[r] = "borrowed" THEN UNCHANGED host ELSE CloseOK(r, at[r])
          /\ cur' = r
          /\ pc' = "forget"
          /\ UNCHANGED <<nodes, store, process, job, todo, was, seen, got, outcome>>
       \/ own[r] # "borrowed" /\ CloseFails(r, at[r]) /\ Fail /\ UNCHANGED store
       \/ own[r] # "borrowed" /\ HalfClosed(r, at[r]) /\ Stops

\* ... and only then drop its row.
ForgetStale ==
    /\ pc = "forget" /\ job # "cleanup"
    /\ \/ /\ ForgetFirewallRule(cur)
          /\ todo' = todo \ {cur}
          /\ pc' = "stale"
          /\ UNCHANGED <<nodes, host, process, job, cur, was, seen, got, outcome>>
       \/ FailedWrite

\* A rule that had a row is not looked at again once one sync has gone through.
SkipsTracked(r) == r \in was
Skips(r) == r \in was /\ verified

StaleDone ==
    /\ pc = "stale" /\ job # "cleanup" /\ todo = {}
    /\ todo' = {r \in desired : ~Skips(r)}
    /\ pc' = "ensure"
    /\ UNCHANGED <<nodes, store, host, process, job, cur, was, seen, got, outcome>>

\* The intent is persisted before the host is touched.
Track(r) ==
    /\ pc = "ensure"
    /\ r \in todo
    /\ \/ /\ TrackFirewallRule(r)
          /\ cur' = r
          /\ pc' = "backend"
          /\ UNCHANGED <<nodes, host, process, job, todo, was, seen, got, outcome>>
       \/ FailedWrite

\* Only an nftables that is not installed is an error.
ReadBackend ==
    /\ pc = "backend"
    /\ \/ /\ seen' \in {b \in Backends : Selects(b)}
          /\ pc' = "migrate"
          /\ UNCHANGED <<nodes, store, host, process, job, todo, cur, was, got, outcome>>
       \/ FailedWrite

\* Does the row say that another backend holds J-UI's rule?
NeverElsewhere(r) == FALSE
Elsewhere(r) == r \in was /\ own[r] = "owned" /\ at[r] \notin {Unknown, seen}

Migrate ==
    /\ pc = "migrate"
    /\ \/ /\ IF Elsewhere(cur) THEN CloseOK(cur, at[cur]) ELSE UNCHANGED host
          /\ pc' = "open"
          /\ UNCHANGED <<nodes, store, process, call, job, outcome>>
       \/ Elsewhere(cur) /\ CloseFails(cur, at[cur]) /\ Fail /\ UNCHANGED store
       \/ Elsewhere(cur) /\ HalfClosed(cur, at[cur]) /\ Stops

\* Ensure selects the backend again; when it is no longer the one read before,
\* an opening just made is taken back and the sync fails.
EnsureOn(b) ==
    \/ /\ Borrowable(cur, b)
       /\ UNCHANGED host
       /\ \/ /\ b = seen
             /\ got' = "borrowed"
             /\ pc' = "record"
             /\ UNCHANGED <<nodes, process, job, todo, cur, was, seen, outcome>>
          \/ b # seen /\ Fail
    \/ /\ ~Borrowable(cur, b) /\ ~Ambiguous(cur, b)
       /\ Added(cur, b)
       /\ Mislead(cur, b # active)
       /\ UNCHANGED <<admin, active>>
       /\ \/ /\ got' = "owned"
             /\ seen' = b
             /\ pc' = (IF b = seen THEN "record" ELSE "retract")
             /\ UNCHANGED <<nodes, process, job, todo, cur, was, outcome>>
          \/ Failures /\ Fail
    \/ (Ambiguous(cur, b) \/ Failures) /\ UNCHANGED host /\ Fail

Ensure ==
    /\ pc = "open"
    /\ \/ \E b \in Backends : Selects(b) /\ EnsureOn(b) /\ UNCHANGED store
       \/ /\ \E b \in Backends : Selects(b) /\ HalfAdded(cur, b) /\ Mislead(cur, b # active)
          /\ Stops
          /\ UNCHANGED <<admin, active>>

\* The result of this Close is ignored.  The row does not name the backend, so
\* an opening that stays on an inactive one is lost.
Retract ==
    /\ pc = "retract"
    /\ \/ CloseOK(cur, seen) /\ Fail /\ UNCHANGED store
       \/ /\ Failures \/ ~Works(seen)
          /\ Mislead(cur, seen # active)
          /\ Fail
          /\ UNCHANGED <<store, marker, live, cut, admin, active>>
       \/ HalfClosed(cur, seen) /\ Stops

Record ==
    /\ pc = "record"
    /\ \/ /\ SetFirewallRuleOwnership(cur, got, seen)
          /\ todo' = todo \ {cur}
          /\ pc' = "ensure"
          /\ UNCHANGED <<nodes, host, process, job, cur, was, seen, got, outcome>>
       \/ FailedWrite

FinishSync ==
    /\ pc = "ensure" /\ todo = {}
    /\ verified' = TRUE
    /\ up' = (up \/ job = "startup")
    /\ outcome' = "ok"
    /\ pc' = "idle"
    /\ base' = {}
    /\ Return
    /\ UNCHANGED <<desired, store, host, job>>

----------------------------------------------------------------------------
(* CleanupFirewall, run with the service stopped, by uninstall and restore. *)

\* The rows, and the rules the nodes want even when they have none.
CleanupOwned == {r \in Rules : own[r] = "owned"}
CleanupSet == Tracked \cup desired

BeginCleanup ==
    /\ pc = "idle"
    /\ job' = "cleanup"
    /\ todo' = CleanupSet
    /\ got' = "ok"
    /\ pc' = "stale"
    /\ outcome' = "none"
    /\ up' = FALSE
    /\ verified' = FALSE
    /\ UNCHANGED <<nodes, store, host, cur, was, seen>>

\* A rule that cannot be closed is skipped and the others are still visited.
CleanupClose(r) ==
    /\ pc = "stale" /\ job = "cleanup"
    /\ r \in todo
    /\ \/ /\ IF own[r] = "borrowed" THEN UNCHANGED host ELSE CloseOK(r, at[r])
          /\ cur' = r
          /\ pc' = "forget"
          /\ UNCHANGED <<todo, got>>
       \/ /\ own[r] # "borrowed" /\ CloseFails(r, at[r])
          /\ todo' = todo \ {r}
          /\ got' = "failed"
          /\ UNCHANGED <<pc, cur>>
    /\ UNCHANGED <<nodes, store, process, job, was, seen, outcome>>

\* The command is killed half way through a Close.
CleanupCut(r) ==
    /\ pc = "stale" /\ job = "cleanup"
    /\ r \in todo
    /\ own[r] # "borrowed"
    /\ HalfClosed(r, at[r])
    /\ Crashes /\ Die

CleanupForget ==
    /\ pc = "forget" /\ job = "cleanup"
    /\ \/ ForgetFirewallRule(cur) /\ UNCHANGED got
       \/ Failures /\ got' = "failed" /\ UNCHANGED store
    /\ todo' = todo \ {cur}
    /\ pc' = "stale"
    /\ UNCHANGED <<nodes, host, process, job, cur, was, seen, outcome>>

FinishCleanup ==
    /\ pc = "stale" /\ job = "cleanup" /\ todo = {}
    /\ outcome' = got
    /\ pc' = "idle"
    /\ Return
    /\ UNCHANGED <<nodes, store, host, process, job>>

----------------------------------------------------------------------------

\* The process ends, by systemctl restart or after a failed start-up step.
Restart ==
    /\ pc = "idle" /\ (up \/ verified)
    /\ up' = FALSE
    /\ verified' = FALSE
    /\ outcome' = "none"
    /\ UNCHANGED <<nodes, store, host, call, job, pc>>

Crash == Crashes /\ Die /\ UNCHANGED host

Init ==
    /\ desired = {}
    /\ own = [r \in Rules |-> "none"]
    /\ at = [r \in Rules |-> Unknown]
    /\ marker = [b \in Backends |-> {}]
    /\ live = marker
    /\ cut = marker
    /\ misled = {}
    /\ active \in Backends
    /\ admin \in [Rules -> {"none", "allow", "partial"}]
    /\ (active # UFW /\ ~Switches) => admin = [r \in Rules |-> "none"]
    /\ up = FALSE
    /\ verified = FALSE
    /\ base = {}
    /\ job = "startup"
    /\ pc = "idle"
    /\ todo = {}
    /\ cur = NoRule
    /\ was = {}
    /\ seen = Unknown
    /\ got = "ok"
    /\ outcome = "none"

SyncStep ==
    \/ \E r \in Rules : CloseStale(r) \/ Track(r)
    \/ ForgetStale \/ StaleDone
    \/ ReadBackend \/ Migrate \/ Ensure \/ Retract \/ Record \/ FinishSync

CleanupStep ==
    \/ \E r \in Rules : CleanupClose(r) \/ CleanupCut(r)
    \/ CleanupForget \/ FinishCleanup

Next ==
    \/ Startup \/ Operation \/ Compensate \/ SyncStep
    \/ BeginCleanup \/ CleanupStep
    \/ Restart \/ Crash \/ SwitchBackend

Spec == Init /\ [][Next]_vars

----------------------------------------------------------------------------

TypeOK ==
    /\ desired \subseteq Rules
    /\ own \in [Rules -> {"none", "pending", "owned", "borrowed"}]
    /\ at \in [Rules -> Backends \cup {Unknown}]
    /\ marker \in [Backends -> SUBSET Rules]
    /\ live \in [Backends -> SUBSET Rules]
    /\ cut \in [Backends -> SUBSET Rules]
    /\ misled \subseteq Rules
    /\ admin \in [Rules -> {"none", "allow", "partial"}]
    /\ active \in Backends
    /\ base \subseteq Rules
    /\ up \in BOOLEAN
    /\ verified \in BOOLEAN
    /\ job \in {"startup", "op", "undo", "cleanup"}
    /\ pc \in {"idle", "undo", "stale", "forget", "ensure", "backend", "migrate", "open",
              "retract", "record"}
    /\ todo \subseteq Rules
    /\ cur \in Rules \cup {NoRule}
    /\ was \subseteq Rules
    /\ seen \in Backends \cup {Unknown}
    /\ got \in {"ok", "failed", "owned", "borrowed"}
    /\ outcome \in {"none", "ok", "failed"}

Synced == pc = "idle" /\ job # "cleanup" /\ outcome = "ok"

\* J-UI's openings on the host are among the given rules, but for the rules a
\* failed probe or query misled it about and, of what is in force, those whose
\* commands stopped half way.
OpenOnly(rules) ==
    \A b \in Backends :
        /\ marker[b] \subseteq rules \cup misled
        /\ live[b] \subseteq rules \cup misled \cup cut[b]

\* Every opening J-UI made on the host, on whatever backend, still has a row:
\* the row is what a later sync or an uninstall closes it by
\* (service.go:1347-1351 tracks first, 1327-1334 closes before it forgets).
NoLeak == OpenOnly(Tracked)

\* A row says "borrowed" only while J-UI has no rule of its own anywhere, but
\* for the moment before Ensure's result is recorded or taken back, and for a
\* rule it could not take back: such a row is forgotten without a Close
\* (service.go:1327).
BorrowedHasNoMarker ==
    \A r \in Rules :
        (own[r] = "borrowed" /\ ~(pc \in {"record", "retract"} /\ cur = r) /\ r \notin misled)
            => \A b \in Backends : r \notin marker[b]

\* A sync that succeeded leaves none of J-UI's openings for a rule that no
\* enabled node wants.
OnlyDesiredOpen == Synced => OpenOnly(desired)

\* What an operation that reports success promises its caller: the ports of
\* the nodes it leaves enabled are reachable, with the same exceptions.
OperationOpensPorts ==
    (Synced /\ job = "op") => \A r \in desired \ (misled \cup cut[active]) : Opened(r)

\* The first sync that goes through in a process repairs what an earlier
\* process, or a failed sync of this one, left: every wanted port is open,
\* unless a firewall operation on it was cut or misled.
FreshSyncOpens ==
    [][(~verified /\ verified')
        => \A r \in desired \ (misled \cup cut[active]) : Opened(r)']_vars

\* A clean-up that reports success has closed every opening J-UI ever made,
\* with the same exceptions.
CleanupComplete ==
    (pc = "idle" /\ job = "cleanup" /\ outcome = "ok") => OpenOnly({})

\* "A crash before or during Ensure is repaired on the next reconciliation"
\* (service.go:1347-1348): once a first sync has gone through, every wanted
\* port is open.
CrashRepaired == [][(~verified /\ verified') => \A r \in desired : Opened(r)']_vars

\* "... and stale intent is removable" (service.go:1348): an opening J-UI may
\* have made is found by its row until it is closed.
IntentRemovable == \A b \in Backends : live[b] \subseteq Tracked

=============================================================================
