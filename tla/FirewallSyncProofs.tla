------------------------- MODULE FirewallSyncProofs -------------------------
(***************************************************************************)
(* Proofs about FirewallSync, for any set of rules: with failures and      *)
(* kills at every step while the administrator keeps to one firewall       *)
(* backend (IInv), and with changes of backend at every step while nothing *)
(* fails and J-UI is not killed (SInv).  With both, a kill or a failed     *)
(* write before a row's backend is recorded, followed by a change of       *)
(* backend, breaks NoLeak.                                                 *)
(*                                                                         *)
(* What keeps an opening from being lost is that its row exists before the *)
(* opening and goes after it.  Whether a row may be forgotten without a    *)
(* Close depends on its ownership column, so the invariant must say what   *)
(* "borrowed" promises about the host (RowsTrue), which backend the rows   *)
(* and the markers are on (OneBackend), and what the loops have still to   *)
(* visit (StaleLoop, EnsureLoop, CleanupLoop).  With changes of backend    *)
(* each opening is where its row says (RowsOf), and a rule is closed there *)
(* before it is opened elsewhere (CurOnSeen).  All of it is said of the    *)
(* rules no failed probe or query misled J-UI about.  What is in force     *)
(* follows from what the queries find, but for rules whose commands        *)
(* stopped half way (Whole).                                               *)
(***************************************************************************)
EXTENDS FirewallSync, TLAPS

EnsureSteps == {"ensure", "backend", "migrate", "open", "retract", "record"}
RuleSteps == {"backend", "migrate", "open", "retract", "record"}
CloseSteps == {"stale", "forget"}

\* The types of the local variables where they are used.
LocalsOK ==
    /\ pc \in RuleSteps \cup {"forget"} => cur \in Rules
    /\ pc \in {"migrate", "open", "retract", "record"} => seen \in Backends
    /\ pc = "record" => got \in {"owned", "borrowed"}
    /\ pc = "retract" => got = "owned"
    /\ (pc \in CloseSteps /\ job = "cleanup") => got \in {"ok", "failed"}

HostTypes ==
    /\ marker \in [Backends -> SUBSET Rules]
    /\ live \in [Backends -> SUBSET Rules]
    /\ cut \in [Backends -> SUBSET Rules]
    /\ misled \subseteq Rules
    /\ admin \in [Rules -> {"none", "allow", "partial"}]
    /\ active \in Backends

\* What is found and what is in force differ only where commands were cut.
Whole == \A b \in Backends :
             live[b] \subseteq marker[b] \cup cut[b] /\ marker[b] \subseteq live[b] \cup cut[b]

HostOK == HostTypes /\ Whole

TInv == TypeOK /\ LocalsOK /\ HostOK

\* The rows and the markers are on the one backend.
OneBackend ==
    /\ \A b \in Backends : b # active => marker[b] \subseteq misled
    /\ \A r \in Rules \ misled : at[r] \in {Unknown, active}
    /\ (pc \in {"retract", "record"} /\ cur \notin misled) => seen = active

\* A borrowed row, or a borrowed result about to be recorded, goes with an
\* administrator's rule and no rule of J-UI's.
Borrows(r) == active = UFW /\ admin[r] = "allow" /\ r \notin marker[active]

RowsTrue ==
    /\ marker[active] \subseteq Tracked \cup misled
    /\ \A r \in Rules \ misled : own[r] = "borrowed" => Borrows(r)
    /\ pc \in RuleSteps => cur \in Tracked
    /\ (pc = "record" /\ got = "borrowed" /\ cur \notin misled) => Borrows(cur)
    /\ (pc = "forget" /\ cur \notin misled) => cur \notin marker[active]

\* Rows that are not wanted are still to be visited by the closing loop.
StaleLoop ==
    /\ (pc \in CloseSteps /\ job # "cleanup") => Tracked \ desired \subseteq todo
    /\ (pc \in EnsureSteps \/ Synced) => Tracked \subseteq desired

\* The rule is open, or will be found open, or J-UI was misled about it.
Held(r) == r \in misled \/ r \in marker[active] \/ (active = UFW /\ admin[r] = "allow")

\* A process in which no sync went through yet verifies every wanted rule.
EnsureLoop ==
    /\ (pc \in EnsureSteps /\ ~verified) => \A r \in desired \ todo : Held(r)
    /\ pc = "record" => Held(cur)

\* What is being opened has its row, and is wanted.
OpensWanted ==
    /\ pc \in RuleSteps => cur \in Tracked /\ cur \in todo
    /\ pc \in EnsureSteps => todo \subseteq desired /\ job # "cleanup"

\* A clean-up in which nothing failed has visited every row but those left.
CleanupLoop ==
    /\ (pc \in CloseSteps /\ job = "cleanup" /\ got = "ok") => Tracked \subseteq todo
    /\ (pc = "idle" /\ job = "cleanup" /\ outcome = "ok") => Tracked = {}

\* The outcome is only set when a job has ended or is being undone.
OutcomeAtEnd == pc \notin {"idle", "undo"} => outcome = "none"

IInv ==
    /\ TInv
    /\ OpensWanted
    /\ OneBackend
    /\ RowsTrue
    /\ StaleLoop
    /\ EnsureLoop
    /\ CleanupLoop
    /\ OutcomeAtEnd

----------------------------------------------------------------------------
(* What the firewall's operations do to the host.                          *)

\* Types, Whole and the history are kept, and at most r changes.
Touches(r) ==
    /\ HostOK'
    /\ UNCHANGED <<admin, active>>
    /\ misled \subseteq misled'
    /\ misled' \subseteq misled \cup {r}
    /\ \A b \in Backends : marker'[b] \cup {r} = marker[b] \cup {r}

\* A Close that reports success removed the rule where it looked, or J-UI is
\* misled about it.
LEMMA CloseDone ==
    ASSUME HostOK, NEW r \in Rules, NEW t \in Backends \cup {Unknown}, CloseOK(r, t)
    PROVE  /\ Touches(r)
           /\ \A b \in Backends : marker'[b] \subseteq marker[b]
           /\ r \notin misled' => r \notin marker'[IF t = Unknown THEN active ELSE t]
<1> USE FirewallAssumption
<1>1. PICK b \in Targets(t) :
          /\ \/ (b = Firewalld => r \in marker[b]) /\ Removed(r, b)
             \/ NothingToClose(r, b)
          /\ Mislead(r, (t = Unknown /\ b # active) \/ r \in marker'[b])
  BY DEF CloseOK
<1>2. b \in Backends /\ (t # Unknown => b = t) /\ UNCHANGED <<admin, active>>
  BY DEF Targets, CloseOK
<1>3. /\ misled' \in {misled, misled \cup {r}}
      /\ r \notin misled' => b = (IF t = Unknown THEN active ELSE t) /\ r \notin marker'[b]
  BY <1>1, <1>2 DEF Mislead
<1>4. CASE Removed(r, b)
  <2>1. /\ marker' \in [Backends -> SUBSET Rules]
        /\ live' \in [Backends -> SUBSET Rules]
        /\ cut' \in [Backends -> SUBSET Rules]
    BY <1>2, <1>4 DEF Removed, HostOK, HostTypes
  <2>2. \A c \in Backends :
            /\ c # b => marker'[c] = marker[c] /\ live'[c] = live[c] /\ cut'[c] = cut[c]
            /\ marker'[b] = marker[b] \ {r}
            /\ live'[b] = (IF b = Firewalld THEN marker[b] ELSE live[b]) \ {r}
            /\ cut'[b] = IF b = Firewalld THEN {} ELSE cut[b] \ {r}
    BY <1>2, <1>4 DEF Removed, HostOK, HostTypes
  <2>3. Whole'
    BY <1>2, <2>2 DEF HostOK, Whole
  <2> QED
    BY <1>2, <1>3, <2>1, <2>2, <2>3 DEF Touches, HostOK, HostTypes
<1>5. CASE NothingToClose(r, b)
  BY <1>2, <1>3, <1>5 DEF NothingToClose, Touches, HostOK, HostTypes, Whole
<1> QED
  BY <1>1, <1>4, <1>5

\* A Close that stops half way opens nothing.
LEMMA CloseHalf ==
    ASSUME HostOK, NEW r \in Rules, NEW t \in Backends \cup {Unknown}, HalfClosed(r, t)
    PROVE  /\ Touches(r)
           /\ UNCHANGED misled
           /\ \A b \in Backends : marker'[b] \subseteq marker[b]
<1> USE FirewallAssumption
<1>1. PICK b \in Targets(t) \ {NFTables} :
          /\ IF b = Firewalld
             THEN marker' = [marker EXCEPT ![b] = @ \ {r}] /\ UNCHANGED live
             ELSE live' = [live EXCEPT ![b] = @ \ {r}] /\ UNCHANGED marker
          /\ cut' = [cut EXCEPT ![b] = @ \cup {r}]
  BY DEF HalfClosed
<1>2. b \in Backends /\ UNCHANGED <<misled, admin, active>>
  BY DEF Targets, HalfClosed
<1>3. HostTypes'
  BY <1>1, <1>2 DEF HostOK, HostTypes
<1>4. \A c \in Backends :
          /\ c # b => marker'[c] = marker[c] /\ live'[c] = live[c] /\ cut'[c] = cut[c]
          /\ marker'[b] \in {marker[b], marker[b] \ {r}}
          /\ live'[b] \in {live[b], live[b] \ {r}}
          /\ cut'[b] = cut[b] \cup {r}
  BY <1>1, <1>2 DEF HostOK, HostTypes
<1>5. Whole'
  BY <1>2, <1>4 DEF HostOK, Whole
<1> QED
  BY <1>2, <1>3, <1>4, <1>5 DEF HostOK, Touches

\* Nor does one that fails.
LEMMA CloseFailed ==
    ASSUME HostOK, NEW r \in Rules, NEW t \in Backends \cup {Unknown}, CloseFails(r, t)
    PROVE  Touches(r) /\ \A b \in Backends : marker'[b] \subseteq marker[b]
<1>1. CASE UNCHANGED host
  BY <1>1 DEF host, Touches, HostOK, HostTypes, Whole
<1> QED
  BY <1>1, CloseHalf, CloseDone DEF CloseFails

\* What opening a rule on a backend does, in whole and in part.
LEMMA AddDone ==
    ASSUME HostOK, NEW r \in Rules, NEW b \in Backends,
           Added(r, b) \/ HalfAdded(r, b), Mislead(r, b # active), UNCHANGED <<admin, active>>
    PROVE  /\ Touches(r)
           /\ marker' = [marker EXCEPT ![b] = @ \cup {r}]
           /\ r \notin misled' => b = active
<1>1. /\ misled' \in {misled, misled \cup {r}}
      /\ r \notin misled' => b = active
  BY DEF Mislead
<1>2. CASE r \in marker[b] /\ UNCHANGED <<marker, live, cut>>
  BY <1>1, <1>2 DEF Touches, HostOK, HostTypes, Whole
<1>3. CASE /\ marker' = [marker EXCEPT ![b] = @ \cup {r}]
           /\ \/ /\ live' = [live EXCEPT ![b] = (IF b = Firewalld THEN marker[b] ELSE @) \cup {r}]
                 /\ cut' = [cut EXCEPT ![b] = IF b = Firewalld THEN {} ELSE @ \ {r}]
              \/ UNCHANGED live /\ cut' = [cut EXCEPT ![b] = @ \cup {r}]
  <2>1. HostTypes'
    BY <1>1, <1>3 DEF HostOK, HostTypes
  <2>2. \A c \in Backends :
            /\ c # b => marker'[c] = marker[c] /\ live'[c] = live[c] /\ cut'[c] = cut[c]
            /\ marker'[b] = marker[b] \cup {r}
            /\ \/ /\ live'[b] = (IF b = Firewalld THEN marker[b] ELSE live[b]) \cup {r}
                  /\ cut'[b] = IF b = Firewalld THEN {} ELSE cut[b] \ {r}
               \/ live'[b] = live[b] /\ cut'[b] = cut[b] \cup {r}
    BY <1>3 DEF HostOK, HostTypes
  <2>3. Whole'
    BY <2>2 DEF HostOK, Whole
  <2> QED
    BY <1>1, <1>3, <2>1, <2>2, <2>3 DEF HostOK, Touches
<1> QED
  BY <1>2, <1>3 DEF Added, HalfAdded

\* Every step of the host is one of these, or none at all.
LEMMA HostStep ==
    ASSUME TInv, [Next]_vars
    PROVE  HostOK' /\ misled \subseteq misled'
<1> USE DEF TInv, LocalsOK, RuleSteps, TypeOK
<1>0. CASE UNCHANGED host
  BY <1>0 DEF host, HostOK, HostTypes, Whole
<1>1. ASSUME NEW r \in Rules, CloseStale(r) \/ CleanupClose(r) \/ CleanupCut(r)
      PROVE  HostOK' /\ misled \subseteq misled'
  BY <1>0, <1>1, CloseDone, CloseFailed, CloseHalf DEF CloseStale, CleanupClose, CleanupCut, Touches
<1>2. CASE Migrate
  BY <1>0, <1>2, CloseDone, CloseFailed, CloseHalf DEF Migrate, Touches
<1>3. CASE Ensure
  BY <1>0, <1>3, AddDone DEF Ensure, EnsureOn, Touches
<1>4. CASE Retract
  <2>1. CASE UNCHANGED <<marker, live, cut, admin, active>> /\ Mislead(cur, seen # active)
    BY <1>4, <2>1 DEF Retract, Mislead, HostOK, HostTypes, Whole
  <2> QED
    BY <1>4, <2>1, CloseDone, CloseHalf DEF Retract, Touches
<1>5. CASE SwitchBackend
  BY <1>5, FirewallAssumption DEF SwitchBackend, HostOK, HostTypes, Whole, Backends
<1>6. CASE UNCHANGED vars
  BY <1>0, <1>6 DEF vars
<1>7. ASSUME NEW r \in Rules, Track(r)
      PROVE  UNCHANGED host
  BY <1>7 DEF Track, FailedWrite
<1>8. CASE \/ Startup \/ Operation \/ Compensate \/ ForgetStale \/ StaleDone \/ ReadBackend
           \/ Record \/ FinishSync \/ BeginCleanup \/ CleanupForget \/ FinishCleanup
           \/ Restart \/ Crash
  <2>1. UNCHANGED host
    BY <1>8 DEF Startup, Operation, Compensate, BeginSync, ForgetStale, StaleDone, ReadBackend,
       Record, FinishSync, BeginCleanup, CleanupForget, FinishCleanup, Restart, Crash, FailedWrite
  <2> QED
    BY <1>0, <2>1
<1> QED
  BY <1>0, <1>1, <1>2, <1>3, <1>4, <1>5, <1>6, <1>7, <1>8 DEF Next, SyncStep, CleanupStep

\* Ensure fails and leaves the host alone, borrows the administrator's rule, or
\* opens the rule on the backend it selects.
LEMMA EnsureEffect ==
    ASSUME TInv, Ensure
    PROVE  /\ cur \in Rules /\ pc = "open" /\ UNCHANGED <<own, at, desired>>
           /\ \/ UNCHANGED host /\ pc' \in {"undo", "idle"}
              \/ /\ UNCHANGED <<host, process, todo, job, was, cur, seen>>
                 /\ pc' = "record" /\ got' = "borrowed"
                 /\ Borrowable(cur, seen) /\ Selects(seen)
              \/ \E b \in Backends :
                    /\ Selects(b) /\ ~Borrowable(cur, b)
                    /\ Touches(cur)
                    /\ marker' = [marker EXCEPT ![b] = @ \cup {cur}]
                    /\ cur \notin misled' => b = active
                    /\ \/ pc' \in {"undo", "idle"} /\ (Failures \/ Crashes)
                       \/ /\ UNCHANGED <<process, todo, job, was, cur>>
                          /\ pc' = (IF b = seen THEN "record" ELSE "retract")
                          /\ seen' = b /\ got' = "owned"
<1> USE DEF TInv, TypeOK, LocalsOK, RuleSteps, store, nodes, process, call
<1>1. cur \in Rules /\ pc = "open" /\ UNCHANGED <<own, at, desired>>
  BY DEF Ensure, EnsureOn, Fail, Die, Stops
<1>2. ASSUME NEW b \in Backends, Selects(b), EnsureOn(b)
      PROVE  \/ UNCHANGED host /\ pc' \in {"undo", "idle"}
             \/ /\ UNCHANGED <<host, process, todo, job, was, cur, seen>>
                /\ pc' = "record" /\ got' = "borrowed"
                /\ Borrowable(cur, seen) /\ Selects(seen)
             \/ /\ Selects(b) /\ ~Borrowable(cur, b)
                /\ Touches(cur)
                /\ marker' = [marker EXCEPT ![b] = @ \cup {cur}]
                /\ cur \notin misled' => b = active
                /\ \/ pc' \in {"undo", "idle"} /\ (Failures \/ Crashes)
                   \/ /\ UNCHANGED <<process, todo, job, was, cur>>
                      /\ pc' = (IF b = seen THEN "record" ELSE "retract")
                      /\ seen' = b /\ got' = "owned"
  BY <1>1, <1>2, AddDone DEF EnsureOn, Fail
<1>3. ASSUME NEW b \in Backends, Selects(b), HalfAdded(cur, b), Mislead(cur, b # active), Stops,
             UNCHANGED <<admin, active>>
      PROVE  /\ Selects(b) /\ ~Borrowable(cur, b)
             /\ Touches(cur)
             /\ marker' = [marker EXCEPT ![b] = @ \cup {cur}]
             /\ cur \notin misled' => b = active
             /\ pc' \in {"undo", "idle"} /\ (Failures \/ Crashes)
  BY <1>1, <1>3, AddDone, FirewallAssumption DEF HalfAdded, Borrowable, AdminSays, Stops, Fail, Die
<1> QED
  BY <1>1, <1>2, <1>3 DEF Ensure

----------------------------------------------------------------------------
(* Types.                                                                  *)

\* Every step keeps the variables within their types, switches included.
LEMMA TypeStep ==
    ASSUME TInv, [Next]_vars
    PROVE  TInv'
<1> USE FirewallAssumption DEF TypeOK, LocalsOK, RuleSteps, CloseSteps, store, nodes, process, call
<1> SUFFICES (TypeOK /\ LocalsOK)'
  BY HostStep DEF TInv
<1>h. HostTypes'
  BY HostStep DEF HostOK
<1>t. TypeOK /\ LocalsOK
  BY DEF TInv
\* The call ends, for whatever reason.
<1>e. ASSUME (Fail /\ UNCHANGED store) \/ Die
      PROVE  (TypeOK /\ LocalsOK)'
  <2>1. up' \in BOOLEAN /\ verified' \in BOOLEAN
    <3>1. CASE Fail
      BY <3>1 DEF Fail
    <3>2. CASE Die
      BY <3>2 DEF Die
    <3> QED
      BY <1>e, <3>1, <3>2
  <2> QED
    BY <1>h, <1>t, <1>e, <2>1 DEF Fail, Die, Return, HostTypes
<1>1. CASE Startup \/ Operation \/ Compensate
  BY <1>h, <1>t, <1>1 DEF Startup, Operation, Compensate, BeginSync, Stale, Tracked, HostTypes
<1>2. ASSUME NEW r \in Rules, CloseStale(r) \/ Track(r)
      PROVE  (TypeOK /\ LocalsOK)'
  BY <1>e, <1>h, <1>t, <1>2 DEF CloseStale, Track, TrackFirewallRule, Stops, FailedWrite, HostTypes
<1>3. CASE ForgetStale \/ StaleDone \/ ReadBackend
  BY <1>e, <1>h, <1>t, <1>3 DEF ForgetStale, StaleDone, ReadBackend, ForgetFirewallRule,
     FailedWrite, HostTypes
<1>4. CASE Migrate \/ Retract
  BY <1>e, <1>h, <1>t, <1>4 DEF Migrate, Retract, Stops, HostTypes
<1>5. CASE Ensure
  <2>1. CASE UNCHANGED store /\ Fail
    BY <1>e, <2>1
  <2>2. ASSUME NEW b \in Backends, EnsureOn(b), UNCHANGED store, ~Fail
        PROVE  /\ UNCHANGED <<nodes, store, process, job, todo, cur, was, outcome>>
               /\ pc' \in {"record", "retract"}
               /\ seen' \in Backends /\ got' \in {"owned", "borrowed"}
               /\ pc' = "retract" => got' = "owned"
               /\ pc = "open"
    BY <1>5, <1>t, <2>2 DEF Ensure, EnsureOn
  <2>3. CASE \E b \in Backends : EnsureOn(b) /\ UNCHANGED store /\ ~Fail
    BY <1>h, <1>t, <2>2, <2>3 DEF HostTypes
  <2> QED
    BY <1>5, <1>e, <2>1, <2>3 DEF Ensure, Stops
<1>6. CASE Record
  BY <1>e, <1>h, <1>t, <1>6 DEF Record, SetFirewallRuleOwnership, FailedWrite, HostTypes
<1>7. CASE FinishSync \/ FinishCleanup
  <2>1. up' \in BOOLEAN /\ verified' \in BOOLEAN
    <3>1. CASE FinishSync
      BY <3>1 DEF FinishSync
    <3>2. CASE FinishCleanup
      BY <1>t, <3>2 DEF FinishCleanup
    <3> QED
      BY <1>7, <3>1, <3>2
  <2> QED
    BY <1>h, <1>t, <1>7, <2>1 DEF FinishSync, FinishCleanup, Return, HostTypes
<1>8. CASE BeginCleanup \/ CleanupForget
  BY <1>h, <1>t, <1>8 DEF BeginCleanup, CleanupSet, Tracked, CleanupForget, ForgetFirewallRule, HostTypes
<1>9. ASSUME NEW r \in Rules, CleanupClose(r) \/ CleanupCut(r)
      PROVE  (TypeOK /\ LocalsOK)'
  BY <1>e, <1>h, <1>t, <1>9 DEF CleanupClose, CleanupCut, HostTypes
<1>10. CASE Restart \/ Crash \/ SwitchBackend
  BY <1>e, <1>h, <1>t, <1>10 DEF Restart, Crash, SwitchBackend, HostTypes
<1>11. CASE UNCHANGED vars
  BY <1>h, <1>t, <1>11 DEF vars, HostTypes
<1> QED
  BY <1>1, <1>2, <1>3, <1>4, <1>5, <1>6, <1>7, <1>8, <1>9, <1>10, <1>11
  DEF Next, SyncStep, CleanupStep

----------------------------------------------------------------------------
(* The loops, whatever the backends do.                                    *)

\* A row that must go is in the loop's work list until it is gone, and the
\* opening loop adds rows for wanted rules only.
LEMMA LoopsStep ==
    ASSUME TInv, OpensWanted, StaleLoop, CleanupLoop, OutcomeAtEnd, [Next]_vars
    PROVE  OpensWanted' /\ StaleLoop' /\ CleanupLoop' /\ OutcomeAtEnd'
<1> USE DEF TInv, TypeOK, LocalsOK, OpensWanted, EnsureSteps, RuleSteps, CloseSteps, Tracked, Synced,
        StaleLoop, CleanupLoop, OutcomeAtEnd, store, nodes, process, call,
        Fail, Die, Stops, Return, FailedWrite
<1> DEFINE Goal == OpensWanted' /\ StaleLoop' /\ CleanupLoop' /\ OutcomeAtEnd'
<1>1. CASE Startup \/ Operation \/ Compensate
  BY <1>1 DEF Startup, Operation, Compensate, BeginSync, Stale
<1>2. ASSUME NEW r \in Rules, CloseStale(r)
      PROVE  Goal
  BY <1>2 DEF CloseStale
<1>3. ASSUME NEW r \in Rules, CleanupClose(r) \/ CleanupCut(r)
      PROVE  Goal
  BY <1>3 DEF CleanupClose, CleanupCut
<1>4. CASE ForgetStale
  BY <1>4 DEF ForgetStale, ForgetFirewallRule
<1>5. CASE CleanupForget
  BY <1>5 DEF CleanupForget, ForgetFirewallRule
<1>6. CASE StaleDone \/ ReadBackend \/ Migrate \/ Retract
  BY <1>6 DEF StaleDone, ReadBackend, Migrate, Retract
<1>7. ASSUME NEW r \in Rules, Track(r)
      PROVE  Goal
  BY <1>7 DEF Track, TrackFirewallRule
<1>8. CASE Ensure
  BY <1>8 DEF Ensure, EnsureOn
<1>9. CASE Record
  BY <1>9 DEF Record, SetFirewallRuleOwnership
<1>10. CASE FinishSync \/ BeginCleanup \/ FinishCleanup
  BY <1>10 DEF FinishSync, BeginCleanup, CleanupSet, FinishCleanup
<1>11. CASE Restart \/ Crash \/ SwitchBackend
  BY <1>11 DEF Restart, Crash, SwitchBackend
<1>12. CASE UNCHANGED vars
  BY <1>12 DEF vars
<1> QED
  BY <1>1, <1>2, <1>3, <1>4, <1>5, <1>6, <1>7, <1>8, <1>9, <1>10, <1>11, <1>12
  DEF Next, SyncStep, CleanupStep

----------------------------------------------------------------------------
(* One backend: failures and kills at every step.                          *)

\* The host, the rows and what was read of them stay on the one backend.
LEMMA BackendStep ==
    ASSUME TInv, OneBackend, [Next]_vars, ~Switches
    PROVE  OneBackend'
<1> USE DEF TInv, TypeOK, LocalsOK, RuleSteps, CloseSteps, store, nodes, process, call,
        Fail, Die, Stops, Return, FailedWrite
<1>1. CASE Startup \/ Operation \/ Compensate
  BY <1>1 DEF Startup, Operation, Compensate, BeginSync, OneBackend, host
<1>2. ASSUME NEW r \in Rules, CloseStale(r) \/ CleanupClose(r) \/ CleanupCut(r)
      PROVE  OneBackend'
  <2>1. UNCHANGED at /\ pc' \in {"forget", "undo", "idle", "stale"}
    BY <1>2 DEF CloseStale, CleanupClose, CleanupCut
  <2>2. UNCHANGED host \/ (Touches(r) /\ \A b \in Backends : marker'[b] \subseteq marker[b])
    BY <1>2, CloseDone, CloseFailed, CloseHalf DEF CloseStale, CleanupClose, CleanupCut
  <2> QED
    BY <2>1, <2>2 DEF OneBackend, host, Touches
<1>3. CASE ForgetStale \/ StaleDone \/ ReadBackend \/ CleanupForget
  BY <1>3 DEF ForgetStale, StaleDone, ReadBackend, CleanupForget, ForgetFirewallRule, OneBackend, host
<1>4. ASSUME NEW r \in Rules, Track(r)
      PROVE  OneBackend'
  BY <1>4 DEF Track, TrackFirewallRule, OneBackend, host
<1>5. CASE Migrate
  <2>1. UNCHANGED at /\ pc' \in {"open", "undo", "idle"} /\ cur \in Rules
    BY <1>5 DEF Migrate
  <2>2. UNCHANGED host \/ (Touches(cur) /\ \A b \in Backends : marker'[b] \subseteq marker[b])
    BY <1>5, <2>1, CloseDone, CloseFailed, CloseHalf DEF Migrate
  <2> QED
    BY <2>1, <2>2 DEF OneBackend, host, Touches
<1>6. CASE Ensure
  <2>1. CASE UNCHANGED host
    BY <1>6, <2>1, EnsureEffect, FirewallAssumption DEF OneBackend, host, Borrowable, AdminSays, Selects, Backends, Touches
  <2>2. ASSUME NEW b \in Backends,
               Touches(cur),
               marker' = [marker EXCEPT ![b] = @ \cup {cur}],
               cur \notin misled' => b = active,
               pc' \in {"undo", "idle"} \/ (seen' = b /\ cur' = cur)
        PROVE  OneBackend'
    <3>1. \A c \in Backends : marker'[c] \subseteq IF c = b THEN marker[c] \cup {cur} ELSE marker[c]
      BY <2>2 DEF HostOK, HostTypes
    <3> QED
      BY <1>6, <2>2, <3>1, EnsureEffect DEF OneBackend, Touches
  <2> QED
    BY <1>6, <2>1, <2>2, EnsureEffect
<1>7. CASE Retract
  <2>1. UNCHANGED at /\ pc' \in {"undo", "idle"} /\ cur \in Rules
    BY <1>7 DEF Retract
  <2>2. /\ active' = active /\ misled \subseteq misled'
        /\ \A b \in Backends : marker'[b] \subseteq marker[b]
    BY <1>7, <2>1, CloseDone, CloseHalf DEF Retract, Touches, Mislead
  <2> QED
    BY <2>1, <2>2 DEF OneBackend
<1>8. CASE Record
  BY <1>8 DEF Record, SetFirewallRuleOwnership, OneBackend, host
<1>9. CASE FinishSync \/ BeginCleanup \/ FinishCleanup \/ Restart \/ Crash
  BY <1>9 DEF FinishSync, BeginCleanup, FinishCleanup, Restart, Crash, OneBackend, host
<1>10. CASE SwitchBackend
  BY <1>10 DEF SwitchBackend
<1>11. CASE UNCHANGED vars
  BY <1>11 DEF vars, OneBackend, host
<1> QED
  BY <1>1, <1>2, <1>3, <1>4, <1>5, <1>6, <1>7, <1>8, <1>9, <1>10, <1>11
  DEF Next, SyncStep, CleanupStep

\* Every opening has its row, and a borrowed row has no opening: a row is
\* written before the opening and dropped after it.
LEMMA RowsStep ==
    ASSUME TInv, OneBackend, RowsTrue, [Next]_vars, ~Switches
    PROVE  RowsTrue'
<1> USE DEF TInv, TypeOK, LocalsOK, RuleSteps, CloseSteps, Tracked, store, nodes, process, call,
        Fail, Die, Stops, Return, FailedWrite
<1>1. CASE Startup \/ Operation \/ Compensate
  BY <1>1 DEF Startup, Operation, Compensate, BeginSync, RowsTrue, Borrows, host
<1>2. ASSUME NEW r \in Rules, CloseStale(r) \/ CleanupClose(r) \/ CleanupCut(r)
      PROVE  RowsTrue'
  <2>1. UNCHANGED own /\ pc' \in {"forget", "undo", "idle", "stale"}
    BY <1>2 DEF CloseStale, CleanupClose, CleanupCut
  <2>2. /\ UNCHANGED <<admin, active>>
        /\ misled \subseteq misled'
        /\ marker'[active] \subseteq marker[active]
    BY <1>2, CloseDone, CloseFailed, CloseHalf DEF CloseStale, CleanupClose, CleanupCut, Touches, host
  <2>3. pc' = "forget" => cur' = r /\ (r \in misled' \/ r \notin marker'[active])
    <3>1. CASE own[r] = "borrowed" /\ UNCHANGED host
      BY <1>2, <3>1 DEF CloseStale, CleanupClose, CleanupCut, RowsTrue, Borrows, host
    <3>2. CASE CloseOK(r, at[r])
      <4>1. r \notin misled' => r \notin misled /\ at[r] \in {Unknown, active}
        BY <3>2, CloseDone DEF OneBackend, Touches
      <4> QED
        BY <1>2, <3>2, <4>1, CloseDone DEF CloseStale, CleanupClose, CleanupCut
    <3> QED
      BY <1>2, <3>1, <3>2 DEF CloseStale, CleanupClose, CleanupCut
  <2> QED
    BY <2>1, <2>2, <2>3 DEF RowsTrue, Borrows
<1>3. CASE ForgetStale \/ CleanupForget
  <2>1. CASE ForgetFirewallRule(cur)
    BY <1>3, <2>1 DEF ForgetStale, CleanupForget, ForgetFirewallRule, RowsTrue, Borrows, host
  <2>2. CASE UNCHANGED store
    BY <1>3, <2>2 DEF ForgetStale, CleanupForget, RowsTrue, Borrows, host
  <2> QED
    BY <1>3, <2>1, <2>2 DEF ForgetStale, CleanupForget
<1>4. CASE StaleDone \/ ReadBackend
  BY <1>4 DEF StaleDone, ReadBackend, RowsTrue, Borrows, host
<1>5. ASSUME NEW r \in Rules, Track(r)
      PROVE  RowsTrue'
  BY <1>5 DEF Track, TrackFirewallRule, RowsTrue, Borrows, host
<1>6. CASE Migrate \/ Retract
  <2>1. /\ UNCHANGED own /\ pc' \in {"open", "undo", "idle"} /\ cur \in Rules
        /\ pc' = "open" => UNCHANGED cur
    BY <1>6 DEF Migrate, Retract
  <2>2. /\ UNCHANGED <<admin, active>>
        /\ misled \subseteq misled'
        /\ marker'[active] \subseteq marker[active]
    BY <1>6, <2>1, CloseDone, CloseFailed, CloseHalf DEF Migrate, Retract, Touches, Mislead, host
  <2> QED
    BY <1>6, <2>1, <2>2 DEF Migrate, Retract, RowsTrue, Borrows
<1>7. CASE Ensure
  <2> USE EnsureEffect
  <2>1. cur \in Tracked /\ cur \in Rules /\ UNCHANGED own
    BY <1>7 DEF RowsTrue
  <2>2. CASE UNCHANGED host
    BY <1>7, <2>1, <2>2, FirewallAssumption
    DEF host, Borrowable, AdminSays, Selects, RowsTrue, Borrows, Backends, Touches
  <2>3. ASSUME NEW b \in Backends,
               ~Borrowable(cur, b),
               Touches(cur),
               marker' = [marker EXCEPT ![b] = @ \cup {cur}],
               cur \notin misled' => b = active,
               pc' \in {"undo", "idle"} \/ (got' = "owned" /\ cur' = cur /\ pc' # "forget")
        PROVE  RowsTrue'
    <3>1. \A c \in Backends : marker'[c] = IF c = b THEN marker[c] \cup {cur} ELSE marker[c]
      BY <2>3 DEF HostOK, HostTypes
    <3>2. cur \notin misled' => own[cur] # "borrowed"
      BY <2>1, <2>3 DEF RowsTrue, Borrows, Borrowable, AdminSays, Touches
    <3> QED
      BY <2>1, <2>3, <3>1, <3>2 DEF RowsTrue, Borrows, Touches
  <2> QED
    BY <1>7, <2>2, <2>3
<1>8. CASE Record
  BY <1>8 DEF Record, SetFirewallRuleOwnership, RowsTrue, Borrows, host
<1>9. CASE FinishSync \/ BeginCleanup \/ FinishCleanup \/ Restart \/ Crash
  BY <1>9 DEF FinishSync, BeginCleanup, FinishCleanup, Restart, Crash, RowsTrue, Borrows, host
<1>10. CASE SwitchBackend
  BY <1>10 DEF SwitchBackend
<1>11. CASE UNCHANGED vars
  BY <1>11 DEF vars, RowsTrue, Borrows, host
<1> QED
  BY <1>1, <1>2, <1>3, <1>4, <1>5, <1>6, <1>7, <1>8, <1>9, <1>10, <1>11
  DEF Next, SyncStep, CleanupStep

\* Until a first sync goes through, what is done stays open.
LEMMA EnsureStep ==
    ASSUME TInv, OpensWanted, OneBackend, RowsTrue, EnsureLoop, [Next]_vars, ~Switches
    PROVE  EnsureLoop'
<1> USE DEF TInv, TypeOK, LocalsOK, EnsureSteps, RuleSteps, CloseSteps, OpensWanted,
        EnsureLoop, store, nodes, process, call, Stops, Return
<1>e. ASSUME Fail \/ Die
      PROVE  EnsureLoop'
  BY <1>e DEF Fail, Die
<1>c. ASSUME pc' \in {"idle", "undo", "stale", "forget"}
      PROVE  EnsureLoop'
  BY <1>c
<1>1. CASE Startup \/ Operation \/ Compensate
  BY <1>1 DEF Startup, Operation, Compensate, BeginSync
<1>2. ASSUME NEW r \in Rules, CloseStale(r) \/ CleanupClose(r) \/ CleanupCut(r)
      PROVE  EnsureLoop'
  <2>1. (pc' \in {"forget", "stale"}) \/ Fail \/ Die
    BY <1>2 DEF CloseStale, CleanupClose, CleanupCut
  <2> QED
    BY <1>c, <1>e, <2>1
<1>3. CASE ForgetStale \/ CleanupForget
  BY <1>e, <1>c, <1>3 DEF ForgetStale, CleanupForget, FailedWrite
<1>4. CASE StaleDone
  BY <1>4 DEF StaleDone, Skips
<1>5. ASSUME NEW r \in Rules, Track(r)
      PROVE  EnsureLoop'
  BY <1>e, <1>5 DEF Track, FailedWrite, Held, host
<1>6. CASE ReadBackend
  BY <1>e, <1>6 DEF ReadBackend, FailedWrite, Held, host
<1>7. CASE Migrate
  <2>1. cur \in Rules /\ cur \in todo
    BY <1>7 DEF Migrate
  <2>2. CASE pc' = "open" /\ (UNCHANGED host \/ CloseOK(cur, at[cur]))
    <3>1. UNCHANGED <<desired, todo, verified>>
      BY <1>7, <2>2 DEF Migrate, Fail, Die
    <3>2. \A r \in Rules \ {cur} : Held(r) => Held(r)'
      BY <2>1, <2>2, CloseDone DEF Held, host, Touches
    <3> QED
      BY <1>7, <2>1, <2>2, <3>1, <3>2 DEF Migrate
  <2> QED
    BY <1>e, <1>7, <2>2 DEF Migrate
<1>8. CASE Retract
  BY <1>e, <1>8 DEF Retract
<1>9. CASE Ensure
  <2> USE EnsureEffect
  <2>0. cur \in Rules /\ cur \in todo /\ pc = "open" /\ UNCHANGED desired
    BY <1>9
  <2>1. CASE UNCHANGED host
    <3>1. \A r \in Rules : Held(r) => Held(r)'
      BY <2>1 DEF Held, host
    <3>2. CASE pc' = "record" /\ UNCHANGED <<process, todo, cur, seen>> /\ Borrowable(cur, seen) /\ Selects(seen)
      <4>1. Held(cur)'
        BY <2>1, <3>2, FirewallAssumption DEF Borrowable, AdminSays, Selects, Held, host
      <4> QED
        BY <2>0, <3>1, <3>2, <4>1
    <3>3. CASE \E b \in Backends :
                  /\ Touches(cur)
                  /\ marker' = [marker EXCEPT ![b] = @ \cup {cur}]
                  /\ cur \notin misled' => b = active
                  /\ pc' \in {"undo", "idle"} \/ UNCHANGED <<process, todo, cur>>
      <4>1. \A r \in Rules : r = cur => Held(r)'
        BY <2>0, <3>3 DEF Held, Touches, HostOK, HostTypes
      <4> QED
        BY <1>c, <2>0, <3>1, <3>3, <4>1
    <3> QED
      BY <1>9, <1>c, <3>2, <3>3
  <2>2. ASSUME NEW b \in Backends,
               Touches(cur),
               marker' = [marker EXCEPT ![b] = @ \cup {cur}],
               cur \notin misled' => b = active,
               pc' \in {"undo", "idle"} \/ UNCHANGED <<process, todo, cur>>
        PROVE  EnsureLoop'
    <3>1. \A r \in Rules : r = cur => Held(r)'
      BY <2>0, <2>2 DEF Held, Touches, HostOK, HostTypes
    <3>2. \A r \in Rules : Held(r) => Held(r)'
      BY <2>2 DEF Held, Touches, HostOK, HostTypes
    <3> QED
      BY <1>c, <2>0, <2>2, <3>1, <3>2
  <2> QED
    BY <1>9, <2>1, <2>2
<1>10. CASE Record
  BY <1>e, <1>10 DEF Record, FailedWrite, Held, host
<1>11. CASE FinishSync \/ BeginCleanup \/ FinishCleanup \/ Restart \/ Crash
  BY <1>e, <1>c, <1>11 DEF FinishSync, BeginCleanup, FinishCleanup, Restart, Crash
<1>12. CASE SwitchBackend
  BY <1>12 DEF SwitchBackend
<1>13. CASE UNCHANGED vars
  BY <1>13 DEF vars, Held, host
<1> QED
  BY <1>1, <1>2, <1>3, <1>4, <1>5, <1>6, <1>7, <1>8, <1>9, <1>10, <1>11, <1>12, <1>13
  DEF Next, SyncStep, CleanupStep

----------------------------------------------------------------------------

\* Initially there is nothing.
LEMMA InitOK ==
    ASSUME Init
    PROVE  TInv /\ OpensWanted /\ StaleLoop /\ CleanupLoop /\ OutcomeAtEnd
BY FirewallAssumption
DEF Init, TInv, TypeOK, LocalsOK, HostOK, HostTypes, Whole, OpensWanted, StaleLoop, CleanupLoop,
    OutcomeAtEnd, Synced, Tracked, EnsureSteps, RuleSteps, CloseSteps, Backends

\* The types of FirewallSync's variables hold in every reachable state, with
\* failures, kills and backend switches.
THEOREM TypeCorrect == Spec => []TypeOK
<1>1. Init => TInv
  BY InitOK
<1>2. TInv /\ [Next]_vars => TInv'
  BY TypeStep
<1>3. TInv => TypeOK
  BY DEF TInv
<1> QED
  BY <1>1, <1>2, <1>3, PTL DEF Spec

\* IInv holds of every reachable state while there is one backend.
THEOREM Invariance ==
    ASSUME ~Switches
    PROVE  Spec => []IInv
<1>1. Init => IInv
  BY InitOK, FirewallAssumption
  DEF Init, IInv, OneBackend, RowsTrue, EnsureLoop, Tracked, EnsureSteps, RuleSteps, Backends
<1>2. IInv /\ [Next]_vars => IInv'
  BY TypeStep, BackendStep, RowsStep, LoopsStep, EnsureStep DEF IInv
<1> QED
  BY <1>1, <1>2, PTL DEF Spec

----------------------------------------------------------------------------
(* The administrator changes the backend, but commands and writes succeed   *)
(* and J-UI is not killed.  The rows then say where each opening is, except *)
(* between Ensure and the record of what it did.                            *)

RowsOf ==
    \A b \in Backends : \A r \in marker[b] \ misled :
        \/ own[r] = "owned" /\ at[r] = b
        \/ pc \in {"record", "retract"} /\ cur = r /\ seen = b /\ got = "owned"

\* Nothing of the rule being opened is left elsewhere, and nothing at all of a
\* rule being forgotten, or about to be recorded as borrowed.
CurOnSeen ==
    cur \notin misled =>
        /\ pc \in {"open", "record"} => \A b \in Backends \ {seen} : cur \notin marker[b]
        /\ pc = "forget" => \A b \in Backends : cur \notin marker[b]
        /\ (pc = "record" /\ got = "borrowed") => \A b \in Backends : cur \notin marker[b]

\* A rule without a row at the start owns nothing before its turn.
NewRows ==
    /\ (pc \in CloseSteps /\ job # "cleanup") => Tracked \subseteq was
    /\ pc \in EnsureSteps => \A r \in todo \ was : own[r] \in {"none", "pending"}

SInv ==
    /\ TInv
    /\ OpensWanted
    /\ StaleLoop
    /\ CleanupLoop
    /\ OutcomeAtEnd
    /\ RowsOf
    /\ CurOnSeen
    /\ NewRows

\* Closing a rule where its row says leaves nothing of it.
LEMMA CloseWhereRecorded ==
    ASSUME TInv, RowsOf, pc \notin {"record", "retract"}, NEW r \in Rules, CloseOK(r, at[r])
    PROVE  r \notin misled' => \A b \in Backends : r \notin marker'[b]
<1>1. at[r] \in Backends \cup {Unknown}
  BY DEF TInv, TypeOK
<1>2. r \notin misled' => r \notin misled
  BY <1>1, CloseDone DEF TInv, Touches
<1>3. r \notin misled => \A b \in Backends : r \in marker[b] => at[r] = b /\ at[r] # Unknown
  BY FirewallAssumption DEF RowsOf
<1>4. \A b \in Backends : marker'[b] \subseteq marker[b]
  BY <1>1, CloseDone DEF TInv
<1> QED
  BY <1>1, <1>2, <1>3, <1>4, CloseDone DEF TInv

LEMMA WantedStep ==
    ASSUME TInv, OpensWanted, NewRows, [Next]_vars
    PROVE  NewRows'
<1> USE FirewallAssumption DEF TInv, TypeOK, LocalsOK, EnsureSteps, RuleSteps, CloseSteps, Tracked,
        OpensWanted, NewRows, store, nodes, process, call, Fail, Die, Stops, Return, FailedWrite
<1>1. CASE Startup \/ Operation \/ Compensate
  BY <1>1 DEF Startup, Operation, Compensate, BeginSync
<1>2. ASSUME NEW r \in Rules, CloseStale(r) \/ CleanupClose(r) \/ CleanupCut(r)
      PROVE  NewRows'
  BY <1>2 DEF CloseStale, CleanupClose, CleanupCut
<1>3. CASE ForgetStale \/ CleanupForget
  BY <1>3 DEF ForgetStale, CleanupForget, ForgetFirewallRule
<1>4. CASE StaleDone
  BY <1>4 DEF StaleDone
<1>5. ASSUME NEW r \in Rules, Track(r)
      PROVE  NewRows'
  BY <1>5 DEF Track, TrackFirewallRule
<1>6. CASE ReadBackend \/ Migrate \/ Retract
  BY <1>6 DEF ReadBackend, Migrate, Retract
<1>7. CASE Ensure
  BY <1>7 DEF Ensure, EnsureOn
<1>8. CASE Record
  BY <1>8 DEF Record, SetFirewallRuleOwnership
<1>9. CASE FinishSync \/ BeginCleanup \/ FinishCleanup
  BY <1>9 DEF FinishSync, BeginCleanup, FinishCleanup
<1>10. CASE Restart \/ Crash \/ SwitchBackend
  BY <1>10 DEF Restart, Crash, SwitchBackend
<1>11. CASE UNCHANGED vars
  BY <1>11 DEF vars
<1> QED
  BY <1>1, <1>2, <1>3, <1>4, <1>5, <1>6, <1>7, <1>8, <1>9, <1>10, <1>11
  DEF Next, SyncStep, CleanupStep

\* The rows go on saying where each opening is.
LEMMA RecordedStep ==
    ASSUME TInv, OpensWanted, NewRows, RowsOf, CurOnSeen, [Next]_vars, ~Failures, ~Crashes
    PROVE  RowsOf' /\ CurOnSeen'
<1> USE DEF TInv, TypeOK, LocalsOK, store, nodes, process, call
<1>a. ASSUME UNCHANGED <<store, marker, misled>>, pc \notin {"record", "retract"},
             pc' \notin {"open", "record", "forget"}
      PROVE  RowsOf' /\ CurOnSeen'
  BY <1>a DEF RowsOf, CurOnSeen
<1>b. ASSUME UNCHANGED store, pc \notin {"record", "retract"},
             pc' \notin {"open", "record", "forget"}, misled \subseteq misled',
             \A b \in Backends : marker'[b] \subseteq marker[b]
      PROVE  RowsOf' /\ CurOnSeen'
  BY <1>b DEF RowsOf, CurOnSeen
<1>1. CASE Startup \/ Operation \/ Compensate
  BY <1>1, <1>a DEF Startup, Operation, Compensate, BeginSync, host
<1>2. ASSUME NEW r \in Rules, CloseStale(r) \/ CleanupClose(r) \/ CleanupCut(r)
      PROVE  RowsOf' /\ CurOnSeen'
  <2>1. pc = "stale" /\ UNCHANGED store /\ pc' \in {"forget", "undo", "idle", "stale"}
    BY <1>2 DEF CloseStale, CleanupClose, CleanupCut, Fail, Stops
  <2>2. misled \subseteq misled' /\ \A b \in Backends : marker'[b] \subseteq marker[b]
    BY <1>2, CloseDone, CloseFailed DEF CloseStale, CleanupClose, CleanupCut, Stops, host, Touches
  <2>3. CASE pc' = "forget"
    <3>1. cur' = r
      BY <1>2, <2>1, <2>3 DEF CloseStale, CleanupClose, CleanupCut, Fail, Stops
    <3>2. r \notin misled' => \A b \in Backends : r \notin marker'[b]
      <4>1. CASE own[r] = "borrowed" /\ UNCHANGED host
        BY <2>1, <4>1 DEF RowsOf, host
      <4>2. CASE CloseOK(r, at[r])
        BY <2>1, <4>2, CloseWhereRecorded
      <4> QED
        BY <1>2, <2>1, <2>3, <4>1, <4>2 DEF CloseStale, CleanupClose, CleanupCut, Fail, Stops
    <3> QED
      BY <2>1, <2>2, <2>3, <3>1, <3>2 DEF RowsOf, CurOnSeen
  <2> QED
    BY <1>b, <2>1, <2>2, <2>3
<1>3. CASE ForgetStale \/ CleanupForget
  <2>1. /\ ForgetFirewallRule(cur) /\ pc = "forget" /\ pc' = "stale" /\ cur \in Rules
        /\ UNCHANGED host
    BY <1>3 DEF ForgetStale, CleanupForget, FailedWrite, RuleSteps
  <2> QED
    BY <2>1 DEF ForgetFirewallRule, RowsOf, CurOnSeen, host
<1>4. CASE StaleDone \/ ReadBackend
  BY <1>4, <1>a DEF StaleDone, ReadBackend, FailedWrite, host
<1>5. ASSUME NEW r \in Rules, Track(r)
      PROVE  RowsOf' /\ CurOnSeen'
  BY <1>5 DEF Track, TrackFirewallRule, FailedWrite, RowsOf, CurOnSeen, host
<1>6. CASE Migrate
  <2>1. pc = "migrate" /\ UNCHANGED store /\ pc' \in {"open", "undo", "idle"} /\ cur \in Rules
    BY <1>6 DEF Migrate, Fail, Stops, RuleSteps
  <2>2. misled \subseteq misled' /\ \A b \in Backends : marker'[b] \subseteq marker[b]
    BY <1>6, <2>1, CloseDone, CloseFailed DEF Migrate, Stops, host, Touches
  <2>3. CASE pc' = "open"
    <3>0. UNCHANGED <<cur, seen, got>>
      BY <1>6, <2>3 DEF Migrate, Fail, Stops
    <3>1. CASE CloseOK(cur, at[cur])
      BY <2>1, <2>2, <2>3, <3>0, <3>1, CloseWhereRecorded DEF RowsOf, CurOnSeen
    <3>2. CASE ~Elsewhere(cur) /\ UNCHANGED host
      <4>1. cur \notin misled =>
                \A b \in Backends : cur \in marker[b] => own[cur] = "owned" /\ at[cur] = b /\ b # Unknown
        BY <2>1, FirewallAssumption DEF RowsOf
      <4>2. own[cur] = "owned" => cur \in was
        BY <2>1 DEF NewRows, OpensWanted, RuleSteps, EnsureSteps
      <4> QED
        BY <2>1, <2>3, <3>0, <3>2, <4>1, <4>2 DEF Elsewhere, RowsOf, CurOnSeen, host
    <3> QED
      BY <1>6, <2>3, <3>1, <3>2 DEF Migrate, Fail, Stops
  <2> QED
    BY <1>b, <2>1, <2>2, <2>3
<1>7. CASE Ensure
  <2> USE EnsureEffect
  <2>1. pc = "open" /\ UNCHANGED store /\ cur \in Rules
    BY <1>7
  <2>2. CASE UNCHANGED host /\ pc' \in {"undo", "idle"}
    BY <1>a, <2>1, <2>2 DEF host
  <2>3. CASE /\ UNCHANGED <<host, cur, seen>>
             /\ pc' = "record" /\ got' = "borrowed"
             /\ Borrowable(cur, seen) /\ Selects(seen)
    <3>1. cur \notin marker[seen]
      BY <2>3 DEF Borrowable, AdminSays
    <3> QED
      BY <2>1, <2>3, <3>1 DEF RowsOf, CurOnSeen, host
  <2>4. ASSUME NEW b \in Backends,
               Touches(cur),
               marker' = [marker EXCEPT ![b] = @ \cup {cur}],
               UNCHANGED cur, pc' = (IF b = seen THEN "record" ELSE "retract"),
               seen' = b, got' = "owned"
        PROVE  RowsOf' /\ CurOnSeen'
    <3>1. \A c \in Backends : marker'[c] = IF c = b THEN marker[c] \cup {cur} ELSE marker[c]
      BY <2>4 DEF HostOK, HostTypes
    <3> QED
      BY <2>1, <2>4, <3>1 DEF RowsOf, CurOnSeen, Touches
  <2> QED
    BY <1>7, <2>2, <2>3, <2>4
<1>8. CASE Retract
  <2>1. pc = "retract" /\ cur \in Rules /\ seen \in Backends /\ pc' \in {"undo", "idle"} /\ UNCHANGED store
    BY <1>8 DEF Retract, RuleSteps, Fail, Stops
  <2>2. /\ misled \subseteq misled'
        /\ \A b \in Backends : marker'[b] \subseteq marker[b]
        /\ cur \in misled' \/ cur \notin marker'[seen]
    <3>1. CASE CloseOK(cur, seen)
      BY <2>1, <3>1, CloseDone, FirewallAssumption DEF Touches
    <3>2. CASE ~Works(seen) /\ Mislead(cur, seen # active) /\ UNCHANGED marker
      BY <2>1, <3>2 DEF Works, Mislead
    <3> QED
      BY <1>8, <3>1, <3>2 DEF Retract, Stops
  <2> QED
    BY <2>1, <2>2 DEF RowsOf, CurOnSeen
<1>9. CASE Record
  <2>1. /\ SetFirewallRuleOwnership(cur, got, seen) /\ pc = "record" /\ pc' = "ensure"
        /\ UNCHANGED host /\ cur \in Rules /\ got \in {"owned", "borrowed"}
    BY <1>9 DEF Record, FailedWrite, RuleSteps
  <2> QED
    BY <2>1 DEF SetFirewallRuleOwnership, RowsOf, CurOnSeen, host
<1>10. CASE FinishSync \/ BeginCleanup \/ FinishCleanup \/ Restart \/ Crash
  BY <1>10, <1>a DEF FinishSync, BeginCleanup, FinishCleanup, Restart, Crash, host
<1>11. CASE SwitchBackend \/ UNCHANGED vars
  BY <1>11 DEF SwitchBackend, vars, RowsOf, CurOnSeen, host
<1> QED
  BY <1>1, <1>2, <1>3, <1>4, <1>5, <1>6, <1>7, <1>8, <1>9, <1>10, <1>11
  DEF Next, SyncStep, CleanupStep

\* SInv holds of every reachable state while nothing fails and J-UI lives.
THEOREM SwitchInvariance ==
    ASSUME ~Failures, ~Crashes
    PROVE  Spec => []SInv
<1>1. Init => SInv
  BY InitOK, FirewallAssumption
  DEF Init, SInv, RowsOf, CurOnSeen, NewRows, EnsureSteps, CloseSteps, Backends
<1>2. SInv /\ [Next]_vars => SInv'
  BY TypeStep, LoopsStep, WantedStep, RecordedStep DEF SInv
<1> QED
  BY <1>1, <1>2, PTL DEF Spec

----------------------------------------------------------------------------
(* The properties.                                                         *)

\* What is in force follows from what the queries find.
LEMMA Widens ==
    ASSUME TInv, NEW rules, \A b \in Backends : marker[b] \subseteq rules \cup misled
    PROVE  OpenOnly(rules)
BY DEF TInv, HostOK, Whole, OpenOnly

\* Every opening has its row, but for the rules J-UI was misled about and what
\* a half-done operation left in force: whenever J-UI is killed and whichever
\* command, probe or write fails, while there is one backend, and whenever the
\* backend changes, while nothing fails.
THEOREM NothingLeaks ==
    ASSUME ~Switches \/ (~Failures /\ ~Crashes)
    PROVE  Spec => []NoLeak
<1>1. IInv => NoLeak
  BY Widens DEF IInv, RowsTrue, OneBackend, NoLeak
<1>2. SInv => NoLeak
  <2>1. ASSUME SInv, NEW b \in Backends
        PROVE  marker[b] \subseteq Tracked \cup misled
    BY <2>1 DEF SInv, TInv, HostOK, HostTypes, RowsOf, OpensWanted, Tracked, RuleSteps
  <2> QED
    BY <2>1, Widens DEF SInv, NoLeak
<1>3. CASE ~Switches
  BY <1>1, <1>3, Invariance, PTL
<1>4. CASE ~Failures /\ ~Crashes
  BY <1>2, <1>4, SwitchInvariance, PTL
<1> QED
  BY <1>3, <1>4

\* A sync that succeeded leaves no opening that no node wants, on no backend,
\* with the same exceptions.
THEOREM NothingExtra ==
    ASSUME ~Switches \/ (~Failures /\ ~Crashes)
    PROVE  Spec => []OnlyDesiredOpen
<1>1. IInv => OnlyDesiredOpen
  <2>1. ASSUME IInv, Synced, NEW b \in Backends
        PROVE  marker[b] \subseteq desired \cup misled
    BY <2>1 DEF IInv, RowsTrue, OneBackend, StaleLoop
  <2> QED
    BY <2>1, Widens DEF IInv, OnlyDesiredOpen
<1>2. SInv => OnlyDesiredOpen
  <2>1. ASSUME SInv, Synced, NEW b \in Backends
        PROVE  marker[b] \subseteq desired \cup misled
    BY <2>1 DEF SInv, TInv, HostOK, HostTypes, RowsOf, StaleLoop, Synced, Tracked
  <2> QED
    BY <2>1, Widens DEF SInv, OnlyDesiredOpen
<1>3. CASE ~Switches
  BY <1>1, <1>3, Invariance, PTL
<1>4. CASE ~Failures /\ ~Crashes
  BY <1>2, <1>4, SwitchInvariance, PTL
<1> QED
  BY <1>3, <1>4

\* A row that says "borrowed", and is therefore forgotten without a Close, goes
\* with no rule of J-UI's on any backend (service.go:1327), unless J-UI was
\* misled about it.
THEOREM BorrowedIsOthers ==
    ASSUME ~Switches \/ (~Failures /\ ~Crashes)
    PROVE  Spec => []BorrowedHasNoMarker
<1>1. IInv => BorrowedHasNoMarker
  BY DEF IInv, RowsTrue, Borrows, OneBackend, BorrowedHasNoMarker
<1>2. SInv => BorrowedHasNoMarker
  BY DEF SInv, RowsOf, BorrowedHasNoMarker
<1>3. CASE ~Switches
  BY <1>1, <1>3, Invariance, PTL
<1>4. CASE ~Failures /\ ~Crashes
  BY <1>2, <1>4, SwitchInvariance, PTL
<1> QED
  BY <1>3, <1>4

\* The first sync that goes through in a process leaves every wanted port
\* open, but for the rules J-UI was misled about or whose commands were cut.
THEOREM StartupRepairs ==
    ASSUME ~Switches
    PROVE  Spec => FreshSyncOpens
<1>1. IInv /\ [Next]_vars =>
          [(~verified /\ verified')
               => \A r \in desired \ (misled \cup cut[active]) : Opened(r)']_vars
  <2> SUFFICES ASSUME IInv, Next, ~verified, verified', NEW r \in desired \ (misled \cup cut[active])
               PROVE  Opened(r)'
    BY DEF FreshSyncOpens
  <2>1. FinishSync
    BY DEF Next, SyncStep, CleanupStep, Startup, Operation, Compensate, BeginSync, CloseStale, Track,
       ForgetStale, StaleDone, ReadBackend, Migrate, Ensure, EnsureOn, Retract, Record, BeginCleanup,
       CleanupClose, CleanupCut, CleanupForget, FinishCleanup, Restart, Crash, SwitchBackend,
       Fail, Die, Stops, FailedWrite, process
  <2>2. UNCHANGED <<desired, host>> /\ todo = {} /\ pc = "ensure"
    BY <2>1 DEF FinishSync
  <2>3. Held(r) /\ r \notin misled \cup cut[active]
    BY <2>2 DEF IInv, EnsureLoop, EnsureSteps, host
  <2>4. Opened(r)
    BY <2>3 DEF IInv, TInv, HostOK, HostTypes, Whole, Held, Opened
  <2> QED
    BY <2>2, <2>4 DEF Opened, host
<1> QED
  BY <1>1, Invariance, PTL DEF FreshSyncOpens, Spec

\* A clean-up that reports success has closed every opening, with the same
\* exceptions.
THEOREM CleanupClosesAll ==
    ASSUME ~Switches \/ (~Failures /\ ~Crashes)
    PROVE  Spec => []CleanupComplete
<1>1. IInv => CleanupComplete
  <2>1. ASSUME IInv, pc = "idle", job = "cleanup", outcome = "ok", NEW b \in Backends
        PROVE  marker[b] \subseteq {} \cup misled
    BY <2>1 DEF IInv, RowsTrue, OneBackend, CleanupLoop
  <2> QED
    BY <2>1, Widens DEF IInv, CleanupComplete
<1>2. SInv => CleanupComplete
  <2>1. ASSUME SInv, pc = "idle", job = "cleanup", outcome = "ok", NEW b \in Backends
        PROVE  marker[b] \subseteq {} \cup misled
    BY <2>1 DEF SInv, TInv, HostOK, HostTypes, RowsOf, CleanupLoop, Tracked
  <2> QED
    BY <2>1, Widens DEF SInv, CleanupComplete
<1>3. CASE ~Switches
  BY <1>1, <1>3, Invariance, PTL
<1>4. CASE ~Failures /\ ~Crashes
  BY <1>2, <1>4, SwitchInvariance, PTL
<1> QED
  BY <1>3, <1>4

=============================================================================
