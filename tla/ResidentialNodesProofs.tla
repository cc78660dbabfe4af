----------------------- MODULE ResidentialNodesProofs -----------------------
(***************************************************************************)
(* Proofs about ResidentialNodes, for any number of requests of every kind *)
(* and any number of failures.                                             *)
(***************************************************************************)
EXTENDS ResidentialNodes, TLAPS

Locals == [exit : Ids \cup {0}, out : Ids \cup {0}, node : Ids \cup {0},
           source : Sources, reused : BOOLEAN, same : BOOLEAN]
GateCalls == {"vnew", "vdel"}
NodeCalls == {"onew", "odel", "ocheck", "clone", "ndel"}

\* The steps that a request of each role goes through, and the ids that its
\* locals hold by then.
ScriptOK(r) ==
    /\ role[r] = "job" => at[r] \in {"start", "lock", "find", "vnew", "clone", "uri",
                                     "ndel", "vdel", "done", "failed"}
    /\ role[r] = "manual" => at[r] \in {"lock", "onew", "ocheck", "clone", "uri",
                                        "ndel", "odel", "done", "failed"}
    /\ role[r] = "remove" => at[r] \in {"exit", "ndel", "list", "vdel", "odel", "done", "failed"}
    /\ role[r] = "config" => at[r] \in {"lock", "body", "work", "done", "failed"}
    /\ role[r] = "single" => at[r] \in Singles \cup {"idle", "done"}
    /\ busy[r] => at[r] \in Calls

LocalsOK(r) ==
    /\ at[r] \in {"clone", "odel", "ocheck"} => loc[r].out \in Ids
    /\ at[r] \in {"uri", "exit", "ndel"} => loc[r].node \in Ids
    /\ at[r] = "vdel" => loc[r].exit \in Ids
    /\ at[r] \in {"idle", "start", "lock", "find", "vnew"} => ~loc[r].reused
    /\ Within(r, "vnew") => loc[r].exit \in Ids /\ loc[r].out \in Ids
    /\ Within(r, "onew") => loc[r].out \in Ids
    /\ Within(r, "clone") => loc[r].node \in Ids
    /\ (role[r] = "job" /\ at[r] \in {"clone", "uri", "ndel"}) => loc[r].exit \in Ids
    /\ (role[r] = "manual" /\ at[r] \in {"uri", "ndel"}) => loc[r].out \in Ids
    /\ (role[r] = "remove" /\ at[r] \in {"exit", "ndel", "list"}) => loc[r].out \in Ids

\* A call that is under way holds the mutex of its service.
Locked ==
    \A r \in Requests :
        /\ vmu = r <=> (busy[r] /\ at[r] \in GateCalls)
        /\ nmu = r <=> (busy[r] /\ at[r] \in NodeCalls)

\* What a call that is under way relies on: the other service may write the
\* outbounds meanwhile.
Held(r) ==
    /\ Within(r, "vnew") => exits[loc[r].exit] # None
    /\ Within(r, "vdel") => exits[loc[r].exit] # None
    /\ Within(r, "onew") => outs[loc[r].out] = [kind |-> "manual", by |-> r]
    /\ Within(r, "odel") =>
        /\ saved[r] \in OutRows /\ saved[r].kind = "manual"
        /\ outs[loc[r].out] = None \/ outs[loc[r].out].kind = "vpngate"
    /\ Within(r, "ocheck") =>
        /\ saved[r] \in OutRows
        /\ saved[r].kind = "manual" => outs[loc[r].out] = saved[r]
        /\ saved[r].kind = "vpngate" =>
            (outs[loc[r].out] = None \/ outs[loc[r].out].kind = "vpngate")
    /\ Within(r, "clone") =>
        nodes[loc[r].node] = [out |-> loc[r].out, source |-> loc[r].source, by |-> r]
    /\ Within(r, "ndel") => saved[r] \in NodeRows /\ nodes[loc[r].node] = None

\* The inductive invariant for the tables.
TablesInv ==
    /\ TypeOK
    /\ \A r \in Requests : ScriptOK(r) /\ LocalsOK(r) /\ Held(r)
    /\ Locked
    /\ KindsAgree

\* What request r created and has not given up is where its locals say.
Owns(r) ==
    (r \notin spoiled /\ (at[r] = "idle" \/ role[r] \in {"job", "manual"})) =>
        /\ \A n \in Used(nodes) : nodes[n].by = r =>
            \/ at[r] = "done"
            \/ n = loc[r].node /\ (at[r] \in {"uri", "ndel"} \/ Within(r, "clone"))
        /\ \A q \in Requests : (Within(q, "ndel") /\ saved[q].by = r) =>
            \/ at[r] = "done"
            \/ q = r
            \/ loc[q].node = loc[r].node /\ at[r] \in {"uri", "ndel"}
        /\ \A e \in Used(exits) : exits[e].by = r =>
            \/ at[r] = "done"
            \/ /\ e = loc[r].exit /\ ~loc[r].reused /\ role[r] = "job"
               /\ at[r] \in {"clone", "uri", "ndel", "vdel"} \/ Within(r, "vnew")
        /\ \A o \in Used(outs) : (outs[o].kind = "manual" /\ outs[o].by = r) =>
            \/ at[r] = "done"
            \/ /\ o = loc[r].out /\ role[r] = "manual"
               /\ at[r] \in {"ocheck", "clone", "uri", "ndel", "odel"} \/ Within(r, "onew")
        /\ \A q \in Requests : (Within(q, "odel") /\ saved[q].by = r) =>
            \/ at[r] = "done"
            \/ q = r
            \/ /\ loc[q].out = loc[r].out /\ role[r] = "manual"
               /\ at[r] \in {"ocheck", "clone", "uri", "ndel", "odel"}

\* The removal that took an exit's last node is on its way to the exit.
Leaves(r) ==
    \A e \in Used(exits) : exits[e].left = r =>
        /\ role[r] = "remove"
        /\ Within(r, "ndel") \/ at[r] \in {"list", "vdel", "odel", "done", "failed"}
        /\ loc[r].same =>
            \/ at[r] = "failed"
            \/ at[r] = "done" /\ InUse(exits[e].out)
            \/ at[r] \in {"ndel", "list"} /\ exits[e].out = loc[r].out /\ loc[r].exit \in {0, e}
            \/ at[r] = "vdel" /\ loc[r].exit = e
            \/ Calling(r, "odel") /\ exits[e].out = loc[r].out

OwnsAll == \A r \in Requests : Owns(r)
LeavesAll == \A r \in Requests : Leaves(r)

----------------------------------------------------------------------------
(* Calls and steps in general.                                             *)

\* TypeOK in two parts: the tables, and everything else.
RowsOK ==
    /\ outs \in [Ids -> OutRows \cup {None}]
    /\ exits \in [Ids -> ExitRows \cup {None}]
    /\ nodes \in [Ids -> NodeRows \cup {None}]

Steps == Calls \cup {"idle", "start", "lock", "body", "work", "find", "uri",
                     "exit", "list", "done", "failed"}

RequestsOK ==
    /\ settings \in Requests \cup {None}
    /\ role \in [Requests -> Scripts \cup {"single", "config"}]
    /\ at \in [Requests -> Steps]
    /\ busy \in [Requests -> BOOLEAN]
    /\ loc \in [Requests -> Locals]
    /\ saved \in [Requests -> OutRows \cup NodeRows \cup {None}]
    /\ jobs \in [Requests -> {None, "queued", "running", "succeeded", "failed"}]
    /\ spoiled \subseteq Requests
    /\ faults \in 0..MaxFaults

LEMMA TypeParts == TypeOK <=> RowsOK /\ RequestsOK /\ {nmu, vmu} \subseteq Requests \cup {None}
BY DEF TypeOK, RowsOK, RequestsOK, Locals, Steps

LEMMA TypeAfter ==
  ASSUME RowsOK', RequestsOK', nmu' \in Requests \cup {None}, vmu' \in Requests \cup {None}
  PROVE  TypeOK'
BY DEF TypeOK, RowsOK, RequestsOK, Locals, Steps

\* Everybody but r stays where it is.
Others(r) ==
    \A q \in Requests \ {r} :
        /\ role'[q] = role[q] /\ at'[q] = at[q] /\ busy'[q] = busy[q]
        /\ loc'[q] = loc[q] /\ saved'[q] = saved[q]

LEMMA NoIdsTyped == NoIds \in Locals /\ \A b \in BOOLEAN : [NoIds EXCEPT !.same = b] \in Locals
BY DEF NoIds, Locals, Sources

\* Rows are told from the absence of one, and requests too.
LEMMA Distinct ==
  /\ None \notin Requests
  /\ \A row \in OutRows : row # None
  /\ \A row \in ExitRows : row # None
  /\ \A row \in NodeRows : row # None
BY ResidentialAssumption, RowsAssumption DEF Requests

\* next is the step after a call op of r that ended as how says, arm by arm.
Follows(r, op, how, l, next) ==
    /\ role[r] = "single" => next = "done"
    /\ role[r] = "remove" =>
        next = IF how # "ok" THEN "failed" ELSE IF op = "ndel" THEN "list" ELSE "done"
    /\ role[r] = "manual" =>
        /\ op = "onew" => next = IF how = "ok" THEN "ocheck" ELSE "failed"
        /\ op = "ocheck" => next = IF how = "ok" THEN "clone" ELSE "odel"
        /\ op = "clone" => next = IF how = "ok" THEN "uri" ELSE "odel"
        /\ op = "ndel" => next = "odel"
        /\ op = "odel" => next = "failed"
    /\ role[r] = "job" =>
        /\ op = "vnew" => next = IF how = "ok" THEN "clone" ELSE IF l.exit # 0 THEN "vdel" ELSE "failed"
        /\ op = "clone" => next = IF how = "ok" THEN "uri" ELSE IF l.reused THEN "failed" ELSE "vdel"
        /\ op = "ndel" => next = IF l.reused THEN "failed" ELSE "vdel"
        /\ op = "vdel" => next = "failed"

LEMMA AfterFollows ==
  ASSUME NEW r \in Requests, NEW op \in Calls, NEW how, NEW l
  PROVE  Follows(r, op, how, l, After(r, op, how = "ok", l))
<1>1. role[r] = "single" => After(r, op, how = "ok", l) = "done"
  BY Zenon DEF After
<1>2. role[r] = "remove" => After(r, op, how = "ok", l) = AfterRemove(op, how = "ok")
  BY Zenon DEF After
<1>3. /\ how # "ok" => AfterRemove(op, how = "ok") = "failed"
      /\ (how = "ok" /\ op = "ndel") => AfterRemove(op, how = "ok") = "list"
      /\ (how = "ok" /\ op # "ndel") => AfterRemove(op, how = "ok") = "done"
  <2>1. ASSUME how # "ok" PROVE AfterRemove(op, how = "ok") = "failed"
    BY <2>1, Zenon DEF AfterRemove
  <2>2. ASSUME how = "ok", op = "ndel" PROVE AfterRemove(op, how = "ok") = "list"
    BY <2>2, Zenon DEF AfterRemove
  <2>3. ASSUME how = "ok", op # "ndel" PROVE AfterRemove(op, how = "ok") = "done"
    BY <2>3, Zenon DEF AfterRemove
  <2> QED
    BY <2>1, <2>2, <2>3
<1>4. role[r] = "manual" => After(r, op, how = "ok", l) = AfterManual(op, how = "ok")
  BY Zenon DEF After
<1>5. /\ op = "onew" => AfterManual(op, how = "ok") = IF how = "ok" THEN "ocheck" ELSE "failed"
      /\ op = "ocheck" => AfterManual(op, how = "ok") = IF how = "ok" THEN "clone" ELSE "odel"
      /\ op = "clone" => AfterManual(op, how = "ok") = IF how = "ok" THEN "uri" ELSE "odel"
      /\ op = "ndel" => AfterManual(op, how = "ok") = "odel"
      /\ op = "odel" => AfterManual(op, how = "ok") = "failed"
  BY Zenon DEF AfterManual
<1>6. role[r] = "job" => After(r, op, how = "ok", l) = AfterJob(op, how = "ok", l)
  BY Zenon DEF After
<1>7. /\ op = "vnew" => AfterJob(op, how = "ok", l) =
            IF how = "ok" THEN "clone" ELSE IF l.exit # 0 THEN "vdel" ELSE "failed"
      /\ op = "clone" => AfterJob(op, how = "ok", l) =
            IF how = "ok" THEN "uri" ELSE IF l.reused THEN "failed" ELSE "vdel"
      /\ op = "ndel" => AfterJob(op, how = "ok", l) = IF l.reused THEN "failed" ELSE "vdel"
      /\ op = "vdel" => AfterJob(op, how = "ok", l) = "failed"
  BY Zenon DEF AfterJob
<1> HIDE DEF After, AfterRemove, AfterManual, AfterJob
<1>8. role[r] = "remove" => After(r, op, how = "ok", l) =
              IF how # "ok" THEN "failed" ELSE IF op = "ndel" THEN "list" ELSE "done"
  BY <1>2, <1>3
<1>9. role[r] = "manual" =>
              /\ op = "onew" => After(r, op, how = "ok", l) = IF how = "ok" THEN "ocheck" ELSE "failed"
              /\ op = "ocheck" => After(r, op, how = "ok", l) = IF how = "ok" THEN "clone" ELSE "odel"
              /\ op = "clone" => After(r, op, how = "ok", l) = IF how = "ok" THEN "uri" ELSE "odel"
              /\ op = "ndel" => After(r, op, how = "ok", l) = "odel"
              /\ op = "odel" => After(r, op, how = "ok", l) = "failed"
  BY <1>4, <1>5
<1>10. role[r] = "job" =>
              /\ op = "vnew" => After(r, op, how = "ok", l) =
                    IF how = "ok" THEN "clone" ELSE IF l.exit # 0 THEN "vdel" ELSE "failed"
              /\ op = "clone" => After(r, op, how = "ok", l) =
                    IF how = "ok" THEN "uri" ELSE IF l.reused THEN "failed" ELSE "vdel"
              /\ op = "ndel" => After(r, op, how = "ok", l) = IF l.reused THEN "failed" ELSE "vdel"
              /\ op = "vdel" => After(r, op, how = "ok", l) = "failed"
  BY <1>6, <1>7
<1> QED
  BY <1>1, <1>8, <1>9, <1>10 DEF Follows

\* Going to a step.
LEMMA GotoFacts ==
  ASSUME RequestsOK, NEW r \in Requests, NEW step \in Steps, NEW l \in Locals, Goto(r, step, l)
  PROVE  /\ at'[r] = step
         /\ \A q \in Requests \ {r} : at'[q] = at[q] /\ loc'[q] = loc[q]
         /\ step \notin {"done", "failed"} => loc'[r] = l
         /\ loc'[r].same = l.same
         /\ at' \in [Requests -> Steps] /\ loc' \in [Requests -> Locals]
         /\ jobs' \in [Requests -> {None, "queued", "running", "succeeded", "failed"}]
         /\ settings' \in Requests \cup {None}
<1>1. l.same \in BOOLEAN /\ [NoIds EXCEPT !.same = l.same].same = l.same
  BY DEF Locals, NoIds
<1>2. loc' \in [Requests -> Locals] /\ loc'[r].same = l.same
  BY <1>1, NoIdsTyped DEF Goto, RequestsOK
<1>3. jobs' \in [Requests -> {None, "queued", "running", "succeeded", "failed"}]
  BY DEF Goto, RequestsOK, Reported
<1> QED
  BY <1>2, <1>3 DEF Goto, RequestsOK

\* The locals with which a call may return: its own, or none when it does not
\* say what it created.  Only a call that is under way ends well.
Returnable(r, how, l) ==
    /\ at[r] \in Calls
    /\ how \in {"ok", "refused", "fault"}
    /\ l \in {loc[r], NoIds}
    /\ l # loc[r] => (how # "ok" /\ at[r] \in {"vnew", "onew"})
    /\ how = "ok" => busy[r]
    /\ how = "fault" => MayFail

LEMMA ReturnFacts ==
  ASSUME RequestsOK, NEW r \in Requests, NEW how, NEW l, NEW lost \in BOOLEAN,
         ScriptOK(r), LocalsOK(r), Returnable(r, how, l), Return(r, how, l, lost)
  PROVE  /\ RequestsOK' /\ Others(r) /\ ScriptOK(r)' /\ LocalsOK(r)'
         /\ role' = role /\ busy'[r] = FALSE /\ saved'[r] = None
         /\ Follows(r, at[r], how, l, at'[r])
         /\ loc'[r].same = l.same
         /\ at'[r] \notin {"done", "failed"} => loc'[r] = l
         /\ spoiled' = IF lost /\ role[r] \in {"job", "manual"} THEN spoiled \cup {r} ELSE spoiled
<1>1. l \in Locals /\ loc[r] \in Locals /\ role[r] \in Scripts \cup {"single", "config"} /\ at[r] \in Calls
  BY NoIdsTyped DEF Returnable, RequestsOK
<1> DEFINE next == After(r, at[r], how = "ok", l)
<1>3. Follows(r, at[r], how, l, next)
  BY <1>1, AfterFollows, Zenon
<1> HIDE DEF next
<1>4. next \in Steps
  BY <1>1, <1>3 DEF Follows, ScriptOK, Calls, Scripts, Steps
<1>5. Goto(r, next, l)
  BY DEF Return, next
<1>6. /\ at'[r] = next
      /\ \A q \in Requests \ {r} : at'[q] = at[q] /\ loc'[q] = loc[q]
      /\ next \notin {"done", "failed"} => loc'[r] = l
      /\ loc'[r].same = l.same
      /\ at' \in [Requests -> Steps] /\ loc' \in [Requests -> Locals]
      /\ jobs' \in [Requests -> {None, "queued", "running", "succeeded", "failed"}]
      /\ settings' \in Requests \cup {None}
  BY <1>1, <1>4, <1>5, GotoFacts
<1>7. /\ role' = role /\ busy' = [busy EXCEPT ![r] = FALSE] /\ saved' = [saved EXCEPT ![r] = None]
      /\ spoiled' = IF lost /\ role[r] \in {"job", "manual"} THEN spoiled \cup {r} ELSE spoiled
      /\ faults' = IF how = "fault" THEN faults + 1 ELSE faults
  BY DEF Return
<1>8. faults' \in 0..MaxFaults
  BY <1>7, ResidentialAssumption DEF Returnable, MayFail, RequestsOK
<1>9. RequestsOK'
  BY <1>6, <1>7, <1>8 DEF RequestsOK
<1>10. Others(r) /\ busy'[r] = FALSE /\ saved'[r] = None
  BY <1>6, <1>7 DEF Others, RequestsOK
<1>11. ScriptOK(r)'
  BY <1>1, <1>3, <1>6, <1>7, <1>10 DEF Follows, ScriptOK, Calls, Scripts, Singles
<1>12. LocalsOK(r)'
  <2>1. l.exit \in Ids \cup {0}
    BY <1>1 DEF Locals
  <2> QED
    BY <1>1, <1>3, <1>6, <1>7, <1>10, <2>1
       DEF Follows, ScriptOK, LocalsOK, Within, Returnable, Calls, Scripts, Singles
<1> QED
  BY <1>3, <1>6, <1>7, <1>9, <1>10, <1>11, <1>12

\* A call that goes on with its mutex.
LEMMA HoldFacts ==
  ASSUME RequestsOK, NEW r \in Requests, NEW l \in Locals,
         NEW row \in OutRows \cup NodeRows \cup {None},
         ScriptOK(r), at[r] \in Calls, Hold(r, l, row)
  PROVE  /\ RequestsOK' /\ Others(r) /\ ScriptOK(r)'
         /\ role' = role /\ at' = at /\ spoiled' = spoiled
         /\ busy'[r] = TRUE /\ loc'[r] = l /\ saved'[r] = row
<1>1. /\ role' = role /\ at' = at /\ spoiled' = spoiled /\ settings' = settings
      /\ jobs' = jobs /\ faults' = faults
      /\ busy' = [busy EXCEPT ![r] = TRUE] /\ loc' = [loc EXCEPT ![r] = l]
      /\ saved' = [saved EXCEPT ![r] = row]
  BY DEF Hold
<1>2. RequestsOK' /\ Others(r) /\ busy'[r] = TRUE /\ loc'[r] = l /\ saved'[r] = row
  BY <1>1 DEF RequestsOK, Others
<1>3. ScriptOK(r)'
  BY <1>1, <1>2 DEF ScriptOK
<1> QED
  BY <1>1, <1>2, <1>3

----------------------------------------------------------------------------
(* The tables.                                                             *)

\* The kinds go on agreeing when every exit keeps its outbound and no row of
\* kind vpngate comes or goes.
LEMMA KindsFrame ==
  ASSUME KindsAgree, RowsOK, RowsOK',
         \A e \in Ids : /\ exits'[e] = None <=> exits[e] = None
                        /\ exits[e] # None => exits'[e].out = exits[e].out,
         \A o \in Ids : (outs'[o] # None /\ outs'[o].kind = "vpngate")
                            <=> (outs[o] # None /\ outs[o].kind = "vpngate")
  PROVE  KindsAgree'
<1>0. \A e \in Ids : exits[e] # None => exits[e].out \in Ids
  BY DEF RowsOK, ExitRows
<1>1. ASSUME NEW e \in Ids, exits'[e] # None
      PROVE  /\ outs'[exits'[e].out] # None /\ outs'[exits'[e].out].kind = "vpngate"
             /\ \A f \in Ids : (exits'[f] # None /\ exits'[f].out = exits'[e].out) => f = e
  BY <1>0, <1>1 DEF KindsAgree, Used
<1>2. ASSUME NEW o \in Ids, outs'[o] # None, outs'[o].kind = "vpngate"
      PROVE  \E e \in Ids : exits'[e] # None /\ exits'[e].out = o
  BY <1>2 DEF KindsAgree, Used
<1> QED
  BY <1>1, <1>2 DEF KindsAgree, Used

\* A step of r between its calls, or a call that was refused at once.
LEMMA ScriptStep ==
  ASSUME TablesInv, NEW r \in Requests, UNCHANGED <<tables, nmu, vmu>>,
         RequestsOK', Others(r), ScriptOK(r)', LocalsOK(r)', ~busy[r], ~busy'[r]
  PROVE  TablesInv'
<1>1. TypeOK'
  BY TypeParts, TypeAfter DEF TablesInv, tables, RowsOK
<1>2. Locked'
  BY DEF TablesInv, Locked, Others
<1>3. \A q \in Requests : ScriptOK(q)' /\ LocalsOK(q)'
  BY DEF TablesInv, Others, ScriptOK, LocalsOK, Within
<1>4. ASSUME NEW q \in Requests PROVE Held(q)'
  <2>1. CASE q = r
    BY <2>1 DEF Held, Within
  <2>2. CASE q # r
    <3>1. at'[q] = at[q] /\ busy'[q] = busy[q] /\ loc'[q] = loc[q] /\ saved'[q] = saved[q]
      BY <2>2 DEF Others
    <3>2. Held(q)
      BY DEF TablesInv
    <3> QED
      BY <3>1, <3>2 DEF Held, Within, tables
  <2> QED
    BY <2>1, <2>2
<1>5. KindsAgree'
  BY DEF TablesInv, KindsAgree, Used, tables
<1> QED
  BY <1>1, <1>2, <1>3, <1>4, <1>5 DEF TablesInv

\* A step of r that has or takes VPNGate's mutex: rows of kind vpngate come and
\* go, and a call of the node service that is under way does not mind.
LEMMA GateStep ==
  ASSUME TablesInv, NEW r \in Requests, UNCHANGED <<nodes, nmu>>, vmu \in {None, r}, vmu' \in {None, r},
         RowsOK', RequestsOK', Others(r), ScriptOK(r)', LocalsOK(r)', Held(r)', KindsAgree',
         at[r] \in GateCalls, at'[r] \in GateCalls \/ ~busy'[r],
         vmu' = r <=> busy'[r],
         \A o \in Ids : \/ outs'[o] = outs[o]
                        \/ outs[o] = None /\ outs'[o] # None /\ outs'[o].kind = "vpngate"
                        \/ outs[o] # None /\ outs[o].kind = "vpngate" /\ outs'[o] = None
  PROVE  TablesInv'
<1>0. RowsOK /\ RequestsOK /\ nmu \in Requests \cup {None} /\ None \notin Requests
  BY TypeParts, Distinct DEF TablesInv
<1>1. TypeOK'
  BY <1>0, TypeAfter
<1>2. at[r] \notin NodeCalls /\ (at'[r] \in GateCalls => at'[r] \notin NodeCalls)
  BY DEF GateCalls, NodeCalls
<1>3. Locked'
  BY <1>0, <1>2 DEF TablesInv, Locked, Others
<1>4. ASSUME NEW q \in Requests, q # r PROVE ScriptOK(q)' /\ LocalsOK(q)' /\ Held(q)'
  <2>1. ScriptOK(q)' /\ LocalsOK(q)'
    BY <1>4 DEF TablesInv, Others, ScriptOK, LocalsOK, Within
  <2>2. ~Within(q, "vnew") /\ ~Within(q, "vdel")
    BY <1>0, <1>4 DEF TablesInv, Locked, Within, GateCalls
  <2>3. at'[q] = at[q] /\ busy'[q] = busy[q] /\ loc'[q] = loc[q] /\ saved'[q] = saved[q]
    BY <1>4 DEF Others
  <2>4. /\ at[q] \in {"odel", "ocheck"} => loc[q].out \in Ids
        /\ Within(q, "onew") => loc[q].out \in Ids
        /\ Held(q)
    BY DEF TablesInv, LocalsOK
  <2>5. [kind |-> "manual", by |-> q] # None
    BY Distinct DEF OutRows, Sources, Owners
  <2>6. \A row \in OutRows : row # None
    BY Distinct
  <2>7. Within(q, "onew")' => outs'[loc'[q].out] = [kind |-> "manual", by |-> q]
    BY <2>3, <2>4, <2>5 DEF Held, Within
  <2>8. Within(q, "ocheck")' =>
          /\ saved'[q] \in OutRows
          /\ saved'[q].kind = "manual" => outs'[loc'[q].out] = saved'[q]
          /\ saved'[q].kind = "vpngate" =>
              (outs'[loc'[q].out] = None \/ outs'[loc'[q].out].kind = "vpngate")
    BY <2>3, <2>4, <2>6 DEF Held, Within
  <2>9. Within(q, "odel")' =>
          /\ saved'[q] \in OutRows /\ saved'[q].kind = "manual"
          /\ outs'[loc'[q].out] = None \/ outs'[loc'[q].out].kind = "vpngate"
    BY <2>3, <2>4 DEF Held, Within
  <2>10. Held(q)'
    BY <2>2, <2>3, <2>4, <2>7, <2>8, <2>9 DEF Held, Within
  <2> QED
    BY <2>1, <2>10
<1> QED
  BY <1>1, <1>3, <1>4 DEF TablesInv

\* A step of r that has or takes the node service's mutex: no exit comes or goes.
LEMMA NodeStep ==
  ASSUME TablesInv, NEW r \in Requests, UNCHANGED vmu, nmu \in {None, r}, nmu' \in {None, r},
         RowsOK', RequestsOK', Others(r), ScriptOK(r)', LocalsOK(r)', Held(r)', KindsAgree',
         at[r] \in NodeCalls, at'[r] \in NodeCalls \/ ~busy'[r],
         nmu' = r <=> busy'[r],
         \A e \in Ids : exits'[e] = None <=> exits[e] = None
  PROVE  TablesInv'
<1>0. RowsOK /\ RequestsOK /\ vmu \in Requests \cup {None} /\ None \notin Requests
  BY TypeParts, Distinct DEF TablesInv
<1>1. TypeOK'
  BY <1>0, TypeAfter
<1>2. at[r] \notin GateCalls /\ (at'[r] \in NodeCalls => at'[r] \notin GateCalls)
  BY DEF GateCalls, NodeCalls
<1>3. Locked'
  BY <1>0, <1>2 DEF TablesInv, Locked, Others
<1>4. ASSUME NEW q \in Requests, q # r PROVE ScriptOK(q)' /\ LocalsOK(q)' /\ Held(q)'
  <2>1. ScriptOK(q)' /\ LocalsOK(q)'
    BY <1>4 DEF TablesInv, Others, ScriptOK, LocalsOK, Within
  <2>2. /\ ~Within(q, "onew") /\ ~Within(q, "odel") /\ ~Within(q, "ocheck")
        /\ ~Within(q, "clone") /\ ~Within(q, "ndel")
    BY <1>0, <1>4 DEF TablesInv, Locked, Within, NodeCalls
  <2>3. at'[q] = at[q] /\ busy'[q] = busy[q] /\ loc'[q] = loc[q]
    BY <1>4 DEF Others
  <2>4. /\ (Within(q, "vnew") \/ Within(q, "vdel")) => loc[q].exit \in Ids
        /\ Held(q)
    BY DEF TablesInv, LocalsOK, Within
  <2> QED
    BY <2>1, <2>2, <2>3, <2>4 DEF Held, Within
<1> QED
  BY <1>1, <1>3, <1>4 DEF TablesInv

\* What the invariant says of one request and of the state.
LEMMA Facts ==
  ASSUME TablesInv, NEW r \in Requests
  PROVE  /\ RowsOK /\ RequestsOK /\ KindsAgree /\ Locked
         /\ ScriptOK(r) /\ LocalsOK(r) /\ Held(r)
         /\ nmu \in Requests \cup {None} /\ vmu \in Requests \cup {None}
         /\ loc[r] \in Locals /\ busy[r] \in BOOLEAN /\ role[r] \in Scripts \cup {"single", "config"}
BY TypeParts DEF TablesInv, RequestsOK

\* A call that ends where it would take its mutex.
LEMMA RefusedStep ==
  ASSUME TablesInv, NEW r \in Requests, NEW mutex, NEW how \in {"refused", "fault"},
         NEW lost \in BOOLEAN, at[r] \in Calls, ~busy[r], how = "fault" => MayFail,
         Refused(r, mutex, how, lost)
  PROVE  TablesInv'
<1>1. Returnable(r, how, loc[r])
  BY DEF Returnable
<1>2. RequestsOK' /\ Others(r) /\ ScriptOK(r)' /\ LocalsOK(r)' /\ busy'[r] = FALSE
  BY <1>1, Facts, ReturnFacts DEF Refused
<1> QED
  BY <1>2, ScriptStep DEF Refused

----------------------------------------------------------------------------
(* The calls of the VPNGate service.                                       *)

LEMMA CreateExitTables ==
  ASSUME TablesInv, NEW r \in Requests, CreateExit(r)
  PROVE  TablesInv'
<1>0. /\ RowsOK /\ RequestsOK /\ KindsAgree /\ ScriptOK(r) /\ LocalsOK(r) /\ loc[r] \in Locals
      /\ at[r] = "vnew" /\ ~busy[r] /\ None \notin Requests
  BY Facts, Distinct DEF CreateExit, Calling
<1>1. CASE Refused(r, vmu, "refused", FALSE)
  BY <1>0, <1>1, RefusedStep DEF Calls
<1>2. CASE GateLock(r) /\ UNCHANGED nodes /\
           \E o \in Fresh(outs), e \in Fresh(exits) :
              /\ outs' = Insert(outs, o, [kind |-> "vpngate", by |-> r])
              /\ exits' = Insert(exits, e, [out |-> o, by |-> r, running |-> FALSE,
                                            up |-> FALSE, left |-> None])
              /\ Hold(r, [loc[r] EXCEPT !.exit = e, !.out = o], None)
  <2>1. PICK o \in Fresh(outs), e \in Fresh(exits) :
              /\ outs' = Insert(outs, o, [kind |-> "vpngate", by |-> r])
              /\ exits' = Insert(exits, e, [out |-> o, by |-> r, running |-> FALSE,
                                            up |-> FALSE, left |-> None])
              /\ Hold(r, [loc[r] EXCEPT !.exit = e, !.out = o], None)
    BY <1>2
  <2>2. o \in Ids /\ e \in Ids /\ outs[o] = None /\ exits[e] = None
    BY ResidentialAssumption DEF Fresh, Used, Ids
  <2> DEFINE l == [loc[r] EXCEPT !.exit = e, !.out = o]
  <2> DEFINE out == [kind |-> "vpngate", by |-> r]
  <2> DEFINE exit == [out |-> o, by |-> r, running |-> FALSE, up |-> FALSE, left |-> None]
  <2>3. l \in Locals /\ l.exit = e /\ l.out = o /\ l.reused = loc[r].reused
    BY <1>0, <2>2 DEF Locals
  <2>4. out \in OutRows /\ exit \in ExitRows /\ out # None /\ exit # None
        /\ out.kind = "vpngate" /\ exit.out = o
    BY <2>2, Distinct DEF OutRows, ExitRows, Sources, Owners
  <2>5. /\ outs' = [outs EXCEPT ![o] = out] /\ exits' = [exits EXCEPT ![e] = exit]
        /\ Hold(r, l, None) /\ vmu = None /\ vmu' = r /\ UNCHANGED <<nmu, nodes>>
    BY <1>2, <2>1 DEF Insert, GateLock
  <2> HIDE DEF l, out, exit
  <2>6. /\ RequestsOK' /\ Others(r) /\ ScriptOK(r)'
        /\ at' = at /\ role' = role /\ busy'[r] = TRUE /\ loc'[r] = l
    BY <1>0, <2>3, <2>5, HoldFacts DEF Calls
  <2>7. RowsOK'
    BY <1>0, <2>2, <2>4, <2>5 DEF RowsOK
  <2>8. /\ \A i \in Ids : outs'[i] = IF i = o THEN out ELSE outs[i]
        /\ \A i \in Ids : exits'[i] = IF i = e THEN exit ELSE exits[i]
    BY <1>0, <2>2, <2>5 DEF RowsOK
  <2>9. KindsAgree'
    <3>1. ASSUME NEW f \in Ids, exits[f] # None
          PROVE exits[f].out \in Ids /\ exits[f].out # o
      BY <1>0, <2>2, <3>1 DEF KindsAgree, Used, RowsOK, ExitRows
    <3> QED
      BY <1>0, <2>2, <2>4, <2>8, <3>1 DEF KindsAgree, Used
  <2>10. LocalsOK(r)' /\ Held(r)'
    BY <1>0, <2>2, <2>3, <2>4, <2>6, <2>8 DEF LocalsOK, Held, Within
  <2> QED
    BY <1>0, <2>2, <2>4, <2>5, <2>6, <2>7, <2>8, <2>9, <2>10, GateStep DEF GateCalls
<1> QED
  BY <1>1, <1>2 DEF CreateExit

LEMMA ConnectTables ==
  ASSUME TablesInv, NEW r \in Requests, Connect(r)
  PROVE  TablesInv'
<1>0. /\ RowsOK /\ RequestsOK /\ KindsAgree /\ ScriptOK(r) /\ LocalsOK(r) /\ Held(r)
      /\ at[r] = "vnew" /\ busy[r] /\ None \notin Requests
      /\ vmu = r /\ vmu' = None /\ UNCHANGED <<nmu, outs, nodes>>
  BY Facts, Distinct DEF Connect, Within, GateUnlock
<1>1. loc[r].exit \in Ids /\ exits[loc[r].exit] # None
  BY <1>0 DEF LocalsOK, Held, Within
<1>2. /\ RowsOK'
      /\ \A e \in Ids : /\ exits'[e] = None <=> exits[e] = None
                        /\ exits[e] # None => exits'[e].out = exits[e].out
  <2>1. exits[loc[r].exit] \in ExitRows
    BY <1>0, <1>1 DEF RowsOK
  <2>2. CASE exits' = [exits EXCEPT ![loc[r].exit].running = TRUE, ![loc[r].exit].up = TRUE]
    <3>1. /\ exits'[loc[r].exit] \in ExitRows /\ exits'[loc[r].exit].out = exits[loc[r].exit].out
          /\ exits' \in [Ids -> ExitRows \cup {None}]
          /\ \A e \in Ids : e # loc[r].exit => exits'[e] = exits[e]
      BY <1>0, <1>1, <2>1, <2>2 DEF RowsOK, ExitRows
    <3> QED
      BY <1>0, <1>1, <3>1, Distinct DEF RowsOK
  <2>3. CASE UNCHANGED exits
    BY <1>0, <2>3 DEF RowsOK
  <2> QED
    BY <2>2, <2>3 DEF Connect
<1>3. KindsAgree'
  BY <1>0, <1>2, KindsFrame
<1>4. PICK how \in {"ok", "refused", "fault"}, l \in {loc[r], NoIds}, lost \in BOOLEAN :
        Return(r, how, l, lost) /\ Returnable(r, how, l)
  BY <1>0 DEF Connect, Returnable, Calls
<1>5. RequestsOK' /\ Others(r) /\ ScriptOK(r)' /\ LocalsOK(r)' /\ busy'[r] = FALSE
  BY <1>0, <1>4, ReturnFacts
<1>6. Held(r)'
  BY <1>5 DEF Held, Within
<1> QED
  BY <1>0, <1>2, <1>3, <1>5, <1>6, GateStep DEF GateCalls

LEMMA DeleteExitTables ==
  ASSUME TablesInv, NEW r \in Requests, DeleteExit(r)
  PROVE  TablesInv'
<1>0. /\ RowsOK /\ RequestsOK /\ KindsAgree /\ ScriptOK(r) /\ LocalsOK(r) /\ loc[r] \in Locals
      /\ at[r] = "vdel" /\ ~busy[r] /\ None \notin Requests
  BY Facts, Distinct DEF DeleteExit, Calling
<1>1. CASE Refused(r, vmu, "refused", FALSE) \/ Refused(r, vmu, "refused", TRUE)
           \/ (MayFail /\ Refused(r, vmu, "fault", TRUE))
  BY <1>0, <1>1, RefusedStep DEF Calls
<1>2. CASE exits[loc[r].exit] # None /\ GateLock(r) /\ Hold(r, loc[r], None) /\ UNCHANGED tables
  <2>1. /\ RequestsOK' /\ Others(r) /\ ScriptOK(r)'
        /\ at' = at /\ role' = role /\ busy'[r] = TRUE /\ loc'[r] = loc[r]
    BY <1>0, <1>2, HoldFacts DEF Calls
  <2>2. LocalsOK(r)' /\ Held(r)'
    BY <1>0, <1>2, <2>1 DEF LocalsOK, Held, Within, tables
  <2>3. RowsOK' /\ KindsAgree'
    BY <1>0, <1>2 DEF RowsOK, KindsAgree, Used, tables
  <2>4. vmu = None /\ vmu' = r /\ UNCHANGED <<nmu, nodes, outs>>
    BY <1>2 DEF GateLock, tables
  <2> QED
    BY <1>0, <2>1, <2>2, <2>3, <2>4, GateStep DEF GateCalls
<1> QED
  BY <1>1, <1>2 DEF DeleteExit

LEMMA StopExitTables ==
  ASSUME TablesInv, NEW r \in Requests, StopExit(r)
  PROVE  TablesInv'
<1>0. /\ RowsOK /\ RequestsOK /\ KindsAgree /\ ScriptOK(r) /\ LocalsOK(r) /\ Held(r)
      /\ at[r] = "vdel" /\ busy[r] /\ None \notin Requests
      /\ vmu = r /\ vmu' = None /\ UNCHANGED <<nmu, nodes>>
  BY Facts, Distinct DEF StopExit, Within, GateUnlock
<1> DEFINE e == loc[r].exit
<1> DEFINE o == exits[e].out
<1>1. e \in Ids /\ exits[e] # None /\ exits[e] \in ExitRows /\ o \in Ids
  BY <1>0 DEF LocalsOK, Held, Within, RowsOK, ExitRows
<1>2. PICK how \in {"ok", "refused", "fault"}, lost \in BOOLEAN :
        Return(r, how, loc[r], lost) /\ Returnable(r, how, loc[r])
  BY <1>0 DEF StopExit, Returnable, Calls
<1>3. RequestsOK' /\ Others(r) /\ ScriptOK(r)' /\ LocalsOK(r)' /\ busy'[r] = FALSE
  BY <1>0, <1>2, ReturnFacts
<1>4. Held(r)'
  BY <1>3 DEF Held, Within
<1>5. CASE outs' = Remove(outs, o) /\ exits' = Remove(exits, e)
  <2>1. /\ RowsOK'
        /\ \A i \in Ids : outs'[i] = IF i = o THEN None ELSE outs[i]
        /\ \A i \in Ids : exits'[i] = IF i = e THEN None ELSE exits[i]
    BY <1>0, <1>1, <1>5 DEF RowsOK, Remove
  <2>2. outs[o] # None /\ outs[o].kind = "vpngate"
    BY <1>0, <1>1 DEF KindsAgree, Used
  <2>3. \A f \in Ids : (exits[f] # None /\ f # e) => (exits[f].out \in Ids /\ exits[f].out # o)
    BY <1>0, <1>1 DEF KindsAgree, Used, RowsOK, ExitRows
  <2> HIDE DEF e, o
  <2>4. KindsAgree'
    BY <1>0, <1>1, <2>1, <2>2, <2>3 DEF KindsAgree, Used, o
  <2> QED
    BY <1>0, <1>3, <1>4, <2>1, <2>2, <2>4, GateStep DEF GateCalls
<1>6. CASE UNCHANGED outs /\ exits' \in {exits, [exits EXCEPT ![e].up = FALSE]}
  <2>1. /\ RowsOK'
        /\ \A f \in Ids : /\ exits'[f] = None <=> exits[f] = None
                          /\ exits[f] # None => exits'[f].out = exits[f].out
    <3>1. CASE UNCHANGED exits
      BY <1>0, <1>6, <3>1 DEF RowsOK
    <3>2. CASE exits' = [exits EXCEPT ![e].up = FALSE]
      <4>1. /\ exits'[e] \in ExitRows /\ exits'[e].out = o
            /\ exits' \in [Ids -> ExitRows \cup {None}]
            /\ \A f \in Ids : f # e => exits'[f] = exits[f]
        BY <1>0, <1>1, <3>2 DEF RowsOK, ExitRows
      <4> QED
        BY <1>0, <1>1, <1>6, <4>1, Distinct DEF RowsOK
    <3> QED
      BY <1>6, <3>1, <3>2
  <2>2. KindsAgree'
    BY <1>0, <1>6, <2>1, KindsFrame
  <2> QED
    BY <1>0, <1>3, <1>4, <1>6, <2>1, <2>2, GateStep DEF GateCalls
<1> QED
  BY <1>5, <1>6 DEF StopExit

LEMMA WatchTables ==
  ASSUME TablesInv, Watch
  PROVE  TablesInv'
<1>0. RowsOK /\ KindsAgree /\ TypeOK
  BY TypeParts DEF TablesInv
<1>1. PICK e \in Used(exits), again \in BOOLEAN :
        exits' = [exits EXCEPT ![e].running = again, ![e].up = again]
  BY DEF Watch
<1>2. /\ vmu = None
      /\ UNCHANGED <<outs, nodes, locks, role, at, busy, loc, saved, jobs, spoiled, faults>>
  BY DEF Watch
<1>3. exits[e] # None /\ exits[e] \in ExitRows /\ e \in Ids
  BY <1>0, <1>1 DEF Used, RowsOK
<1>4. /\ exits'[e] \in ExitRows /\ exits'[e].out = exits[e].out
      /\ exits' \in [Ids -> ExitRows \cup {None}]
      /\ \A f \in Ids : f # e => exits'[f] = exits[f]
  BY <1>0, <1>1, <1>3 DEF RowsOK, ExitRows
<1>5. /\ RowsOK'
      /\ \A f \in Ids : /\ exits'[f] = None <=> exits[f] = None
                        /\ exits[f] # None => exits'[f].out = exits[f].out
  BY <1>0, <1>2, <1>3, <1>4, Distinct DEF RowsOK
<1>6. KindsAgree'
  BY <1>0, <1>2, <1>5, KindsFrame
<1>7. TypeOK'
  BY <1>0, <1>2, <1>5, TypeParts, TypeAfter DEF RequestsOK, locks
<1>8. Locked'
  BY <1>2 DEF TablesInv, Locked, locks
<1>9. \A q \in Requests : ScriptOK(q)' /\ LocalsOK(q)'
  BY <1>2 DEF TablesInv, ScriptOK, LocalsOK, Within
<1>10. ASSUME NEW q \in Requests PROVE Held(q)'
  <2>1. Held(q) /\ ((Within(q, "vnew") \/ Within(q, "vdel")) => loc[q].exit \in Ids)
    BY DEF TablesInv, LocalsOK, Within
  <2> QED
    BY <1>2, <1>5, <2>1 DEF Held, Within
<1> QED
  BY <1>6, <1>7, <1>8, <1>9, <1>10 DEF TablesInv

----------------------------------------------------------------------------
(* The calls of the node service.                                          *)

LEMMA CreateOutboundTables ==
  ASSUME TablesInv, NEW r \in Requests, CreateOutbound(r)
  PROVE  TablesInv'
<1>0. /\ RowsOK /\ RequestsOK /\ KindsAgree /\ ScriptOK(r) /\ loc[r] \in Locals
      /\ at[r] = "onew" /\ ~busy[r] /\ None \notin Requests
  BY Facts, Distinct DEF CreateOutbound, Calling
<1>1. CASE Refused(r, nmu, "refused", FALSE)
  BY <1>0, <1>1, RefusedStep DEF Calls
<1>2. CASE NodeLock(r) /\ UNCHANGED <<exits, nodes>> /\
           \E o \in Fresh(outs) :
              /\ outs' = Insert(outs, o, [kind |-> "manual", by |-> r])
              /\ Hold(r, [loc[r] EXCEPT !.out = o, !.source = "manual"], None)
  <2>1. PICK o \in Fresh(outs) :
              /\ outs' = Insert(outs, o, [kind |-> "manual", by |-> r])
              /\ Hold(r, [loc[r] EXCEPT !.out = o, !.source = "manual"], None)
    BY <1>2
  <2>2. o \in Ids /\ outs[o] = None
    BY ResidentialAssumption DEF Fresh, Used, Ids
  <2> DEFINE l == [loc[r] EXCEPT !.out = o, !.source = "manual"]
  <2> DEFINE out == [kind |-> "manual", by |-> r]
  <2>3. l \in Locals /\ l.out = o
    BY <1>0, <2>2 DEF Locals, Sources
  <2>4. out \in OutRows /\ out # None /\ out.kind = "manual"
    BY Distinct DEF OutRows, Sources, Owners
  <2>5. /\ outs' = [outs EXCEPT ![o] = out]
        /\ Hold(r, l, None) /\ nmu = None /\ nmu' = r /\ UNCHANGED <<vmu, exits, nodes>>
    BY <1>2, <2>1 DEF Insert, NodeLock
  <2> HIDE DEF l
  <2>6. /\ RequestsOK' /\ Others(r) /\ ScriptOK(r)'
        /\ at' = at /\ role' = role /\ busy'[r] = TRUE /\ loc'[r] = l
    BY <1>0, <2>3, <2>5, HoldFacts DEF Calls
  <2>7. RowsOK' /\ \A i \in Ids : outs'[i] = IF i = o THEN out ELSE outs[i]
    BY <1>0, <2>2, <2>4, <2>5 DEF RowsOK
  <2>8. LocalsOK(r)' /\ Held(r)'
    BY <1>0, <2>2, <2>3, <2>6, <2>7 DEF LocalsOK, Held, Within
  <2> HIDE DEF out
  <2>9. KindsAgree'
    BY <1>0, <2>2, <2>4, <2>5, <2>7, KindsFrame
  <2> QED
    BY <1>0, <2>5, <2>6, <2>7, <2>8, <2>9, NodeStep DEF NodeCalls
<1> QED
  BY <1>1, <1>2 DEF CreateOutbound

\* What a call of the node service that returns has to show for itself.
LEMMA NodeReturn ==
  ASSUME TablesInv, NEW r \in Requests, at[r] \in NodeCalls, busy[r],
         NEW how \in {"ok", "refused", "fault"}, NEW l, NEW lost \in BOOLEAN,
         Returnable(r, how, l), Return(r, how, l, lost), nmu' = None, UNCHANGED vmu,
         RowsOK',
         \A e \in Ids : /\ exits'[e] = None <=> exits[e] = None
                        /\ exits[e] # None => exits'[e].out = exits[e].out,
         \A o \in Ids : (outs'[o] # None /\ outs'[o].kind = "vpngate")
                            <=> (outs[o] # None /\ outs[o].kind = "vpngate")
  PROVE  TablesInv'
<1>0. /\ RowsOK /\ RequestsOK /\ KindsAgree /\ ScriptOK(r) /\ LocalsOK(r)
      /\ nmu = r /\ None \notin Requests
  BY Facts, Distinct DEF Locked
<1>1. RequestsOK' /\ Others(r) /\ ScriptOK(r)' /\ LocalsOK(r)' /\ busy'[r] = FALSE
  BY <1>0, ReturnFacts
<1>2. Held(r)'
  BY <1>1 DEF Held, Within
<1>3. KindsAgree'
  BY <1>0, KindsFrame
<1> QED
  BY <1>0, <1>1, <1>2, <1>3, NodeStep

LEMMA ApplyOutboundTables ==
  ASSUME TablesInv, NEW r \in Requests, ApplyOutbound(r)
  PROVE  TablesInv'
<1>0. /\ RowsOK /\ LocalsOK(r) /\ Held(r) /\ at[r] = "onew" /\ busy[r]
      /\ nmu' = None /\ UNCHANGED <<vmu, exits, nodes>>
  BY Facts DEF ApplyOutbound, Within, NodeUnlock
<1>1. loc[r].out \in Ids /\ outs[loc[r].out] = [kind |-> "manual", by |-> r]
  BY <1>0 DEF LocalsOK, Held, Within
<1>2. PICK how \in {"ok", "refused", "fault"}, l \in {loc[r], NoIds}, lost \in BOOLEAN :
        Return(r, how, l, lost) /\ Returnable(r, how, l)
  BY <1>0 DEF ApplyOutbound, Returnable, Calls
<1>3. outs' \in {outs, [outs EXCEPT ![loc[r].out] = None]}
  BY DEF ApplyOutbound, Remove
<1>4. /\ RowsOK'
      /\ \A o \in Ids : (outs'[o] # None /\ outs'[o].kind = "vpngate")
                            <=> (outs[o] # None /\ outs[o].kind = "vpngate")
  BY <1>0, <1>1, <1>3 DEF RowsOK
<1> QED
  BY <1>0, <1>2, <1>4, NodeReturn DEF NodeCalls

LEMMA DeleteOutboundTables ==
  ASSUME TablesInv, NEW r \in Requests, DeleteOutbound(r)
  PROVE  TablesInv'
<1>0. /\ RowsOK /\ RequestsOK /\ KindsAgree /\ ScriptOK(r) /\ LocalsOK(r) /\ loc[r] \in Locals
      /\ at[r] = "odel" /\ ~busy[r] /\ None \notin Requests /\ loc[r].out \in Ids
  BY Facts, Distinct DEF DeleteOutbound, Calling, LocalsOK
<1>1. CASE Refused(r, nmu, "refused", FALSE) \/ Refused(r, nmu, "refused", TRUE)
           \/ (MayFail /\ Refused(r, nmu, "fault", TRUE))
  BY <1>0, <1>1, RefusedStep DEF Calls
<1>2. CASE /\ outs[loc[r].out] # None /\ outs[loc[r].out].kind = "manual"
           /\ NodeLock(r) /\ outs' = Remove(outs, loc[r].out)
           /\ Hold(r, loc[r], outs[loc[r].out]) /\ UNCHANGED <<exits, nodes>>
  <2>1. outs[loc[r].out] \in OutRows
    BY <1>0, <1>2 DEF RowsOK
  <2>2. /\ RequestsOK' /\ Others(r) /\ ScriptOK(r)'
        /\ at' = at /\ role' = role /\ busy'[r] = TRUE /\ loc'[r] = loc[r]
        /\ saved'[r] = outs[loc[r].out]
    BY <1>0, <1>2, <2>1, HoldFacts DEF Calls
  <2>3. LocalsOK(r)' /\ Held(r)'
    BY <1>0, <1>2, <2>1, <2>2 DEF LocalsOK, Held, Within, RowsOK, Remove
  <2>4. /\ RowsOK'
        /\ \A o \in Ids : (outs'[o] # None /\ outs'[o].kind = "vpngate")
                              <=> (outs[o] # None /\ outs[o].kind = "vpngate")
    BY <1>0, <1>2 DEF RowsOK, Remove
  <2>5. KindsAgree'
    BY <1>0, <1>2, <2>4, KindsFrame
  <2>6. nmu = None /\ nmu' = r /\ UNCHANGED <<vmu, exits>>
    BY <1>2 DEF NodeLock
  <2> QED
    BY <1>0, <2>2, <2>3, <2>4, <2>5, <2>6, NodeStep DEF NodeCalls
<1> QED
  BY <1>1, <1>2 DEF DeleteOutbound

LEMMA ApplyDeletionTables ==
  ASSUME TablesInv, NEW r \in Requests, ApplyDeletion(r)
  PROVE  TablesInv'
<1>0. /\ RowsOK /\ LocalsOK(r) /\ Held(r) /\ at[r] = "odel" /\ busy[r]
      /\ nmu' = None /\ UNCHANGED <<vmu, exits, nodes>>
  BY Facts DEF ApplyDeletion, Within, NodeUnlock
<1>1. loc[r].out \in Ids /\ saved[r] \in OutRows /\ saved[r].kind = "manual"
  BY <1>0 DEF LocalsOK, Held, Within
<1>2. PICK how \in {"ok", "refused", "fault"}, lost \in BOOLEAN :
        Return(r, how, loc[r], lost) /\ Returnable(r, how, loc[r])
  BY <1>0 DEF ApplyDeletion, Returnable, Calls
<1>3. \/ UNCHANGED outs
      \/ outs[loc[r].out] = None /\ outs' = [outs EXCEPT ![loc[r].out] = saved[r]]
  BY DEF ApplyDeletion, Insert
<1>4. /\ RowsOK'
      /\ \A o \in Ids : (outs'[o] # None /\ outs'[o].kind = "vpngate")
                            <=> (outs[o] # None /\ outs[o].kind = "vpngate")
  BY <1>0, <1>1, <1>3 DEF RowsOK
<1> QED
  BY <1>0, <1>2, <1>4, NodeReturn DEF NodeCalls

LEMMA CheckOutboundTables ==
  ASSUME TablesInv, NEW r \in Requests, CheckOutbound(r)
  PROVE  TablesInv'
<1>0. /\ RowsOK /\ RequestsOK /\ KindsAgree /\ ScriptOK(r) /\ LocalsOK(r) /\ loc[r] \in Locals
      /\ at[r] = "ocheck" /\ ~busy[r] /\ None \notin Requests /\ loc[r].out \in Ids
  BY Facts, Distinct DEF CheckOutbound, Calling, LocalsOK
<1>1. CASE Refused(r, nmu, "refused", FALSE)
  BY <1>0, <1>1, RefusedStep DEF Calls
<1>2. CASE /\ outs[loc[r].out] # None /\ NodeLock(r)
           /\ Hold(r, loc[r], outs[loc[r].out]) /\ UNCHANGED tables
  <2>1. outs[loc[r].out] \in OutRows
    BY <1>0, <1>2 DEF RowsOK
  <2>2. /\ RequestsOK' /\ Others(r) /\ ScriptOK(r)'
        /\ at' = at /\ role' = role /\ busy'[r] = TRUE /\ loc'[r] = loc[r]
        /\ saved'[r] = outs[loc[r].out]
    BY <1>0, <1>2, <2>1, HoldFacts DEF Calls
  <2>3. LocalsOK(r)' /\ Held(r)'
    BY <1>0, <1>2, <2>1, <2>2 DEF LocalsOK, Held, Within, tables
  <2>4. RowsOK' /\ KindsAgree'
    BY <1>0, <1>2 DEF RowsOK, KindsAgree, Used, tables
  <2>5. nmu = None /\ nmu' = r /\ UNCHANGED <<vmu, exits>>
    BY <1>2 DEF NodeLock, tables
  <2> QED
    BY <1>0, <2>2, <2>3, <2>4, <2>5, NodeStep DEF NodeCalls
<1> QED
  BY <1>1, <1>2 DEF CheckOutbound

LEMMA WriteCheckTables ==
  ASSUME TablesInv, NEW r \in Requests, WriteCheck(r)
  PROVE  TablesInv'
<1>0. /\ RowsOK /\ LocalsOK(r) /\ Held(r) /\ at[r] = "ocheck" /\ busy[r] /\ nmu = r
      /\ nmu' = None /\ UNCHANGED <<vmu, exits, nodes>>
  BY Facts DEF WriteCheck, Within, Locked, NodeCalls
<1>1. /\ loc[r].out \in Ids /\ saved[r] \in OutRows /\ saved[r].kind \in Sources
      /\ saved[r].kind = "manual" => outs[loc[r].out] = saved[r]
      /\ saved[r].kind = "vpngate" => (outs[loc[r].out] = None \/ outs[loc[r].out].kind = "vpngate")
  BY <1>0 DEF LocalsOK, Held, Within, OutRows
<1>2. PICK how \in {"ok", "refused", "fault"}, lost \in BOOLEAN :
        Return(r, how, loc[r], lost) /\ Returnable(r, how, loc[r])
  BY <1>0 DEF WriteCheck, Returnable, Calls
<1>3. \/ UNCHANGED outs
      \/ outs[loc[r].out] # None /\ outs' = [outs EXCEPT ![loc[r].out] = saved[r]]
  BY DEF WriteCheck, Insert
<1>4. saved[r] # None
  BY <1>1, Distinct
<1>5. /\ RowsOK'
      /\ \A o \in Ids : (outs'[o] # None /\ outs'[o].kind = "vpngate")
                            <=> (outs[o] # None /\ outs[o].kind = "vpngate")
  BY <1>0, <1>1, <1>3, <1>4 DEF RowsOK, Sources
<1> QED
  BY <1>0, <1>2, <1>5, NodeReturn DEF NodeCalls

\* The history of an exit's nodes touches nothing else of the exits.
LEMMA LeftByFacts ==
  ASSUME RowsOK, NEW r \in Requests, NEW o
  PROVE  /\ LeftBy(r, o) \in [Ids -> ExitRows \cup {None}]
         /\ \A e \in Ids : LeftBy(r, o)[e] = None <=> exits[e] = None
         /\ \A e \in Ids : exits[e] # None =>
              /\ LeftBy(r, o)[e].out = exits[e].out
              /\ LeftBy(r, o)[e].by = exits[e].by
              /\ LeftBy(r, o)[e].left = IF exits[e].out # o THEN exits[e].left
                                        ELSE IF role[r] = "remove" THEN r ELSE None
<1>1. ASSUME NEW e \in Ids
      PROVE  /\ LeftBy(r, o)[e] \in ExitRows \cup {None}
             /\ LeftBy(r, o)[e] = None <=> exits[e] = None
             /\ exits[e] # None =>
                 /\ LeftBy(r, o)[e].out = exits[e].out
                 /\ LeftBy(r, o)[e].by = exits[e].by
                 /\ LeftBy(r, o)[e].left = IF exits[e].out # o THEN exits[e].left
                                           ELSE IF role[r] = "remove" THEN r ELSE None
  <2>1. CASE exits[e] # None /\ exits[e].out = o
    <3> DEFINE by == IF role[r] = "remove" THEN r ELSE None
    <3>1. exits[e] \in ExitRows /\ by \in Owners \cup {None}
      BY <2>1 DEF RowsOK, Owners
    <3>2. LeftBy(r, o)[e] = [exits[e] EXCEPT !.left = by]
      BY <2>1 DEF LeftBy
    <3> HIDE DEF by
    <3>3. /\ LeftBy(r, o)[e] \in ExitRows
          /\ LeftBy(r, o)[e].out = exits[e].out
          /\ LeftBy(r, o)[e].by = exits[e].by
          /\ LeftBy(r, o)[e].left = by
      BY <3>1, <3>2 DEF ExitRows
    <3> QED
      BY <2>1, <3>3, Distinct DEF by
  <2>2. CASE ~(exits[e] # None /\ exits[e].out = o)
    BY <2>2 DEF LeftBy, RowsOK
  <2> QED
    BY <2>1, <2>2
<1>2. LeftBy(r, o) \in [Ids -> ExitRows \cup {None}]
  BY <1>1 DEF LeftBy
<1> QED
  BY <1>1, <1>2

LEMMA CloneTables ==
  ASSUME TablesInv, NEW r \in Requests, CloneTemporary(r)
  PROVE  TablesInv'
<1>0. /\ RowsOK /\ RequestsOK /\ KindsAgree /\ ScriptOK(r) /\ LocalsOK(r) /\ loc[r] \in Locals
      /\ at[r] = "clone" /\ ~busy[r] /\ None \notin Requests /\ loc[r].out \in Ids
  BY Facts, Distinct DEF CloneTemporary, Calling, LocalsOK
<1>1. CASE Refused(r, nmu, "refused", FALSE)
  BY <1>0, <1>1, RefusedStep DEF Calls
<1>2. CASE NodeLock(r) /\ UNCHANGED <<outs, exits>> /\
           \E n \in Fresh(nodes) :
              /\ nodes' = Insert(nodes, n, [out |-> loc[r].out, source |-> loc[r].source, by |-> r])
              /\ Hold(r, [loc[r] EXCEPT !.node = n], None)
  <2>1. PICK n \in Fresh(nodes) :
              /\ nodes' = Insert(nodes, n, [out |-> loc[r].out, source |-> loc[r].source, by |-> r])
              /\ Hold(r, [loc[r] EXCEPT !.node = n], None)
    BY <1>2
  <2>2. n \in Ids /\ nodes[n] = None
    BY ResidentialAssumption DEF Fresh, Used, Ids
  <2> DEFINE l == [loc[r] EXCEPT !.node = n]
  <2> DEFINE node == [out |-> loc[r].out, source |-> loc[r].source, by |-> r]
  <2>3. /\ l \in Locals /\ l.node = n /\ l.out = loc[r].out /\ l.source = loc[r].source
        /\ l.exit = loc[r].exit
    BY <1>0, <2>2 DEF Locals
  <2>4. node \in NodeRows
    BY <1>0 DEF NodeRows, Locals, Owners
  <2>5. /\ nodes' = [nodes EXCEPT ![n] = node]
        /\ Hold(r, l, None) /\ nmu = None /\ nmu' = r /\ UNCHANGED <<vmu, outs, exits>>
    BY <1>2, <2>1 DEF Insert, NodeLock
  <2> HIDE DEF l
  <2>6. /\ RequestsOK' /\ Others(r) /\ ScriptOK(r)'
        /\ at' = at /\ role' = role /\ busy'[r] = TRUE /\ loc'[r] = l
    BY <1>0, <2>3, <2>5, HoldFacts DEF Calls
  <2>7. RowsOK' /\ nodes'[n] = node
    BY <1>0, <2>2, <2>4, <2>5 DEF RowsOK
  <2>8. LocalsOK(r)' /\ Held(r)'
    BY <1>0, <2>2, <2>3, <2>6, <2>7 DEF LocalsOK, Held, Within
  <2>9. KindsAgree'
    BY <1>0, <2>5 DEF KindsAgree, Used
  <2> QED
    BY <1>0, <2>5, <2>6, <2>7, <2>8, <2>9, NodeStep DEF NodeCalls
<1> QED
  BY <1>1, <1>2 DEF CloneTemporary

LEMMA ApplyCloneTables ==
  ASSUME TablesInv, NEW r \in Requests, ApplyClone(r)
  PROVE  TablesInv'
<1>0. /\ RowsOK /\ LocalsOK(r) /\ at[r] = "clone" /\ busy[r]
      /\ nmu' = None /\ UNCHANGED <<vmu, outs>> /\ loc[r].node \in Ids
  BY Facts DEF ApplyClone, Within, NodeUnlock, LocalsOK
<1>1. PICK how \in {"ok", "refused", "fault"}, lost \in BOOLEAN :
        Return(r, how, loc[r], lost) /\ Returnable(r, how, loc[r])
  BY <1>0 DEF ApplyClone, Returnable, Calls
<1>2. exits' \in {exits, LeftBy(r, loc[r].out)} /\ nodes' \in {nodes, Remove(nodes, loc[r].node)}
  BY DEF ApplyClone
<1>3. /\ RowsOK'
      /\ \A e \in Ids : /\ exits'[e] = None <=> exits[e] = None
                        /\ exits[e] # None => exits'[e].out = exits[e].out
  BY <1>0, <1>2, LeftByFacts DEF RowsOK, Remove
<1> QED
  BY <1>0, <1>1, <1>3, NodeReturn DEF NodeCalls

LEMMA DeleteNodeTables ==
  ASSUME TablesInv, NEW r \in Requests, DeleteNode(r)
  PROVE  TablesInv'
<1>0. /\ RowsOK /\ RequestsOK /\ KindsAgree /\ ScriptOK(r) /\ LocalsOK(r) /\ loc[r] \in Locals
      /\ at[r] = "ndel" /\ ~busy[r] /\ None \notin Requests /\ loc[r].node \in Ids
  BY Facts, Distinct DEF DeleteNode, Calling, LocalsOK
<1> DEFINE n == loc[r].node
<1> DEFINE l == [loc[r] EXCEPT !.same = role[r] = "remove" => StillRead(r)]
<1>1. CASE Refused(r, nmu, "refused", FALSE) \/ (MayFail /\ Refused(r, nmu, "fault", TRUE))
  BY <1>0, <1>1, RefusedStep DEF Calls
<1>2. CASE /\ nodes[n] # None /\ NodeLock(r) /\ nodes' = Remove(nodes, n)
           /\ exits' = LeftBy(r, nodes[n].out)
           /\ Hold(r, l, nodes[n]) /\ UNCHANGED outs
  <2>1. nodes[n] \in NodeRows
    BY <1>0, <1>2 DEF RowsOK
  <2>2. /\ l \in Locals /\ l.node = n /\ l.out = loc[r].out /\ l.exit = loc[r].exit
    BY <1>0 DEF Locals
  <2> HIDE DEF l
  <2>3. /\ RequestsOK' /\ Others(r) /\ ScriptOK(r)'
        /\ at' = at /\ role' = role /\ busy'[r] = TRUE /\ loc'[r] = l
        /\ saved'[r] = nodes[n]
    BY <1>0, <1>2, <2>1, <2>2, HoldFacts DEF Calls
  <2>4. /\ RowsOK' /\ nodes'[n] = None
        /\ \A e \in Ids : /\ exits'[e] = None <=> exits[e] = None
                          /\ exits[e] # None => exits'[e].out = exits[e].out
    BY <1>0, <1>2, LeftByFacts DEF RowsOK, Remove
  <2>5. LocalsOK(r)' /\ Held(r)'
    BY <1>0, <2>1, <2>2, <2>3, <2>4 DEF LocalsOK, Held, Within
  <2>6. KindsAgree'
    BY <1>0, <1>2, <2>4, KindsFrame
  <2>7. nmu = None /\ nmu' = r /\ UNCHANGED vmu
    BY <1>2 DEF NodeLock
  <2> QED
    BY <1>0, <2>3, <2>4, <2>5, <2>6, <2>7, NodeStep DEF NodeCalls
<1> QED
  BY <1>1, <1>2 DEF DeleteNode

LEMMA ApplyRemovalTables ==
  ASSUME TablesInv, NEW r \in Requests, ApplyRemoval(r)
  PROVE  TablesInv'
<1>0. /\ RowsOK /\ LocalsOK(r) /\ Held(r) /\ at[r] = "ndel" /\ busy[r]
      /\ nmu' = None /\ UNCHANGED <<vmu, outs, exits>> /\ loc[r].node \in Ids
  BY Facts DEF ApplyRemoval, Within, NodeUnlock, LocalsOK
<1>1. PICK how \in {"ok", "refused", "fault"}, lost \in BOOLEAN :
        Return(r, how, loc[r], lost) /\ Returnable(r, how, loc[r])
  BY <1>0 DEF ApplyRemoval, Returnable, Calls
<1>2. nodes' \in {nodes, [nodes EXCEPT ![loc[r].node] = saved[r]]} /\ saved[r] \in NodeRows
  BY <1>0 DEF ApplyRemoval, Insert, Held, Within
<1>3. RowsOK'
  BY <1>0, <1>2 DEF RowsOK
<1> QED
  BY <1>0, <1>1, <1>3, NodeReturn DEF NodeCalls

----------------------------------------------------------------------------
(* The scripts' own steps.                                                 *)

\* Between its calls a request is not in one.
Between == {"idle", "start", "lock", "body", "work", "find", "uri", "exit", "list"}

\* A step of r that touches neither the tables nor the services' mutexes.
Quietly(r) ==
    /\ at[r] \in Between /\ ~busy[r] /\ ~busy'[r]
    /\ UNCHANGED <<tables, nmu, vmu, spoiled>>
    /\ Others(r)

LEMMA SubmitFacts ==
  ASSUME TablesInv, NEW r \in Requests, Submit(r)
  PROVE  /\ Quietly(r) /\ at[r] = "idle" /\ role'[r] = "job" /\ at'[r] = "start" /\ loc'[r] = loc[r]
         /\ RequestsOK' /\ ScriptOK(r)' /\ LocalsOK(r)'
<1>0. RequestsOK /\ ScriptOK(r) /\ LocalsOK(r) /\ at[r] = "idle" /\ ~busy[r]
  BY Facts DEF Submit, Creates, Arrives, ScriptOK, Calls
<1>1. jobs' \in [Requests -> {None, "queued", "running", "succeeded", "failed"}]
  BY <1>0 DEF Submit, RequestsOK
<1>2. /\ role' = [role EXCEPT ![r] = "job"] /\ at' = [at EXCEPT ![r] = "start"]
      /\ UNCHANGED <<tables, locks, busy, loc, saved, spoiled, faults>>
  BY DEF Submit
<1>3. RequestsOK'
  BY <1>0, <1>1, <1>2 DEF RequestsOK, Scripts, Steps, locks
<1>4. role'[r] = "job" /\ at'[r] = "start" /\ Others(r)
  BY <1>0, <1>2 DEF RequestsOK, Others
<1>5. ScriptOK(r)' /\ LocalsOK(r)'
  BY <1>0, <1>2, <1>4 DEF ScriptOK, LocalsOK, Within
<1> QED
  BY <1>0, <1>2, <1>3, <1>4, <1>5 DEF Quietly, Between, locks

LEMMA RequestManualFacts ==
  ASSUME TablesInv, NEW r \in Requests, RequestManual(r)
  PROVE  /\ Quietly(r) /\ at[r] = "idle" /\ role'[r] = "manual" /\ at'[r] = "lock" /\ loc'[r] = loc[r]
         /\ RequestsOK' /\ ScriptOK(r)' /\ LocalsOK(r)'
<1>0. RequestsOK /\ ScriptOK(r) /\ LocalsOK(r) /\ at[r] = "idle" /\ ~busy[r]
  BY Facts DEF RequestManual, Creates, Arrives, ScriptOK, Calls
<1>2. /\ role' = [role EXCEPT ![r] = "manual"] /\ at' = [at EXCEPT ![r] = "lock"]
      /\ UNCHANGED <<tables, locks, busy, loc, saved, jobs, spoiled, faults>>
  BY DEF RequestManual
<1>3. RequestsOK'
  BY <1>0, <1>2 DEF RequestsOK, Scripts, Steps, locks
<1>4. role'[r] = "manual" /\ at'[r] = "lock" /\ Others(r)
  BY <1>0, <1>2 DEF RequestsOK, Others
<1>5. ScriptOK(r)' /\ LocalsOK(r)'
  BY <1>0, <1>2, <1>4 DEF ScriptOK, LocalsOK, Within
<1> QED
  BY <1>0, <1>2, <1>3, <1>4, <1>5 DEF Quietly, Between, locks

LEMMA RequestConfigFacts ==
  ASSUME TablesInv, NEW r \in Requests, RequestConfig(r)
  PROVE  /\ Quietly(r) /\ at[r] = "idle" /\ role'[r] = "config" /\ at'[r] = "lock" /\ loc'[r] = loc[r]
         /\ RequestsOK' /\ ScriptOK(r)' /\ LocalsOK(r)'
<1>0. RequestsOK /\ ScriptOK(r) /\ LocalsOK(r) /\ at[r] = "idle" /\ ~busy[r]
  BY Facts DEF RequestConfig, Arrives, ScriptOK, Calls
<1>2. /\ role' = [role EXCEPT ![r] = "config"] /\ at' = [at EXCEPT ![r] = "lock"]
      /\ UNCHANGED <<tables, locks, busy, loc, saved, jobs, spoiled, faults>>
  BY DEF RequestConfig
<1>3. RequestsOK'
  BY <1>0, <1>2 DEF RequestsOK, Scripts, Steps, locks
<1>4. role'[r] = "config" /\ at'[r] = "lock" /\ Others(r)
  BY <1>0, <1>2 DEF RequestsOK, Others
<1>5. ScriptOK(r)' /\ LocalsOK(r)'
  BY <1>0, <1>2, <1>4 DEF ScriptOK, LocalsOK, Within
<1> QED
  BY <1>0, <1>2, <1>3, <1>4, <1>5 DEF Quietly, Between, locks

LEMMA RequestRemovalFacts ==
  ASSUME TablesInv, NEW r \in Requests, RequestRemoval(r)
  PROVE  /\ Quietly(r) /\ at[r] = "idle" /\ role'[r] = "remove" /\ at'[r] \in {"exit", "ndel"}
         /\ RequestsOK' /\ ScriptOK(r)' /\ LocalsOK(r)'
<1>0. RowsOK /\ RequestsOK /\ ScriptOK(r) /\ at[r] = "idle" /\ ~busy[r]
  BY Facts DEF RequestRemoval, Arrives, ScriptOK, Calls
<1>1. PICK n \in Used(nodes), step \in {"exit", "ndel"} :
        /\ loc' = [loc EXCEPT ![r] = [NoIds EXCEPT !.out = nodes[n].out, !.node = n,
                                                   !.source = nodes[n].source]]
        /\ at' = [at EXCEPT ![r] = step]
  BY DEF RequestRemoval
<1>2. /\ role' = [role EXCEPT ![r] = "remove"]
      /\ UNCHANGED <<tables, locks, busy, saved, jobs, spoiled, faults>>
  BY DEF RequestRemoval
<1>3. n \in Ids /\ nodes[n].out \in Ids /\ nodes[n].source \in Sources
  BY <1>0 DEF Used, RowsOK, NodeRows
<1> DEFINE l == [NoIds EXCEPT !.out = nodes[n].out, !.node = n, !.source = nodes[n].source]
<1>4. l \in Locals /\ l.node = n /\ l.out = nodes[n].out
  BY <1>1, <1>3 DEF NoIds, Locals
<1> HIDE DEF l
<1>5. loc' = [loc EXCEPT ![r] = l]
  BY <1>1 DEF l
<1>6. RequestsOK'
  BY <1>0, <1>1, <1>2, <1>4, <1>5 DEF RequestsOK, Scripts, Steps, Calls, locks
<1>7. role'[r] = "remove" /\ at'[r] = step /\ loc'[r] = l /\ Others(r)
  BY <1>0, <1>1, <1>2, <1>5 DEF RequestsOK, Others
<1>8. ScriptOK(r)' /\ LocalsOK(r)'
  BY <1>0, <1>2, <1>3, <1>4, <1>7 DEF ScriptOK, LocalsOK, Within, Calls
<1> QED
  BY <1>0, <1>2, <1>6, <1>7, <1>8 DEF Quietly, Between, locks

LEMMA ReadExitFacts ==
  ASSUME TablesInv, NEW r \in Requests, ReadExit(r)
  PROVE  /\ Quietly(r) /\ at[r] = "exit" /\ UNCHANGED role /\ role[r] = "remove"
         /\ at'[r] \in {"ndel", "failed"}
         /\ RequestsOK' /\ ScriptOK(r)' /\ LocalsOK(r)'
<1>0. /\ RowsOK /\ RequestsOK /\ ScriptOK(r) /\ LocalsOK(r) /\ at[r] = "exit" /\ ~busy[r]
      /\ role[r] \in Scripts \cup {"single", "config"} /\ loc[r] \in Locals
  BY Facts DEF ReadExit, ScriptOK, Calls
<1>1. UNCHANGED <<tables, nmu, vmu, role, busy, saved, spoiled, faults>>
  BY DEF ReadExit
<1>2. role[r] = "remove" /\ loc[r].node \in Ids /\ loc[r].out \in Ids
  BY <1>0 DEF ScriptOK, LocalsOK, Scripts, Singles
<1>3. PICK step \in {"ndel", "failed"}, l \in Locals :
        Goto(r, step, l) /\ l.node = loc[r].node /\ l.out = loc[r].out
  <2>1. CASE Goto(r, "ndel", loc[r]) \/ Goto(r, "failed", loc[r])
    BY <1>0, <2>1
  <2>2. ASSUME NEW e \in Used(exits), Goto(r, "ndel", [loc[r] EXCEPT !.exit = e])
        PROVE  \E step \in {"ndel", "failed"}, l \in Locals :
                 Goto(r, step, l) /\ l.node = loc[r].node /\ l.out = loc[r].out
    <3> DEFINE l == [loc[r] EXCEPT !.exit = e]
    <3>1. l \in Locals /\ l.node = loc[r].node /\ l.out = loc[r].out
      BY <1>0 DEF Used, Locals
    <3> HIDE DEF l
    <3>2. Goto(r, "ndel", l)
      BY <2>2 DEF l
    <3> QED
      BY <3>1, <3>2
  <2> QED
    BY <2>1, <2>2 DEF ReadExit
<1>4. /\ at'[r] = step
      /\ \A q \in Requests \ {r} : at'[q] = at[q] /\ loc'[q] = loc[q]
      /\ step \notin {"done", "failed"} => loc'[r] = l
      /\ at' \in [Requests -> Steps] /\ loc' \in [Requests -> Locals]
      /\ jobs' \in [Requests -> {None, "queued", "running", "succeeded", "failed"}]
      /\ settings' \in Requests \cup {None}
  BY <1>0, <1>3, GotoFacts DEF Steps, Calls
<1>5. RequestsOK' /\ Others(r)
  BY <1>0, <1>1, <1>4 DEF RequestsOK, Others
<1>6. ScriptOK(r)' /\ LocalsOK(r)'
  BY <1>0, <1>1, <1>2, <1>3, <1>4 DEF ScriptOK, LocalsOK, Within, Calls
<1> QED
  BY <1>0, <1>1, <1>2, <1>4, <1>5, <1>6 DEF Quietly, Between

LEMMA CallFacts ==
  ASSUME TablesInv, NEW r \in Requests, Call(r)
  PROVE  /\ Quietly(r) /\ at[r] = "idle" /\ role'[r] = "single" /\ at'[r] \in Singles
         /\ RequestsOK' /\ ScriptOK(r)' /\ LocalsOK(r)'
<1>0. RequestsOK /\ ScriptOK(r) /\ LocalsOK(r) /\ at[r] = "idle" /\ ~busy[r] /\ loc[r] \in Locals
  BY Facts DEF Call, Arrives, ScriptOK, Calls
<1>1. UNCHANGED <<tables, locks, busy, saved, jobs, spoiled, faults>>
  BY DEF Call
<1>2. PICK op \in Singles :
        /\ \/ op = "vnew" /\ UNCHANGED loc
           \/ op = "vdel" /\ \E e \in Used(exits) : loc' = [loc EXCEPT ![r].exit = e]
           \/ op \in {"odel", "ocheck"} /\ \E o \in Used(outs) : loc' = [loc EXCEPT ![r].out = o]
           \/ op = "ndel" /\ \E n \in Used(nodes) : loc' = [loc EXCEPT ![r].node = n]
        /\ role' = [role EXCEPT ![r] = "single"]
        /\ at' = [at EXCEPT ![r] = op]
  BY DEF Call
<1>3. /\ loc' \in [Requests -> Locals]
      /\ \A q \in Requests \ {r} : loc'[q] = loc[q]
      /\ op = "vnew" => loc'[r] = loc[r]
      /\ op = "vdel" => loc'[r].exit \in Ids
      /\ op \in {"odel", "ocheck"} => loc'[r].out \in Ids
      /\ op = "ndel" => loc'[r].node \in Ids
  <2>1. CASE op = "vnew" /\ UNCHANGED loc
    BY <1>0, <2>1 DEF RequestsOK
  <2>2. CASE op = "vdel" /\ \E e \in Used(exits) : loc' = [loc EXCEPT ![r].exit = e]
    <3>1. PICK e \in Used(exits) : loc' = [loc EXCEPT ![r].exit = e]
      BY <2>2
    <3>2. e \in Ids
      BY DEF Used
    <3>3. loc' \in [Requests -> Locals] /\ loc'[r].exit = e
      BY <1>0, <3>1, <3>2 DEF RequestsOK, Locals
    <3> QED
      BY <1>0, <2>2, <3>1, <3>2, <3>3 DEF RequestsOK
  <2>3. CASE op \in {"odel", "ocheck"} /\ \E o \in Used(outs) : loc' = [loc EXCEPT ![r].out = o]
    <3>1. PICK o \in Used(outs) : loc' = [loc EXCEPT ![r].out = o]
      BY <2>3
    <3>2. o \in Ids
      BY DEF Used
    <3>3. loc' \in [Requests -> Locals] /\ loc'[r].out = o
      BY <1>0, <3>1, <3>2 DEF RequestsOK, Locals
    <3> QED
      BY <1>0, <2>3, <3>1, <3>2, <3>3 DEF RequestsOK
  <2>4. CASE op = "ndel" /\ \E n \in Used(nodes) : loc' = [loc EXCEPT ![r].node = n]
    <3>1. PICK n \in Used(nodes) : loc' = [loc EXCEPT ![r].node = n]
      BY <2>4
    <3>2. n \in Ids
      BY DEF Used
    <3>3. loc' \in [Requests -> Locals] /\ loc'[r].node = n
      BY <1>0, <3>1, <3>2 DEF RequestsOK, Locals
    <3> QED
      BY <1>0, <2>4, <3>1, <3>2, <3>3 DEF RequestsOK
  <2> QED
    BY <1>2, <2>1, <2>2, <2>3, <2>4
<1>4. role'[r] = "single" /\ at'[r] = op /\ Others(r)
  BY <1>0, <1>1, <1>2, <1>3 DEF RequestsOK, Others
<1>5. RequestsOK'
  BY <1>0, <1>1, <1>2, <1>3 DEF RequestsOK, Scripts, Steps, Calls, Singles, locks
<1>6. ScriptOK(r)' /\ LocalsOK(r)'
  BY <1>0, <1>1, <1>2, <1>3, <1>4 DEF ScriptOK, LocalsOK, Within, Singles, Calls
<1> QED
  BY <1>0, <1>1, <1>2, <1>4, <1>5, <1>6 DEF Quietly, Between, locks

LEMMA StartJobFacts ==
  ASSUME TablesInv, NEW r \in Requests, StartJob(r)
  PROVE  /\ Quietly(r) /\ at[r] = "start" /\ UNCHANGED role /\ at'[r] = "lock" /\ loc'[r] = loc[r]
         /\ RequestsOK' /\ ScriptOK(r)' /\ LocalsOK(r)'
<1>0. RequestsOK /\ ScriptOK(r) /\ LocalsOK(r) /\ at[r] = "start" /\ ~busy[r] /\ role[r] \in Scripts \cup {"single", "config"}
  BY Facts DEF StartJob, ScriptOK, Calls
<1>1. jobs' \in [Requests -> {None, "queued", "running", "succeeded", "failed"}]
  BY <1>0 DEF StartJob, RequestsOK
<1>2. /\ at' = [at EXCEPT ![r] = "lock"]
      /\ UNCHANGED <<tables, locks, role, busy, loc, saved, spoiled, faults>>
  BY DEF StartJob
<1>3. RequestsOK'
  BY <1>0, <1>1, <1>2 DEF RequestsOK, Steps, locks
<1>4. at'[r] = "lock" /\ Others(r)
  BY <1>0, <1>2 DEF RequestsOK, Others
<1>5. ScriptOK(r)' /\ LocalsOK(r)'
  BY <1>0, <1>2, <1>4 DEF ScriptOK, LocalsOK, Within, Scripts, Singles
<1> QED
  BY <1>0, <1>2, <1>3, <1>4, <1>5 DEF Quietly, Between, locks

LEMMA BeginFacts ==
  ASSUME TablesInv, NEW r \in Requests, Begin(r)
  PROVE  /\ Quietly(r) /\ at[r] = "lock" /\ UNCHANGED role /\ loc'[r] = loc[r]
         /\ \/ role[r] = "config" /\ at'[r] \in {"body", "work"}
            \/ role[r] \in {"job", "manual"} /\ at'[r] \in {"find", "onew"}
         /\ RequestsOK' /\ ScriptOK(r)' /\ LocalsOK(r)'
<1>0. /\ RequestsOK /\ ScriptOK(r) /\ LocalsOK(r) /\ at[r] = "lock" /\ ~busy[r]
      /\ role[r] \in Scripts \cup {"single", "config"}
  BY Facts DEF Begin, ScriptOK, Calls
<1>1. /\ settings' = r /\ \E step : at' = [at EXCEPT ![r] = step]
      /\ UNCHANGED <<tables, nmu, vmu, role, busy, loc, saved, jobs, spoiled, faults>>
  BY DEF Begin
<1>2. role[r] \in {"job", "manual", "config"}
  BY <1>0 DEF ScriptOK, Scripts, Singles
<1>3. PICK step \in Steps :
        /\ at' = [at EXCEPT ![r] = step]
        /\ role[r] = "job" => step = "find"
        /\ role[r] = "manual" => step = "onew"
        /\ role[r] = "config" => step \in {"body", "work"}
  <2>1. CASE role[r] = "job"
    <3>1. (CASE role[r] = "job" -> {"find"} [] role[r] = "manual" -> {"onew"}
             [] OTHER -> {"body", "work"}) = {"find"}
      BY <2>1, Zenon
    <3> QED
      BY <2>1, <3>1 DEF Begin, Steps, Calls
  <2>2. CASE role[r] = "manual"
    <3>1. (CASE role[r] = "job" -> {"find"} [] role[r] = "manual" -> {"onew"}
             [] OTHER -> {"body", "work"}) = {"onew"}
      BY <2>2, Zenon
    <3> QED
      BY <2>2, <3>1 DEF Begin, Steps, Calls
  <2>3. CASE role[r] = "config"
    <3>0. role[r] # "job" /\ role[r] # "manual"
      BY <2>3
    <3>1. (CASE role[r] = "job" -> {"find"} [] role[r] = "manual" -> {"onew"}
             [] OTHER -> {"body", "work"}) = {"body", "work"}
      BY <3>0, Zenon
    <3> QED
      BY <2>3, <3>1 DEF Begin, Steps, Calls
  <2> QED
    BY <1>2, <2>1, <2>2, <2>3
<1>4. RequestsOK'
  BY <1>0, <1>1, <1>3 DEF RequestsOK
<1>5. at'[r] = step /\ Others(r)
  BY <1>0, <1>1, <1>3 DEF RequestsOK, Others
<1>6. ScriptOK(r)' /\ LocalsOK(r)'
  BY <1>0, <1>1, <1>2, <1>3, <1>5 DEF ScriptOK, LocalsOK, Within, Calls
<1> QED
  BY <1>0, <1>1, <1>2, <1>3, <1>4, <1>5, <1>6 DEF Quietly, Between

\* A request with work of its own reads its body and ends.
LEMMA ConfigFacts ==
  ASSUME TablesInv, NEW r \in Requests, ReadBody(r) \/ EndWork(r)
  PROVE  /\ Quietly(r) /\ at[r] \in {"body", "work"} /\ UNCHANGED role /\ role[r] = "config"
         /\ at'[r] \in {"work", "done", "failed"}
         /\ RequestsOK' /\ ScriptOK(r)' /\ LocalsOK(r)'
<1>0. /\ RequestsOK /\ ScriptOK(r) /\ at[r] \in {"body", "work"} /\ ~busy[r]
      /\ role[r] \in Scripts \cup {"single", "config"} /\ loc[r] \in Locals
  BY Facts DEF ReadBody, EndWork, ScriptOK, Calls
<1>1. UNCHANGED <<tables, nmu, vmu, role, busy, saved, spoiled, faults>>
  BY DEF ReadBody, EndWork
<1>2. PICK step \in {"work", "done", "failed"} : Goto(r, step, loc[r])
  BY DEF ReadBody, EndWork
<1>3. /\ at'[r] = step
      /\ \A q \in Requests \ {r} : at'[q] = at[q] /\ loc'[q] = loc[q]
      /\ at' \in [Requests -> Steps] /\ loc' \in [Requests -> Locals]
      /\ jobs' \in [Requests -> {None, "queued", "running", "succeeded", "failed"}]
      /\ settings' \in Requests \cup {None}
  BY <1>0, <1>2, GotoFacts DEF Steps, Calls
<1>4. RequestsOK' /\ Others(r)
  BY <1>0, <1>1, <1>3 DEF RequestsOK, Others
<1>5. role[r] = "config"
  BY <1>0 DEF ScriptOK, Scripts, Singles
<1>6. ScriptOK(r)' /\ LocalsOK(r)'
  BY <1>0, <1>1, <1>2, <1>3, <1>5 DEF ScriptOK, LocalsOK, Within, Calls
<1> QED
  BY <1>0, <1>1, <1>2, <1>3, <1>4, <1>5, <1>6 DEF Quietly, Between

LEMMA FindExitFacts ==
  ASSUME TablesInv, NEW r \in Requests, FindExit(r)
  PROVE  /\ Quietly(r) /\ at[r] = "find" /\ UNCHANGED role
         /\ \/ at'[r] \in {"failed", "vnew"}
            \/ at'[r] = "clone" /\ loc'[r].reused
         /\ loc'[r].same = loc[r].same
         /\ RequestsOK' /\ ScriptOK(r)' /\ LocalsOK(r)'
<1>0. /\ RowsOK /\ RequestsOK /\ ScriptOK(r) /\ LocalsOK(r) /\ at[r] = "find" /\ ~busy[r] /\ role[r] \in Scripts \cup {"single", "config"}
      /\ loc[r] \in Locals
  BY Facts DEF FindExit, ScriptOK, Calls
<1>1. UNCHANGED <<tables, nmu, vmu, role, busy, saved, spoiled, faults>>
  BY DEF FindExit
<1>2. PICK step \in {"failed", "vnew", "clone"}, l \in Locals :
        /\ Goto(r, step, l) /\ l.same = loc[r].same
        /\ step = "vnew" => l = loc[r]
        /\ step = "clone" => l.reused /\ l.exit \in Ids /\ l.out \in Ids
  <2>1. CASE Goto(r, "failed", loc[r]) \/ Goto(r, "vnew", loc[r])
    BY <1>0, <2>1
  <2>2. ASSUME NEW e \in Used(exits),
               Goto(r, "clone", [loc[r] EXCEPT !.exit = e, !.out = exits[e].out, !.reused = TRUE])
        PROVE  \E step \in {"failed", "vnew", "clone"}, l \in Locals :
                 /\ Goto(r, step, l) /\ l.same = loc[r].same
                 /\ step = "vnew" => l = loc[r]
                 /\ step = "clone" => l.reused /\ l.exit \in Ids /\ l.out \in Ids
    <3>1. e \in Ids /\ exits[e].out \in Ids
      BY <1>0 DEF Used, RowsOK, ExitRows
    <3> DEFINE l == [loc[r] EXCEPT !.exit = e, !.out = exits[e].out, !.reused = TRUE]
    <3>2. l \in Locals /\ l.reused /\ l.exit \in Ids /\ l.out \in Ids /\ l.same = loc[r].same
      BY <1>0, <3>1 DEF Locals
    <3> HIDE DEF l
    <3>3. Goto(r, "clone", l)
      BY <2>2 DEF l
    <3> QED
      BY <3>2, <3>3
  <2> QED
    BY <2>1, <2>2 DEF FindExit
<1>3. /\ at'[r] = step
      /\ \A q \in Requests \ {r} : at'[q] = at[q] /\ loc'[q] = loc[q]
      /\ step \notin {"done", "failed"} => loc'[r] = l
      /\ loc'[r].same = l.same
      /\ at' \in [Requests -> Steps] /\ loc' \in [Requests -> Locals]
      /\ jobs' \in [Requests -> {None, "queued", "running", "succeeded", "failed"}]
      /\ settings' \in Requests \cup {None}
  BY <1>0, <1>2, GotoFacts DEF Steps, Calls
<1>4. RequestsOK' /\ Others(r)
  BY <1>0, <1>1, <1>3 DEF RequestsOK, Others
<1>5. ScriptOK(r)' /\ LocalsOK(r)'
  BY <1>0, <1>1, <1>2, <1>3 DEF ScriptOK, LocalsOK, Within, Scripts, Singles, Calls
<1> QED
  BY <1>0, <1>1, <1>2, <1>3, <1>4, <1>5 DEF Quietly, Between

LEMMA URIFacts ==
  ASSUME TablesInv, NEW r \in Requests, URI(r)
  PROVE  /\ Quietly(r) /\ at[r] = "uri" /\ UNCHANGED role
         /\ \/ at'[r] = "done"
            \/ at'[r] = "ndel" /\ loc'[r] = loc[r]
         /\ loc'[r].same = loc[r].same
         /\ RequestsOK' /\ ScriptOK(r)' /\ LocalsOK(r)'
<1>0. /\ RowsOK /\ RequestsOK /\ ScriptOK(r) /\ LocalsOK(r) /\ at[r] = "uri" /\ ~busy[r]
      /\ role[r] \in Scripts \cup {"single", "config"} /\ loc[r] \in Locals
  BY Facts DEF URI, ScriptOK, Calls
<1>1. UNCHANGED <<tables, nmu, vmu, role, busy, saved, spoiled, faults>>
  BY DEF URI
<1>2. PICK step \in {"done", "ndel"} : Goto(r, step, loc[r])
  BY DEF URI
<1>3. /\ at'[r] = step
      /\ \A q \in Requests \ {r} : at'[q] = at[q] /\ loc'[q] = loc[q]
      /\ step \notin {"done", "failed"} => loc'[r] = loc[r]
      /\ loc'[r].same = loc[r].same
      /\ at' \in [Requests -> Steps] /\ loc' \in [Requests -> Locals]
      /\ jobs' \in [Requests -> {None, "queued", "running", "succeeded", "failed"}]
      /\ settings' \in Requests \cup {None}
  BY <1>0, <1>2, GotoFacts DEF Steps, Calls
<1>4. RequestsOK' /\ Others(r)
  BY <1>0, <1>1, <1>3 DEF RequestsOK, Others
<1>5. ScriptOK(r)' /\ LocalsOK(r)'
  BY <1>0, <1>1, <1>2, <1>3 DEF ScriptOK, LocalsOK, Within, Scripts, Singles, Calls
<1> QED
  BY <1>0, <1>1, <1>2, <1>3, <1>4, <1>5 DEF Quietly, Between

LEMMA ListRemainingFacts ==
  ASSUME TablesInv, NEW r \in Requests, ListRemaining(r)
  PROVE  /\ Quietly(r) /\ at[r] = "list" /\ UNCHANGED role
         /\ \/ at'[r] = "failed"
            \/ at'[r] = "done" /\ InUse(loc[r].out)
            \/ at'[r] = "vdel" /\ loc'[r] = loc[r] /\ loc[r].exit # 0
            \/ at'[r] = "odel" /\ loc'[r] = loc[r]
         /\ loc'[r].same = loc[r].same
         /\ RequestsOK' /\ ScriptOK(r)' /\ LocalsOK(r)'
<1>0. /\ RowsOK /\ RequestsOK /\ ScriptOK(r) /\ LocalsOK(r) /\ at[r] = "list" /\ ~busy[r]
      /\ role[r] \in Scripts \cup {"single", "config"} /\ loc[r] \in Locals
  BY Facts DEF ListRemaining, ScriptOK, Calls
<1>1. UNCHANGED <<tables, nmu, vmu, role, busy, saved, spoiled, faults>>
  BY DEF ListRemaining
<1>2. PICK step \in {"done", "vdel", "odel", "failed"} :
        /\ Goto(r, step, loc[r])
        /\ step = "done" => InUse(loc[r].out)
        /\ step = "vdel" => loc[r].exit # 0
  BY DEF ListRemaining
<1>3. /\ at'[r] = step
      /\ \A q \in Requests \ {r} : at'[q] = at[q] /\ loc'[q] = loc[q]
      /\ step \notin {"done", "failed"} => loc'[r] = loc[r]
      /\ loc'[r].same = loc[r].same
      /\ at' \in [Requests -> Steps] /\ loc' \in [Requests -> Locals]
      /\ jobs' \in [Requests -> {None, "queued", "running", "succeeded", "failed"}]
      /\ settings' \in Requests \cup {None}
  BY <1>0, <1>2, GotoFacts DEF Steps, Calls
<1>4. RequestsOK' /\ Others(r)
  BY <1>0, <1>1, <1>3 DEF RequestsOK, Others
<1>5. role[r] = "remove" /\ loc[r].exit \in Ids \cup {0}
  BY <1>0 DEF ScriptOK, Scripts, Singles, Locals
<1>6. ScriptOK(r)' /\ LocalsOK(r)'
  BY <1>0, <1>1, <1>2, <1>3, <1>5 DEF ScriptOK, LocalsOK, Within, Calls
<1> QED
  BY <1>0, <1>1, <1>2, <1>3, <1>4, <1>6 DEF Quietly, Between

\* All of them keep the invariant of the tables.
Own(r) ==
    \/ Submit(r) \/ RequestManual(r) \/ RequestConfig(r) \/ RequestRemoval(r) \/ Call(r)
    \/ StartJob(r) \/ Begin(r) \/ ReadBody(r) \/ EndWork(r)
    \/ FindExit(r) \/ URI(r) \/ ReadExit(r) \/ ListRemaining(r)

LEMMA OwnTables ==
  ASSUME TablesInv, NEW r \in Requests, Own(r)
  PROVE  TablesInv' /\ Quietly(r)
<1>1. Quietly(r) /\ RequestsOK' /\ ScriptOK(r)' /\ LocalsOK(r)'
  <2>1. CASE Submit(r)
    BY <2>1, SubmitFacts
  <2>2. CASE RequestManual(r)
    BY <2>2, RequestManualFacts
  <2>3. CASE RequestRemoval(r)
    BY <2>3, RequestRemovalFacts
  <2>4. CASE Call(r)
    BY <2>4, CallFacts
  <2>5. CASE StartJob(r)
    BY <2>5, StartJobFacts
  <2>6. CASE Begin(r)
    BY <2>6, BeginFacts
  <2>7. CASE FindExit(r)
    BY <2>7, FindExitFacts
  <2>8. CASE URI(r)
    BY <2>8, URIFacts
  <2>9. CASE ListRemaining(r)
    BY <2>9, ListRemainingFacts
  <2>10. CASE RequestConfig(r)
    BY <2>10, RequestConfigFacts
  <2>11. CASE ReadBody(r) \/ EndWork(r)
    BY <2>11, ConfigFacts
  <2>12. CASE ReadExit(r)
    BY <2>12, ReadExitFacts
  <2> QED
    BY <2>1, <2>2, <2>3, <2>4, <2>5, <2>6, <2>7, <2>8, <2>9, <2>10, <2>11, <2>12 DEF Own
<1> QED
  BY <1>1, ScriptStep DEF Quietly

LEMMA TablesStep ==
  ASSUME TablesInv, [Next]_vars
  PROVE  TablesInv'
<1>1. CASE Watch
  BY <1>1, WatchTables
<1>2. ASSUME NEW r \in Requests, Own(r) PROVE TablesInv'
  BY <1>2, OwnTables
<1>3. ASSUME NEW r \in Requests, GateCall(r) PROVE TablesInv'
  BY <1>3, CreateExitTables, ConnectTables, DeleteExitTables, StopExitTables DEF GateCall
<1>4. ASSUME NEW r \in Requests, NodeCall(r) PROVE TablesInv'
  <2>1. CASE CreateOutbound(r) \/ ApplyOutbound(r) \/ DeleteOutbound(r) \/ ApplyDeletion(r)
    BY <2>1, CreateOutboundTables, ApplyOutboundTables, DeleteOutboundTables, ApplyDeletionTables
  <2>2. CASE CheckOutbound(r) \/ WriteCheck(r)
    BY <2>2, CheckOutboundTables, WriteCheckTables
  <2>3. CASE CloneTemporary(r) \/ ApplyClone(r) \/ DeleteNode(r) \/ ApplyRemoval(r)
    BY <2>3, CloneTables, ApplyCloneTables, DeleteNodeTables, ApplyRemovalTables
  <2> QED
    BY <1>4, <2>1, <2>2, <2>3 DEF NodeCall
<1>5. CASE UNCHANGED vars
  <2>1. TypeOK' /\ Locked' /\ KindsAgree'
    BY <1>5 DEF TablesInv, vars, tables, locks, TypeOK, Locked, KindsAgree, Used
  <2>2. ASSUME NEW q \in Requests PROVE ScriptOK(q)' /\ LocalsOK(q)' /\ Held(q)'
    <3>1. ScriptOK(q) /\ LocalsOK(q) /\ Held(q)
      BY DEF TablesInv
    <3>2. ScriptOK(q)' /\ LocalsOK(q)'
      BY <1>5, <3>1 DEF vars, ScriptOK, LocalsOK, Within
    <3>3. Held(q)'
      BY <1>5, <3>1 DEF vars, tables, Held, Within
    <3> QED
      BY <3>2, <3>3
  <2> QED
    BY <2>1, <2>2 DEF TablesInv
<1> QED
  BY <1>1, <1>2, <1>3, <1>4, <1>5 DEF Next, Request, Proceed, Own

LEMMA TablesInit == Init => TablesInv
<1> SUFFICES ASSUME Init PROVE TablesInv
  OBVIOUS
<1>0. 1 \in Ids /\ 2 \in Ids
  BY ResidentialAssumption DEF Ids
<1> DEFINE exit == [out |-> 1, by |-> Before, running |-> TRUE, up |-> TRUE, left |-> None]
<1>1. /\ Gate \in OutRows /\ Hand \in OutRows /\ Bound \in NodeRows /\ exit \in ExitRows
      /\ Gate.kind = "vpngate" /\ Hand.kind = "manual" /\ exit.out = 1
  BY <1>0 DEF Gate, Hand, Bound, OutRows, NodeRows, ExitRows, Sources, Owners
<1>2. /\ outs = [i \in Ids |-> IF i = 1 THEN Gate ELSE IF i = 2 THEN Hand ELSE None]
      /\ nodes = [i \in Ids |-> IF i = 1 THEN Bound ELSE IF i = 2 THEN Bound ELSE None]
      /\ exits = [i \in Ids |-> IF i = 1 THEN exit ELSE IF i = 2 THEN None ELSE None]
  BY DEF Init, Table
<1> HIDE DEF exit
<1>3. RowsOK
  BY <1>1, <1>2 DEF RowsOK
<1>4. RequestsOK /\ nmu = None /\ vmu = None
  BY NoIdsTyped, ResidentialAssumption DEF Init, RequestsOK, Scripts, Steps
<1>5. TypeOK
  BY <1>3, <1>4, TypeParts
<1>6. KindsAgree
  BY <1>0, <1>1, <1>2, Distinct DEF KindsAgree, Used
<1>7. \A r \in Requests : at[r] = "idle" /\ ~busy[r] /\ role[r] = "single" /\ ~loc[r].reused
  BY DEF Init, NoIds
<1>8. Locked
  BY <1>4, <1>7, Distinct DEF Locked
<1>9. \A r \in Requests : ScriptOK(r) /\ LocalsOK(r) /\ Held(r)
  BY <1>7 DEF ScriptOK, LocalsOK, Held, Within
<1> QED
  BY <1>5, <1>6, <1>8, <1>9 DEF TablesInv

\* The tables keep their shape, the locals of every script hold the ids its
\* next call needs, and the two tables of exits and outbounds agree - for any
\* number of requests, whatever fails in between.
THEOREM TablesHold == Spec => []TablesInv
BY TablesInit, TablesStep, PTL DEF Spec

\* Every exit has an outbound of kind vpngate of its own and every such
\* outbound an exit, although two services with a mutex each write the
\* outbounds and checks and restores write whole rows back.
THEOREM KindsAgreeHolds == Spec => []KindsAgree
<1>1. TablesInv => KindsAgree
  BY DEF TablesInv
<1> QED
  BY <1>1, TablesHold, PTL

----------------------------------------------------------------------------
(* What a request created, and what a removal left.                        *)

HistoryInv == TablesInv /\ OwnsAll /\ LeavesAll

LEMMA HistoryFacts ==
  ASSUME HistoryInv, NEW r \in Requests
  PROVE  /\ TablesInv /\ RowsOK /\ RequestsOK /\ KindsAgree /\ Locked
         /\ ScriptOK(r) /\ LocalsOK(r) /\ Held(r) /\ Owns(r) /\ Leaves(r)
         /\ loc[r] \in Locals /\ busy[r] \in BOOLEAN /\ role[r] \in Scripts \cup {"single", "config"}
         /\ r # None /\ None \notin Requests
BY Facts, Distinct DEF HistoryInv, OwnsAll, LeavesAll

\* What a step of r may do to the tables, seen by the others: remove rows,
\* write rows of its own, and put back a row that it deleted itself; and no
\* exit that somebody else was the last to leave loses a node.
Respects(r) ==
    /\ Others(r)
    /\ spoiled \subseteq spoiled'
    /\ \A n \in Ids :
        \/ nodes'[n] = None \/ nodes'[n] = nodes[n] \/ nodes'[n].by = r
        \/ Within(r, "ndel") /\ n = loc[r].node /\ nodes'[n] = saved[r]
    /\ \A o \in Ids :
        \/ outs'[o] = None \/ outs'[o] = outs[o] \/ outs'[o].kind = "vpngate" \/ outs'[o].by = r
        \/ Within(r, "odel") /\ o = loc[r].out /\ outs'[o] = saved[r]
    /\ \A e \in Ids :
        \/ exits'[e] = None
        \/ exits'[e].by = r /\ exits'[e].left \in {None, r}
        \/ /\ exits[e] # None /\ exits'[e].by = exits[e].by /\ exits'[e].out = exits[e].out
           /\ \/ exits'[e].left \in {None, r}
              \/ exits'[e].left = exits[e].left /\ (InUse(exits[e].out) => InUse(exits[e].out)')
    /\ Within(r, "ndel")' =>
        nmu = None /\ loc'[r].node \in Ids /\ nodes[loc'[r].node] # None
            /\ saved'[r] = nodes[loc'[r].node]
    /\ Within(r, "odel")' =>
        nmu = None /\ loc'[r].out \in Ids /\ outs[loc'[r].out] # None
            /\ outs[loc'[r].out].kind = "manual" /\ saved'[r] = outs[loc'[r].out]

LEMMA OwnsOther ==
  ASSUME HistoryInv, NEW r \in Requests, NEW p \in Requests, p # r, Respects(r)
  PROVE  Owns(p)'
<1>0. /\ RowsOK /\ Locked /\ Owns(p) /\ None \notin Requests
      /\ LocalsOK(r) /\ (Within(r, "ndel") => loc[r].node \in Ids)
  BY HistoryFacts DEF LocalsOK, Within
<1>1. role'[p] = role[p] /\ at'[p] = at[p] /\ busy'[p] = busy[p] /\ loc'[p] = loc[p]
  BY DEF Respects, Others
<1>2. SUFFICES ASSUME p \notin spoiled, at[p] = "idle" \/ role[p] \in {"job", "manual"}
               PROVE  Owns(p)'
  BY <1>1 DEF Owns, Respects
<1>3. /\ \A n \in Ids : (nodes[n] # None /\ nodes[n].by = p) =>
            \/ at[p] = "done"
            \/ n = loc[p].node /\ (at[p] \in {"uri", "ndel"} \/ Within(p, "clone"))
      /\ \A q \in Requests : (Within(q, "ndel") /\ saved[q].by = p) =>
            \/ at[p] = "done"
            \/ q = p
            \/ loc[q].node = loc[p].node /\ at[p] \in {"uri", "ndel"}
  BY <1>0, <1>2 DEF Owns, Used
<1>4. /\ \A e \in Ids : (exits[e] # None /\ exits[e].by = p) =>
            \/ at[p] = "done"
            \/ /\ e = loc[p].exit /\ ~loc[p].reused /\ role[p] = "job"
               /\ at[p] \in {"clone", "uri", "ndel", "vdel"} \/ Within(p, "vnew")
      /\ \A o \in Ids : (outs[o] # None /\ outs[o].kind = "manual" /\ outs[o].by = p) =>
            \/ at[p] = "done"
            \/ /\ o = loc[p].out /\ role[p] = "manual"
               /\ at[p] \in {"ocheck", "clone", "uri", "ndel", "odel"} \/ Within(p, "onew")
      /\ \A q \in Requests : (Within(q, "odel") /\ saved[q].by = p) =>
            \/ at[p] = "done"
            \/ q = p
            \/ /\ loc[q].out = loc[p].out /\ role[p] = "manual"
               /\ at[p] \in {"ocheck", "clone", "uri", "ndel", "odel"}
  BY <1>0, <1>2 DEF Owns, Used
<1>5. nmu = None => (~Within(p, "clone") /\ ~Within(p, "onew"))
  BY <1>0 DEF Locked, Within, NodeCalls
<1>6. ASSUME NEW n \in Ids, nodes'[n] # None, nodes'[n].by = p
      PROVE  \/ at'[p] = "done"
             \/ n = loc'[p].node /\ (at'[p] \in {"uri", "ndel"} \/ Within(p, "clone")')
  BY <1>1, <1>3, <1>6 DEF Respects, Within
<1>7. ASSUME NEW q \in Requests, Within(q, "ndel")', saved'[q].by = p
      PROVE  \/ at'[p] = "done"
             \/ q = p
             \/ loc'[q].node = loc'[p].node /\ at'[p] \in {"uri", "ndel"}
  <2>1. CASE q = r
    BY <1>1, <1>3, <1>5, <1>7, <2>1 DEF Respects
  <2>2. CASE q # r
    <3>1. Within(q, "ndel") /\ saved'[q] = saved[q] /\ loc'[q] = loc[q]
      BY <1>7, <2>2 DEF Respects, Others, Within
    <3> QED
      BY <1>1, <1>3, <1>7, <3>1
  <2> QED
    BY <2>1, <2>2
<1>8. ASSUME NEW e \in Ids, exits'[e] # None, exits'[e].by = p
      PROVE  \/ at'[p] = "done"
             \/ /\ e = loc'[p].exit /\ ~loc'[p].reused /\ role'[p] = "job"
                /\ at'[p] \in {"clone", "uri", "ndel", "vdel"} \/ Within(p, "vnew")'
  BY <1>1, <1>4, <1>8 DEF Respects, Within
<1>9. ASSUME NEW o \in Ids, outs'[o] # None, outs'[o].kind = "manual", outs'[o].by = p
      PROVE  \/ at'[p] = "done"
             \/ /\ o = loc'[p].out /\ role'[p] = "manual"
                /\ at'[p] \in {"ocheck", "clone", "uri", "ndel", "odel"} \/ Within(p, "onew")'
  BY <1>1, <1>4, <1>9 DEF Respects, Within
<1>10. ASSUME NEW q \in Requests, Within(q, "odel")', saved'[q].by = p
       PROVE  \/ at'[p] = "done"
              \/ q = p
              \/ /\ loc'[q].out = loc'[p].out /\ role'[p] = "manual"
                 /\ at'[p] \in {"ocheck", "clone", "uri", "ndel", "odel"}
  <2>1. CASE q = r
    BY <1>1, <1>4, <1>5, <1>10, <2>1 DEF Respects
  <2>2. CASE q # r
    <3>1. Within(q, "odel") /\ saved'[q] = saved[q] /\ loc'[q] = loc[q]
      BY <1>10, <2>2 DEF Respects, Others, Within
    <3> QED
      BY <1>1, <1>4, <1>10, <3>1
  <2> QED
    BY <2>1, <2>2
<1> QED
  BY <1>6, <1>7, <1>8, <1>9, <1>10 DEF Owns, Used

LEMMA LeavesOther ==
  ASSUME HistoryInv, NEW r \in Requests, NEW p \in Requests, p # r, Respects(r)
  PROVE  Leaves(p)'
<1>0. Leaves(p) /\ p # None
  BY HistoryFacts
<1>1. role'[p] = role[p] /\ at'[p] = at[p] /\ busy'[p] = busy[p] /\ loc'[p] = loc[p]
  BY DEF Respects, Others
<1>2. ASSUME NEW e \in Ids, exits'[e] # None, exits'[e].left = p
      PROVE  /\ exits[e] # None /\ exits[e].left = p /\ exits'[e].out = exits[e].out
             /\ InUse(exits[e].out) => InUse(exits[e].out)'
  BY <1>0, <1>2 DEF Respects
<1> QED
  BY <1>0, <1>1, <1>2 DEF Leaves, Used, Within, Calling

LEMMA HistoryStep ==
  ASSUME HistoryInv, TablesInv', NEW r \in Requests, Respects(r), Owns(r)', Leaves(r)'
  PROVE  HistoryInv'
BY OwnsOther, LeavesOther DEF HistoryInv, OwnsAll, LeavesAll

\* A step that leaves the tables alone and is not within a deletion.
LEMMA RespectsTables ==
  ASSUME NEW r \in Requests, UNCHANGED tables, Others(r), spoiled \subseteq spoiled',
         ~Within(r, "ndel")', ~Within(r, "odel")'
  PROVE  Respects(r)
<1>1. \A o : InUse(o) <=> InUse(o)'
  BY DEF InUse, Used, tables
<1> QED
  BY <1>1 DEF Respects, tables

\* The scripts' own steps, as far as the histories are concerned.
LEMMA OwnMoves ==
  ASSUME TablesInv, NEW r \in Requests, Own(r)
  PROVE  \/ at[r] \in {"idle", "start", "find"} \/ (at[r] = "lock" /\ role[r] \in {"job", "manual"})
         \/ /\ at[r] \in {"lock", "body", "work", "exit"} /\ role[r] \in {"config", "remove"}
            /\ UNCHANGED role /\ at'[r] # "idle"
         \/ /\ at[r] = "uri" /\ UNCHANGED role
            /\ at'[r] = "done" \/ (at'[r] = "ndel" /\ loc'[r] = loc[r])
         \/ /\ at[r] = "list" /\ UNCHANGED role /\ loc'[r].same = loc[r].same
            /\ \/ at'[r] = "failed"
               \/ at'[r] = "done" /\ InUse(loc[r].out)
               \/ at'[r] = "vdel" /\ loc'[r] = loc[r] /\ loc[r].exit # 0
               \/ at'[r] = "odel" /\ loc'[r] = loc[r]
<1>1. CASE Submit(r)
  BY <1>1, SubmitFacts
<1>2. CASE RequestManual(r)
  BY <1>2, RequestManualFacts
<1>3. CASE RequestRemoval(r)
  BY <1>3, RequestRemovalFacts
<1>4. CASE Call(r)
  BY <1>4, CallFacts
<1>5. CASE StartJob(r)
  BY <1>5, StartJobFacts
<1>6. CASE Begin(r)
  BY <1>6, BeginFacts
<1>7. CASE FindExit(r)
  BY <1>7, FindExitFacts
<1>8. CASE URI(r)
  BY <1>8, URIFacts
<1>9. CASE ListRemaining(r)
  BY <1>9, ListRemainingFacts
<1>10. CASE RequestConfig(r)
  BY <1>10, RequestConfigFacts
<1>11. CASE ReadBody(r) \/ EndWork(r)
  BY <1>11, ConfigFacts
<1>12. CASE ReadExit(r)
  BY <1>12, ReadExitFacts
<1> QED
  BY <1>1, <1>2, <1>3, <1>4, <1>5, <1>6, <1>7, <1>8, <1>9, <1>10, <1>11, <1>12 DEF Own

LEMMA OwnHistory ==
  ASSUME HistoryInv, NEW r \in Requests, Own(r)
  PROVE  HistoryInv'
<1>0. /\ TablesInv /\ ScriptOK(r) /\ Owns(r) /\ Leaves(r) /\ role[r] \in Scripts \cup {"single", "config"}
  BY HistoryFacts
<1>1. TablesInv' /\ Quietly(r)
  BY <1>0, OwnTables
<1>2. /\ UNCHANGED tables /\ spoiled' = spoiled /\ ~busy[r] /\ ~busy'[r]
      /\ \A q \in Requests \ {r} : Within(q, "ndel")' <=> Within(q, "ndel")
      /\ \A q \in Requests \ {r} : Within(q, "odel")' <=> Within(q, "odel")
      /\ \A q \in Requests \ {r} : saved'[q] = saved[q] /\ loc'[q] = loc[q]
      /\ ~Within(r, "ndel")' /\ ~Within(r, "odel")' /\ Others(r)
  BY <1>1 DEF Quietly, Within, Others
<1>3. Respects(r)
  BY <1>2, RespectsTables
<1>4. CASE at[r] \in {"idle", "start", "find"} \/ (at[r] = "lock" /\ role[r] \in {"job", "manual"})
  <2>1. r \in spoiled \/ at[r] = "idle" \/ role[r] \in {"job", "manual"}
    BY <1>0, <1>4 DEF ScriptOK, Scripts, Singles
  <2>2. Owns(r)'
    BY <1>0, <1>2, <1>4, <2>1 DEF Owns, Used, Within, tables
  <2>3. Leaves(r)'
    BY <1>0, <1>2, <1>4 DEF Leaves, Used, Within, tables
  <2> QED
    BY <1>1, <1>3, <2>2, <2>3, HistoryStep
<1>5. CASE /\ at[r] = "uri" /\ UNCHANGED role
           /\ at'[r] = "done" \/ (at'[r] = "ndel" /\ loc'[r] = loc[r])
  <2>1. role[r] \in {"job", "manual"}
    BY <1>0, <1>5 DEF ScriptOK, Scripts, Singles
  <2>2. Owns(r)'
    BY <1>0, <1>2, <1>5, <2>1 DEF Owns, Used, Within, tables
  <2>3. Leaves(r)'
    BY <1>0, <1>2, <1>5, <2>1 DEF Leaves, Used, tables
  <2> QED
    BY <1>1, <1>3, <2>2, <2>3, HistoryStep
<1>6. CASE /\ at[r] = "list" /\ UNCHANGED role /\ loc'[r].same = loc[r].same
           /\ \/ at'[r] = "failed"
              \/ at'[r] = "done" /\ InUse(loc[r].out)
              \/ at'[r] = "vdel" /\ loc'[r] = loc[r] /\ loc[r].exit # 0
              \/ at'[r] = "odel" /\ loc'[r] = loc[r]
  <2>1. role[r] = "remove"
    BY <1>0, <1>6 DEF ScriptOK, Scripts, Singles
  <2>2. Owns(r)'
    BY <1>6, <2>1 DEF Owns
  <2>3. ASSUME NEW e \in Ids, exits[e] # None, exits[e].left = r, loc[r].same
        PROVE  exits[e].out = loc[r].out /\ loc[r].exit \in {0, e}
    BY <1>0, <1>6, <2>3 DEF Leaves, Used, Calling
  <2>4. Leaves(r)'
    BY <1>2, <1>6, <2>1, <2>3 DEF Leaves, Used, InUse, Calling, tables
  <2> QED
    BY <1>1, <1>3, <2>2, <2>4, HistoryStep
<1>7. CASE /\ at[r] \in {"lock", "body", "work", "exit"} /\ role[r] \in {"config", "remove"}
           /\ UNCHANGED role /\ at'[r] # "idle"
  <2>1. Owns(r)'
    BY <1>7 DEF Owns
  <2>2. Leaves(r)'
    BY <1>0, <1>2, <1>7 DEF Leaves, Used, Within, tables
  <2> QED
    BY <1>1, <1>3, <2>1, <2>2, HistoryStep
<1> QED
  BY <1>0, <1>4, <1>5, <1>6, <1>7, OwnMoves

\* What a call that returns leaves to be shown: the tables around it.
LEMMA ReturnHistory ==
  ASSUME HistoryInv, NEW r \in Requests, NEW how, NEW l, NEW lost \in BOOLEAN,
         Returnable(r, how, l), Return(r, how, l, lost)
  PROVE  /\ Others(r) /\ role' = role /\ ~busy'[r] /\ saved'[r] = None
         /\ Follows(r, at[r], how, l, at'[r])
         /\ loc'[r].same = l.same
         /\ at'[r] \notin {"done", "failed"} => loc'[r] = l
         /\ spoiled' = IF lost /\ role[r] \in {"job", "manual"} THEN spoiled \cup {r} ELSE spoiled
         /\ ~Within(r, "ndel")' /\ ~Within(r, "odel")'
         /\ \A q \in Requests \ {r} : Within(q, "ndel")' <=> Within(q, "ndel")
         /\ \A q \in Requests \ {r} : Within(q, "odel")' <=> Within(q, "odel")
         /\ \A q \in Requests \ {r} : saved'[q] = saved[q] /\ loc'[q] = loc[q]
<1>1. RequestsOK /\ ScriptOK(r) /\ LocalsOK(r)
  BY HistoryFacts
<1>2. /\ Others(r) /\ role' = role /\ busy'[r] = FALSE /\ saved'[r] = None
      /\ Follows(r, at[r], how, l, at'[r])
      /\ loc'[r].same = l.same
      /\ at'[r] \notin {"done", "failed"} => loc'[r] = l
      /\ spoiled' = IF lost /\ role[r] \in {"job", "manual"} THEN spoiled \cup {r} ELSE spoiled
  BY <1>1, ReturnFacts
<1> QED
  BY <1>2 DEF Within, Others

LEMMA HoldHistory ==
  ASSUME HistoryInv, NEW r \in Requests, NEW l \in Locals,
         NEW row \in OutRows \cup NodeRows \cup {None}, at[r] \in Calls, Hold(r, l, row)
  PROVE  /\ Others(r) /\ role' = role /\ at' = at /\ spoiled' = spoiled
         /\ busy'[r] = TRUE /\ loc'[r] = l /\ saved'[r] = row
         /\ \A q \in Requests \ {r} : Within(q, "ndel")' <=> Within(q, "ndel")
         /\ \A q \in Requests \ {r} : Within(q, "odel")' <=> Within(q, "odel")
         /\ \A q \in Requests \ {r} : saved'[q] = saved[q] /\ loc'[q] = loc[q]
<1>1. RequestsOK /\ ScriptOK(r)
  BY HistoryFacts
<1>2. /\ Others(r) /\ role' = role /\ at' = at /\ spoiled' = spoiled
      /\ busy'[r] = TRUE /\ loc'[r] = l /\ saved'[r] = row
  BY <1>1, HoldFacts
<1> QED
  BY <1>2 DEF Within, Others

\* A removal whose call fails has failed, and so has every script whose last
\* deletion fails.
LEMMA RefusedHistory ==
  ASSUME HistoryInv, TablesInv', NEW r \in Requests, NEW mutex, NEW how \in {"refused", "fault"},
         NEW lost \in BOOLEAN, at[r] \in Calls, ~busy[r], how = "fault" => MayFail,
         Refused(r, mutex, how, lost),
         lost \/ (/\ at[r] = "vdel" => exits[loc[r].exit] = None
                  /\ at[r] = "ndel" => (nodes[loc[r].node] = None /\ nmu = None)
                  /\ at[r] = "odel" => (outs[loc[r].out] = None /\ nmu = None))
  PROVE  HistoryInv'
<1>0. /\ ScriptOK(r) /\ Owns(r) /\ Leaves(r) /\ Locked /\ None \notin Requests
      /\ role[r] \in Scripts \cup {"single", "config"}
  BY HistoryFacts
<1>1. Returnable(r, how, loc[r])
  BY DEF Returnable
<1>2. /\ Others(r) /\ role' = role /\ ~busy'[r]
      /\ Follows(r, at[r], how, loc[r], at'[r])
      /\ loc'[r].same = loc[r].same
      /\ at'[r] \notin {"done", "failed"} => loc'[r] = loc[r]
      /\ spoiled' = IF lost /\ role[r] \in {"job", "manual"} THEN spoiled \cup {r} ELSE spoiled
      /\ ~Within(r, "ndel")' /\ ~Within(r, "odel")'
      /\ \A q \in Requests \ {r} : Within(q, "ndel")' <=> Within(q, "ndel")
      /\ \A q \in Requests \ {r} : Within(q, "odel")' <=> Within(q, "odel")
      /\ \A q \in Requests \ {r} : saved'[q] = saved[q] /\ loc'[q] = loc[q]
  BY <1>1, ReturnHistory DEF Refused
<1>3. UNCHANGED tables
  BY DEF Refused
<1>4. Respects(r)
  BY <1>2, <1>3, RespectsTables
<1>5. nmu = None => \A q \in Requests : ~Within(q, "ndel") /\ ~Within(q, "odel")
  BY <1>0 DEF Locked, Within, NodeCalls
<1>6. Owns(r)'
  <2>1. SUFFICES ASSUME r \notin spoiled', at'[r] = "idle" \/ role[r] \in {"job", "manual"}
                 PROVE  Owns(r)'
    BY <1>2 DEF Owns
  <2>2. role[r] \in {"job", "manual"} /\ r \notin spoiled /\ ~lost
    BY <1>0, <1>2, <2>1 DEF Follows, ScriptOK, Scripts, Calls, Singles
  <2>3. CASE role[r] = "job"
    <3>1. at[r] \in {"vnew", "clone", "ndel", "vdel"}
      BY <1>0, <2>3 DEF ScriptOK, Calls
    <3> QED
      BY <1>0, <1>2, <1>3, <1>5, <2>2, <2>3, <3>1 DEF Owns, Used, Within, Follows, tables
  <2>4. CASE role[r] = "manual"
    <3>1. at[r] \in {"onew", "ocheck", "clone", "ndel", "odel"}
      BY <1>0, <2>4 DEF ScriptOK, Calls
    <3> QED
      BY <1>0, <1>2, <1>3, <1>5, <2>2, <2>4, <3>1 DEF Owns, Used, Within, Follows, tables
  <2> QED
    BY <2>2, <2>3, <2>4
<1>7. Leaves(r)'
  <2>1. ASSUME NEW e \in Ids, exits[e] # None, exits[e].left = r
        PROVE  role[r] = "remove" /\ at'[r] = "failed"
    BY <1>0, <1>2, <2>1 DEF Leaves, Used, Follows
  <2> QED
    BY <1>2, <1>3, <2>1 DEF Leaves, Used, tables
<1> QED
  BY <1>4, <1>6, <1>7, HistoryStep

LEMMA CreateExitHistory ==
  ASSUME HistoryInv, NEW r \in Requests, CreateExit(r)
  PROVE  HistoryInv'
<1>0. /\ TablesInv /\ RowsOK /\ ScriptOK(r) /\ LocalsOK(r) /\ Owns(r) /\ Leaves(r) /\ loc[r] \in Locals
      /\ at[r] = "vnew" /\ ~busy[r] /\ None \notin Requests /\ role[r] \in Scripts \cup {"single", "config"}
  BY HistoryFacts DEF CreateExit, Calling
<1>t. TablesInv'
  BY <1>0, CreateExitTables
<1>1. CASE Refused(r, vmu, "refused", FALSE)
  BY <1>0, <1>1, <1>t, RefusedHistory DEF Calls
<1>2. CASE UNCHANGED nodes /\
           \E o \in Fresh(outs), e \in Fresh(exits) :
              /\ outs' = Insert(outs, o, [kind |-> "vpngate", by |-> r])
              /\ exits' = Insert(exits, e, [out |-> o, by |-> r, running |-> FALSE,
                                            up |-> FALSE, left |-> None])
              /\ Hold(r, [loc[r] EXCEPT !.exit = e, !.out = o], None)
  <2>1. PICK o \in Fresh(outs), e \in Fresh(exits) :
              /\ outs' = Insert(outs, o, [kind |-> "vpngate", by |-> r])
              /\ exits' = Insert(exits, e, [out |-> o, by |-> r, running |-> FALSE,
                                            up |-> FALSE, left |-> None])
              /\ Hold(r, [loc[r] EXCEPT !.exit = e, !.out = o], None)
    BY <1>2
  <2>2. o \in Ids /\ e \in Ids /\ outs[o] = None /\ exits[e] = None
    BY ResidentialAssumption DEF Fresh, Used, Ids
  <2> DEFINE l == [loc[r] EXCEPT !.exit = e, !.out = o]
  <2> DEFINE out == [kind |-> "vpngate", by |-> r]
  <2> DEFINE exit == [out |-> o, by |-> r, running |-> FALSE, up |-> FALSE, left |-> None]
  <2>3. l \in Locals /\ l.exit = e /\ l.reused = loc[r].reused
    BY <1>0, <2>2 DEF Locals
  <2>4. out.kind = "vpngate" /\ exit.by = r /\ exit.left = None
    OBVIOUS
  <2>5. /\ \A i \in Ids : outs'[i] = IF i = o THEN out ELSE outs[i]
        /\ \A i \in Ids : exits'[i] = IF i = e THEN exit ELSE exits[i]
        /\ Hold(r, l, None)
    BY <1>0, <2>1, <2>2 DEF RowsOK, Insert
  <2> HIDE DEF l, out, exit
  <2>6. /\ Others(r) /\ role' = role /\ at' = at /\ spoiled' = spoiled
        /\ busy'[r] = TRUE /\ loc'[r] = l
        /\ \A q \in Requests \ {r} : Within(q, "ndel")' <=> Within(q, "ndel")
        /\ \A q \in Requests \ {r} : Within(q, "odel")' <=> Within(q, "odel")
        /\ \A q \in Requests \ {r} : saved'[q] = saved[q] /\ loc'[q] = loc[q]
    BY <1>0, <2>3, <2>5, HoldHistory DEF Calls
  <2>7. ASSUME NEW i \in Ids, exits[i] # None, i # e
        PROVE  /\ exits'[i] = exits[i]
               /\ InUse(exits[i].out) => InUse(exits[i].out)'
    BY <1>2, <2>5, <2>7 DEF InUse, Used
  <2>8. Respects(r)
    <3>1. \A x \in Ids : \/ outs'[x] = None \/ outs'[x] = outs[x]
                        \/ outs'[x].kind = "vpngate"
      BY <2>4, <2>5
    <3>2. ASSUME NEW x \in Ids, exits'[x] # None, ~(exits'[x].by = r /\ exits'[x].left \in {None, r})
          PROVE  /\ exits[x] # None /\ exits'[x].by = exits[x].by /\ exits'[x].out = exits[x].out
                 /\ exits'[x].left = exits[x].left /\ (InUse(exits[x].out) => InUse(exits[x].out)')
      BY <2>2, <2>4, <2>5, <2>7, <3>2
    <3>3. ~Within(r, "ndel")' /\ ~Within(r, "odel")' /\ spoiled \subseteq spoiled'
      BY <1>0, <2>6 DEF Within
    <3> QED
      BY <1>2, <2>6, <3>1, <3>2, <3>3 DEF Respects
  <2>9. Owns(r)'
    <3>1. SUFFICES ASSUME r \notin spoiled, role[r] = "job"
                   PROVE  Owns(r)'
      BY <1>0, <2>6 DEF Owns, ScriptOK, Scripts
    <3>2. \A i \in Ids : exits[i] # None => exits[i].by # r
      BY <1>0, <3>1 DEF Owns, Used, Within
    <3>3. \A i \in Ids : (exits'[i] # None /\ exits'[i].by = r) => i = e
      BY <2>5, <3>2
    <3>4. \A i \in Ids : nodes[i] # None => nodes[i].by # r
      BY <1>0, <3>1 DEF Owns, Used, Within
    <3>5. \A i \in Ids : (outs'[i] # None /\ outs'[i].kind = "manual") => outs'[i].by # r
      BY <1>0, <2>4, <2>5, <3>1 DEF Owns, Used, Within
    <3>6. \A q \in Requests : /\ (Within(q, "ndel") /\ saved[q].by = r) => q = r
                              /\ (Within(q, "odel") /\ saved[q].by = r) => q = r
      BY <1>0, <3>1 DEF Owns
    <3>7. /\ loc'[r].exit = e /\ ~loc'[r].reused /\ role'[r] = "job" /\ Within(r, "vnew")'
          /\ UNCHANGED nodes
      BY <1>0, <1>2, <2>3, <2>6, <3>1 DEF LocalsOK, Within
    <3>8. \A q \in Requests : /\ (Within(q, "ndel")' /\ saved'[q].by = r) => q = r
                              /\ (Within(q, "odel")' /\ saved'[q].by = r) => q = r
      BY <2>6, <3>6
    <3> QED
      BY <3>3, <3>4, <3>5, <3>7, <3>8 DEF Owns, Used
  <2>10. Leaves(r)'
    <3>1. \A i \in Ids : exits[i] # None => exits[i].left # r
      BY <1>0 DEF Leaves, Used, Within
    <3> QED
      BY <1>0, <2>4, <2>5, <3>1 DEF Leaves, Used
  <2> QED
    BY <1>t, <2>8, <2>9, <2>10, HistoryStep
<1> QED
  BY <1>1, <1>2 DEF CreateExit

LEMMA ConnectHistory ==
  ASSUME HistoryInv, NEW r \in Requests, Connect(r)
  PROVE  HistoryInv'
<1>0. /\ TablesInv /\ RowsOK /\ ScriptOK(r) /\ LocalsOK(r) /\ Held(r) /\ Owns(r) /\ Leaves(r)
      /\ at[r] = "vnew" /\ busy[r] /\ UNCHANGED <<outs, nodes>>
      /\ role[r] \in Scripts \cup {"single", "config"}
  BY HistoryFacts DEF Connect, Within
<1>t. TablesInv'
  BY <1>0, ConnectTables
<1>1. loc[r].exit \in Ids /\ exits[loc[r].exit] # None /\ loc[r].exit # 0
  BY <1>0, ResidentialAssumption DEF LocalsOK, Held, Within, Ids
<1>2. \A e \in Ids : /\ exits'[e] = None <=> exits[e] = None
                     /\ exits[e] # None =>
                         exits'[e].out = exits[e].out /\ exits'[e].by = exits[e].by
                            /\ exits'[e].left = exits[e].left
  <2>1. exits[loc[r].exit] \in ExitRows
    BY <1>0, <1>1 DEF RowsOK
  <2>2. CASE exits' = [exits EXCEPT ![loc[r].exit].running = TRUE, ![loc[r].exit].up = TRUE]
    <3>1. /\ exits'[loc[r].exit] \in ExitRows /\ exits'[loc[r].exit].out = exits[loc[r].exit].out
          /\ exits'[loc[r].exit].by = exits[loc[r].exit].by
          /\ exits'[loc[r].exit].left = exits[loc[r].exit].left
          /\ \A e \in Ids : e # loc[r].exit => exits'[e] = exits[e]
      BY <1>0, <1>1, <2>1, <2>2 DEF RowsOK, ExitRows
    <3> QED
      BY <1>1, <3>1, Distinct
  <2>3. CASE UNCHANGED exits
    BY <2>3
  <2> QED
    BY <2>2, <2>3 DEF Connect
<1>3. PICK how \in {"ok", "refused", "fault"}, l \in {loc[r], NoIds}, lost \in BOOLEAN :
        /\ Return(r, how, l, lost) /\ Returnable(r, how, l)
        /\ how = "fault" => lost
        /\ how # "fault" => l = loc[r]
  BY <1>0 DEF Connect, Returnable, Calls
<1>4. /\ Others(r) /\ role' = role /\ ~busy'[r]
      /\ Follows(r, at[r], how, l, at'[r])
      /\ at'[r] \notin {"done", "failed"} => loc'[r] = l
      /\ spoiled' = IF lost /\ role[r] \in {"job", "manual"} THEN spoiled \cup {r} ELSE spoiled
      /\ ~Within(r, "ndel")' /\ ~Within(r, "odel")'
      /\ \A q \in Requests \ {r} : Within(q, "ndel")' <=> Within(q, "ndel")
      /\ \A q \in Requests \ {r} : Within(q, "odel")' <=> Within(q, "odel")
      /\ \A q \in Requests \ {r} : saved'[q] = saved[q] /\ loc'[q] = loc[q]
  BY <1>3, ReturnHistory
<1>5. \A e \in Ids : exits[e] # None => (InUse(exits[e].out) => InUse(exits[e].out)')
  BY <1>0, <1>2 DEF InUse, Used
<1>6. Respects(r)
  BY <1>0, <1>2, <1>4, <1>5 DEF Respects
<1>7. Owns(r)'
  <2>1. SUFFICES ASSUME r \notin spoiled', at'[r] = "idle" \/ role[r] \in {"job", "manual"}
                 PROVE  Owns(r)'
    BY <1>4 DEF Owns
  <2>2. role[r] = "job" /\ r \notin spoiled /\ how # "fault"
    BY <1>0, <1>3, <1>4, <2>1 DEF Follows, ScriptOK, Scripts
  <2>3. at'[r] \in {"clone", "vdel"} /\ loc'[r] = loc[r]
    BY <1>0, <1>1, <1>3, <1>4, <2>2 DEF Follows
  <2>4. /\ \A i \in Ids : (exits'[i] # None /\ exits'[i].by = r) => i = loc[r].exit
        /\ ~loc[r].reused
    BY <1>0, <1>2, <2>2 DEF Owns, Used, LocalsOK
  <2>5. /\ \A i \in Ids : nodes[i] # None => nodes[i].by # r
        /\ \A i \in Ids : (outs[i] # None /\ outs[i].kind = "manual") => outs[i].by # r
        /\ \A q \in Requests : /\ (Within(q, "ndel") /\ saved[q].by = r) => q = r
                               /\ (Within(q, "odel") /\ saved[q].by = r) => q = r
    BY <1>0, <2>2 DEF Owns, Used, Within
  <2> QED
    BY <1>0, <1>4, <2>2, <2>3, <2>4, <2>5 DEF Owns, Used
<1>8. Leaves(r)'
  <2>1. \A i \in Ids : exits[i] # None => exits[i].left # r
    BY <1>0 DEF Leaves, Used, Within
  <2> QED
    BY <1>2, <2>1 DEF Leaves, Used
<1> QED
  BY <1>t, <1>6, <1>7, <1>8, HistoryStep

LEMMA DeleteExitHistory ==
  ASSUME HistoryInv, NEW r \in Requests, DeleteExit(r)
  PROVE  HistoryInv'
<1>0. /\ TablesInv /\ RowsOK /\ ScriptOK(r) /\ LocalsOK(r) /\ Owns(r) /\ Leaves(r) /\ loc[r] \in Locals
      /\ at[r] = "vdel" /\ ~busy[r]
  BY HistoryFacts DEF DeleteExit, Calling
<1>t. TablesInv'
  BY <1>0, DeleteExitTables
<1>1. CASE \/ exits[loc[r].exit] = None /\ Refused(r, vmu, "refused", FALSE)
           \/ Refused(r, vmu, "refused", TRUE)
           \/ MayFail /\ Refused(r, vmu, "fault", TRUE)
  BY <1>0, <1>1, <1>t, RefusedHistory DEF Calls
<1>2. CASE Hold(r, loc[r], None) /\ UNCHANGED tables
  <2>1. /\ Others(r) /\ role' = role /\ at' = at /\ spoiled' = spoiled
        /\ busy'[r] = TRUE /\ loc'[r] = loc[r]
        /\ \A q \in Requests \ {r} : Within(q, "ndel")' <=> Within(q, "ndel")
        /\ \A q \in Requests \ {r} : Within(q, "odel")' <=> Within(q, "odel")
        /\ \A q \in Requests \ {r} : saved'[q] = saved[q] /\ loc'[q] = loc[q]
    BY <1>0, <1>2, HoldHistory DEF Calls
  <2>2. ~Within(r, "ndel")' /\ ~Within(r, "odel")'
    BY <1>0, <2>1 DEF Within
  <2>3. Respects(r)
    BY <1>2, <2>1, <2>2, RespectsTables
  <2>4. Owns(r)' /\ Leaves(r)'
    BY <1>0, <1>2, <2>1, <2>2 DEF Owns, Leaves, Used, Within, Calling, tables
  <2> QED
    BY <1>t, <2>3, <2>4, HistoryStep
<1> QED
  BY <1>1, <1>2 DEF DeleteExit

LEMMA StopExitHistory ==
  ASSUME HistoryInv, NEW r \in Requests, StopExit(r)
  PROVE  HistoryInv'
<1>0. /\ TablesInv /\ RowsOK /\ ScriptOK(r) /\ LocalsOK(r) /\ Held(r) /\ Owns(r) /\ Leaves(r)
      /\ at[r] = "vdel" /\ busy[r] /\ UNCHANGED nodes
      /\ role[r] \in Scripts \cup {"single", "config"}
  BY HistoryFacts DEF StopExit, Within
<1>t. TablesInv'
  BY <1>0, StopExitTables
<1> DEFINE e == loc[r].exit
<1>1. e \in Ids /\ exits[e] # None /\ exits[e] \in ExitRows /\ exits[e].out \in Ids
  BY <1>0 DEF LocalsOK, Held, Within, RowsOK, ExitRows
<1>2. PICK how \in {"ok", "refused", "fault"}, lost \in BOOLEAN :
        /\ Return(r, how, loc[r], lost) /\ Returnable(r, how, loc[r])
        /\ how # "ok" => lost
        /\ \/ how = "ok" /\ outs' = Remove(outs, exits[e].out) /\ exits' = Remove(exits, e)
           \/ how # "ok" /\ UNCHANGED outs /\ exits' \in {exits, [exits EXCEPT ![e].up = FALSE]}
  BY <1>0 DEF StopExit, Returnable, Calls
<1>3. /\ Others(r) /\ role' = role /\ ~busy'[r]
      /\ Follows(r, at[r], how, loc[r], at'[r])
      /\ loc'[r].same = loc[r].same
      /\ spoiled' = IF lost /\ role[r] \in {"job", "manual"} THEN spoiled \cup {r} ELSE spoiled
      /\ ~Within(r, "ndel")' /\ ~Within(r, "odel")'
      /\ \A q \in Requests \ {r} : Within(q, "ndel")' <=> Within(q, "ndel")
      /\ \A q \in Requests \ {r} : Within(q, "odel")' <=> Within(q, "odel")
      /\ \A q \in Requests \ {r} : saved'[q] = saved[q] /\ loc'[q] = loc[q]
  BY <1>2, ReturnHistory
<1>4. /\ \A i \in Ids : outs'[i] = outs[i] \/ outs'[i] = None
      /\ \A i \in Ids :
           \/ exits'[i] = None
           \/ /\ exits[i] # None /\ exits'[i].out = exits[i].out /\ exits'[i].by = exits[i].by
              /\ exits'[i].left = exits[i].left
      /\ how = "ok" => exits'[e] = None
  <2>1. CASE how = "ok" /\ outs' = Remove(outs, exits[e].out) /\ exits' = Remove(exits, e)
    BY <1>0, <1>1, <2>1 DEF RowsOK, Remove
  <2>2. CASE UNCHANGED outs /\ how # "ok" /\ exits' = [exits EXCEPT ![e].up = FALSE]
    <3>1. /\ exits'[e].out = exits[e].out /\ exits'[e].by = exits[e].by
          /\ exits'[e].left = exits[e].left
          /\ \A i \in Ids : i # e => exits'[i] = exits[i]
      BY <1>0, <1>1, <2>2 DEF RowsOK, ExitRows
    <3> QED
      BY <1>1, <2>2, <3>1
  <2> QED
    BY <1>2, <2>1, <2>2
<1>5. \A i \in Ids : (exits[i] # None /\ exits'[i].out = exits[i].out) =>
                        (InUse(exits[i].out) => InUse(exits[i].out)')
  BY <1>0 DEF InUse, Used
<1>6. Respects(r)
  BY <1>0, <1>3, <1>4, <1>5 DEF Respects
<1>7. Owns(r)'
  <2>1. SUFFICES ASSUME r \notin spoiled', at'[r] = "idle" \/ role[r] \in {"job", "manual"}
                 PROVE  Owns(r)'
    BY <1>3 DEF Owns
  <2>2. role[r] = "job" /\ r \notin spoiled /\ how = "ok" /\ at'[r] = "failed"
    BY <1>0, <1>2, <1>3, <2>1 DEF Follows, ScriptOK, Scripts
  <2>3. \A i \in Ids : exits'[i] # None => exits'[i].by # r
    BY <1>0, <1>4, <2>2 DEF Owns, Used
  <2>4. /\ \A i \in Ids : nodes[i] # None => nodes[i].by # r
        /\ \A i \in Ids : (outs[i] # None /\ outs[i].kind = "manual") => outs[i].by # r
        /\ \A q \in Requests : /\ (Within(q, "ndel") /\ saved[q].by = r) => q = r
                               /\ (Within(q, "odel") /\ saved[q].by = r) => q = r
    BY <1>0, <2>2 DEF Owns, Used, Within
  <2> QED
    BY <1>0, <1>3, <1>4, <2>2, <2>3, <2>4 DEF Owns, Used
<1>8. Leaves(r)'
  <2>1. ASSUME NEW i \in Ids, exits[i] # None, exits[i].left = r
        PROVE  role[r] = "remove" /\ (loc[r].same => i = e)
    BY <1>0, <2>1 DEF Leaves, Used, Within, Calling
  <2>2. role[r] = "remove" => at'[r] = (IF how = "ok" THEN "done" ELSE "failed")
    BY <1>0, <1>3 DEF Follows
  <2> QED
    BY <1>3, <1>4, <2>1, <2>2 DEF Leaves, Used
<1> QED
  BY <1>t, <1>6, <1>7, <1>8, HistoryStep

LEMMA WatchHistory ==
  ASSUME HistoryInv, Watch
  PROVE  HistoryInv'
<1>0. TablesInv /\ RowsOK
  BY TypeParts DEF HistoryInv, TablesInv
<1>t. TablesInv'
  BY <1>0, WatchTables
<1>1. PICK e \in Used(exits), again \in BOOLEAN :
        exits' = [exits EXCEPT ![e].running = again, ![e].up = again]
  BY DEF Watch
<1>2. UNCHANGED <<outs, nodes, locks, role, at, busy, loc, saved, jobs, spoiled, faults>>
  BY DEF Watch
<1>3. exits[e] # None /\ exits[e] \in ExitRows /\ e \in Ids
  BY <1>0, <1>1 DEF Used, RowsOK
<1>4. /\ exits'[e] \in ExitRows /\ exits'[e].out = exits[e].out
      /\ exits'[e].by = exits[e].by /\ exits'[e].left = exits[e].left
      /\ \A f \in Ids : f # e => exits'[f] = exits[f]
  BY <1>0, <1>1, <1>3 DEF RowsOK, ExitRows
<1>5. \A f \in Ids : /\ exits'[f] = None <=> exits[f] = None
                     /\ exits[f] # None =>
                         exits'[f].out = exits[f].out /\ exits'[f].by = exits[f].by
                            /\ exits'[f].left = exits[f].left
  BY <1>3, <1>4, Distinct
<1>6. ASSUME NEW p \in Requests PROVE Owns(p)'
  <2>1. Owns(p)
    BY HistoryFacts
  <2> QED
    BY <1>2, <1>5, <2>1 DEF Owns, Used, Within
<1>7. ASSUME NEW p \in Requests PROVE Leaves(p)'
  <2>1. Leaves(p)
    BY HistoryFacts
  <2>2. \A f \in Ids : exits[f] # None => (InUse(exits[f].out) => InUse(exits[f].out)')
    BY <1>2, <1>5 DEF InUse, Used
  <2> QED
    BY <1>2, <1>5, <2>1, <2>2 DEF Leaves, Used, Within, Calling
<1> QED
  BY <1>t, <1>6, <1>7 DEF HistoryInv, OwnsAll, LeavesAll

\* While a call of the node service is under way, no other deletion is.
LEMMA Alone ==
  ASSUME HistoryInv, NEW r \in Requests, nmu \in {None, r}
  PROVE  \A q \in Requests \ {r} : ~Within(q, "ndel") /\ ~Within(q, "odel")
BY HistoryFacts DEF Locked, Within, NodeCalls

LEMMA CreateOutboundHistory ==
  ASSUME HistoryInv, NEW r \in Requests, CreateOutbound(r)
  PROVE  HistoryInv'
<1>0. /\ TablesInv /\ RowsOK /\ ScriptOK(r) /\ Owns(r) /\ Leaves(r) /\ loc[r] \in Locals
      /\ at[r] = "onew" /\ ~busy[r] /\ None \notin Requests /\ role[r] = "manual"
  BY HistoryFacts DEF CreateOutbound, Calling, ScriptOK, Scripts, Singles
<1>t. TablesInv'
  BY <1>0, CreateOutboundTables
<1>1. CASE Refused(r, nmu, "refused", FALSE)
  BY <1>0, <1>1, <1>t, RefusedHistory DEF Calls
<1>2. CASE NodeLock(r) /\ UNCHANGED <<exits, nodes>> /\
           \E o \in Fresh(outs) :
              /\ outs' = Insert(outs, o, [kind |-> "manual", by |-> r])
              /\ Hold(r, [loc[r] EXCEPT !.out = o, !.source = "manual"], None)
  <2>1. PICK o \in Fresh(outs) :
              /\ outs' = Insert(outs, o, [kind |-> "manual", by |-> r])
              /\ Hold(r, [loc[r] EXCEPT !.out = o, !.source = "manual"], None)
    BY <1>2
  <2>2. o \in Ids /\ nmu = None
    BY <1>2, ResidentialAssumption DEF Fresh, Used, Ids, NodeLock
  <2> DEFINE l == [loc[r] EXCEPT !.out = o, !.source = "manual"]
  <2> DEFINE out == [kind |-> "manual", by |-> r]
  <2>3. l \in Locals /\ l.out = o /\ out.by = r
    BY <1>0, <2>2 DEF Locals, Sources
  <2>4. Hold(r, l, None) /\ \A i \in Ids : outs'[i] = IF i = o THEN out ELSE outs[i]
    BY <1>0, <2>1, <2>2 DEF RowsOK, Insert
  <2> HIDE DEF l, out
  <2>5. /\ Others(r) /\ role' = role /\ at' = at /\ spoiled' = spoiled
        /\ busy'[r] = TRUE /\ loc'[r] = l
        /\ \A q \in Requests \ {r} : Within(q, "ndel")' <=> Within(q, "ndel")
        /\ \A q \in Requests \ {r} : Within(q, "odel")' <=> Within(q, "odel")
    BY <1>0, <2>3, <2>4, HoldHistory DEF Calls
  <2>6. \A i : InUse(i) <=> InUse(i)'
    BY <1>2 DEF InUse, Used
  <2>7. Respects(r)
    BY <1>0, <1>2, <2>3, <2>4, <2>5, <2>6 DEF Respects, Within
  <2>8. Owns(r)'
    <3>1. SUFFICES ASSUME r \notin spoiled
                   PROVE  Owns(r)'
      BY <2>5 DEF Owns
    <3>2. /\ \A i \in Ids : exits[i] # None => exits[i].by # r
          /\ \A i \in Ids : nodes[i] # None => nodes[i].by # r
          /\ \A i \in Ids : (outs[i] # None /\ outs[i].kind = "manual") => outs[i].by # r
      BY <1>0, <3>1 DEF Owns, Used, Within
    <3>3. \A i \in Ids : (outs'[i] # None /\ outs'[i].kind = "manual" /\ outs'[i].by = r) => i = o
      BY <2>4, <3>2
    <3>4. /\ loc'[r].out = o /\ role'[r] = "manual" /\ Within(r, "onew")'
          /\ \A q \in Requests \ {r} : ~Within(q, "ndel")' /\ ~Within(q, "odel")'
      BY <1>0, <2>2, <2>3, <2>5, Alone DEF Within
    <3> QED
      BY <1>2, <3>2, <3>3, <3>4 DEF Owns, Used
  <2>9. Leaves(r)'
    BY <1>0, <1>2 DEF Leaves, Used
  <2> QED
    BY <1>t, <2>7, <2>8, <2>9, HistoryStep
<1> QED
  BY <1>1, <1>2 DEF CreateOutbound

LEMMA ApplyOutboundHistory ==
  ASSUME HistoryInv, NEW r \in Requests, ApplyOutbound(r)
  PROVE  HistoryInv'
<1>0. /\ TablesInv /\ RowsOK /\ LocalsOK(r) /\ ScriptOK(r) /\ Owns(r) /\ Leaves(r)
      /\ at[r] = "onew" /\ busy[r] /\ nmu = r /\ UNCHANGED <<exits, nodes>>
      /\ role[r] = "manual" /\ loc[r].out \in Ids
  BY HistoryFacts DEF ApplyOutbound, NodeUnlock, Within, ScriptOK, LocalsOK, Scripts, Singles
<1>t. TablesInv'
  BY <1>0, ApplyOutboundTables
<1>1. PICK how \in {"ok", "fault"}, l \in {loc[r], NoIds}, lost \in BOOLEAN :
        /\ Return(r, how, l, lost) /\ Returnable(r, how, l)
        /\ \/ how = "ok" /\ l = loc[r] /\ UNCHANGED outs
           \/ how = "fault" /\ outs' = Remove(outs, loc[r].out)
           \/ how = "fault" /\ lost /\ UNCHANGED outs
  BY <1>0 DEF ApplyOutbound, Returnable, Calls
<1>2. /\ Others(r) /\ role' = role
      /\ Follows(r, at[r], how, l, at'[r])
      /\ at'[r] \notin {"done", "failed"} => loc'[r] = l
      /\ spoiled' = IF lost /\ role[r] \in {"job", "manual"} THEN spoiled \cup {r} ELSE spoiled
      /\ ~Within(r, "ndel")' /\ ~Within(r, "odel")'
      /\ \A q \in Requests \ {r} : Within(q, "ndel")' <=> Within(q, "ndel")
      /\ \A q \in Requests \ {r} : Within(q, "odel")' <=> Within(q, "odel")
  BY <1>1, ReturnHistory
<1>3. /\ \A i \in Ids : outs'[i] = outs[i] \/ outs'[i] = None
      /\ (how = "fault" /\ ~lost) => outs'[loc[r].out] = None
  BY <1>0, <1>1 DEF RowsOK, Remove
<1>4. \A i : InUse(i) <=> InUse(i)'
  BY <1>0 DEF InUse, Used
<1>5. Respects(r)
  BY <1>0, <1>2, <1>3, <1>4 DEF Respects
<1>6. Owns(r)'
  <2>1. SUFFICES ASSUME r \notin spoiled'
                 PROVE  Owns(r)'
    BY DEF Owns
  <2>2. r \notin spoiled /\ ~lost
    BY <1>0, <1>2, <2>1
  <2>3. /\ \A i \in Ids : exits[i] # None => exits[i].by # r
        /\ \A i \in Ids : nodes[i] # None => nodes[i].by # r
        /\ \A i \in Ids : (outs[i] # None /\ outs[i].kind = "manual" /\ outs[i].by = r)
                              => i = loc[r].out
    BY <1>0, <2>2 DEF Owns, Used, Within
  <2>4. /\ how = "ok" => at'[r] = "ocheck" /\ loc'[r] = loc[r]
        /\ how = "fault" => outs'[loc[r].out] = None
    BY <1>0, <1>1, <1>2, <1>3, <2>2 DEF Follows
  <2>5. \A q \in Requests : ~Within(q, "ndel")' /\ ~Within(q, "odel")'
    BY <1>0, <1>2, Alone
  <2> QED
    BY <1>0, <1>1, <1>2, <1>3, <2>3, <2>4, <2>5 DEF Owns, Used
<1>7. Leaves(r)'
  BY <1>0 DEF Leaves, Used
<1> QED
  BY <1>t, <1>5, <1>6, <1>7, HistoryStep

LEMMA DeleteOutboundHistory ==
  ASSUME HistoryInv, NEW r \in Requests, DeleteOutbound(r)
  PROVE  HistoryInv'
<1>0. /\ TablesInv /\ RowsOK /\ KindsAgree /\ LocalsOK(r) /\ ScriptOK(r) /\ Owns(r) /\ Leaves(r)
      /\ at[r] = "odel" /\ ~busy[r] /\ loc[r].out \in Ids /\ loc[r] \in Locals
      /\ role[r] \in {"manual", "remove", "single"}
  BY HistoryFacts DEF DeleteOutbound, Calling, LocalsOK, ScriptOK, Scripts
<1>t. TablesInv'
  BY <1>0, DeleteOutboundTables
<1>1. CASE \/ outs[loc[r].out] = None /\ Refused(r, nmu, "refused", FALSE)
           \/ Refused(r, nmu, "refused", TRUE)
           \/ MayFail /\ Refused(r, nmu, "fault", TRUE)
  <2>1. nmu = None
    BY <1>1 DEF Refused
  <2> QED
    BY <1>0, <1>1, <1>t, <2>1, RefusedHistory DEF Calls
<1>2. CASE /\ outs[loc[r].out] # None /\ outs[loc[r].out].kind = "manual"
           /\ NodeLock(r) /\ outs' = Remove(outs, loc[r].out)
           /\ Hold(r, loc[r], outs[loc[r].out]) /\ UNCHANGED <<exits, nodes>>
  <2>1. outs[loc[r].out] \in OutRows /\ nmu = None
    BY <1>0, <1>2 DEF RowsOK, NodeLock
  <2>2. /\ Others(r) /\ role' = role /\ at' = at /\ spoiled' = spoiled
        /\ busy'[r] = TRUE /\ loc'[r] = loc[r] /\ saved'[r] = outs[loc[r].out]
        /\ \A q \in Requests \ {r} : Within(q, "ndel")' <=> Within(q, "ndel")
        /\ \A q \in Requests \ {r} : Within(q, "odel")' <=> Within(q, "odel")
    BY <1>0, <1>2, <2>1, HoldHistory DEF Calls
  <2>3. \A i \in Ids : outs'[i] = outs[i] \/ outs'[i] = None
    BY <1>0, <1>2 DEF RowsOK, Remove
  <2>4. \A i : InUse(i) <=> InUse(i)'
    BY <1>2 DEF InUse, Used
  <2>5. Respects(r)
    BY <1>0, <1>2, <2>1, <2>2, <2>3, <2>4 DEF Respects, Within
  <2>6. Owns(r)'
    <3>1. SUFFICES ASSUME r \notin spoiled, role[r] = "manual"
                   PROVE  Owns(r)'
      BY <1>0, <2>2 DEF Owns
    <3>2. \A q \in Requests \ {r} : ~Within(q, "ndel")' /\ ~Within(q, "odel")'
      BY <2>1, <2>2, Alone
    <3>3. /\ \A i \in Ids : exits[i] # None => exits[i].by # r
          /\ \A i \in Ids : nodes[i] # None => nodes[i].by # r
          /\ \A i \in Ids : (outs[i] # None /\ outs[i].kind = "manual" /\ outs[i].by = r)
                                => i = loc[r].out
      BY <1>0, <3>1 DEF Owns, Used, Within
    <3> QED
      BY <1>0, <1>2, <2>2, <2>3, <3>1, <3>2, <3>3 DEF Owns, Used
  <2>7. Leaves(r)'
    <3>1. ASSUME NEW e \in Ids, exits[e] # None, exits[e].left = r
          PROVE  role[r] = "remove" /\ ~loc[r].same
      <4>1. /\ role[r] = "remove" /\ (loc[r].same => exits[e].out = loc[r].out)
        BY <1>0, <3>1 DEF Leaves, Used
      <4>2. outs[exits[e].out].kind = "vpngate"
        BY <1>0, <3>1 DEF KindsAgree, Used
      <4> QED
        BY <1>2, <4>1, <4>2
    <3> QED
      BY <1>0, <1>2, <2>2, <3>1 DEF Leaves, Used
  <2> QED
    BY <1>t, <2>5, <2>6, <2>7, HistoryStep
<1> QED
  BY <1>1, <1>2 DEF DeleteOutbound

LEMMA ApplyDeletionHistory ==
  ASSUME HistoryInv, NEW r \in Requests, ApplyDeletion(r)
  PROVE  HistoryInv'
<1>0. /\ TablesInv /\ RowsOK /\ LocalsOK(r) /\ ScriptOK(r) /\ Held(r) /\ Owns(r) /\ Leaves(r)
      /\ at[r] = "odel" /\ busy[r] /\ nmu = r /\ UNCHANGED <<exits, nodes>>
      /\ role[r] \in {"manual", "remove", "single"} /\ loc[r].out \in Ids
  BY HistoryFacts DEF ApplyDeletion, NodeUnlock, Within, ScriptOK, LocalsOK, Scripts
<1>t. TablesInv'
  BY <1>0, ApplyDeletionTables
<1>1. PICK how \in {"ok", "fault"}, lost \in BOOLEAN :
        /\ Return(r, how, loc[r], lost) /\ Returnable(r, how, loc[r])
        /\ \/ how = "ok" /\ UNCHANGED outs
           \/ /\ how = "fault" /\ lost
              /\ outs' \in {outs, IF outs[loc[r].out] = None
                                  THEN Insert(outs, loc[r].out, saved[r]) ELSE outs}
  BY <1>0 DEF ApplyDeletion, Returnable, Calls
<1>2. /\ Others(r) /\ role' = role /\ loc'[r].same = loc[r].same
      /\ Follows(r, at[r], how, loc[r], at'[r])
      /\ spoiled' = IF lost /\ role[r] \in {"job", "manual"} THEN spoiled \cup {r} ELSE spoiled
      /\ ~Within(r, "ndel")' /\ ~Within(r, "odel")'
      /\ \A q \in Requests \ {r} : Within(q, "ndel")' <=> Within(q, "ndel")
      /\ \A q \in Requests \ {r} : Within(q, "odel")' <=> Within(q, "odel")
  BY <1>1, ReturnHistory
<1>3. \A i \in Ids : outs'[i] = outs[i] \/ (i = loc[r].out /\ outs'[i] = saved[r])
  BY <1>0, <1>1 DEF RowsOK, Insert
<1>4. \A i : InUse(i) <=> InUse(i)'
  BY <1>0 DEF InUse, Used
<1>5. Respects(r)
  BY <1>0, <1>2, <1>3, <1>4 DEF Respects, Within
<1>6. Owns(r)'
  <2>1. SUFFICES ASSUME r \notin spoiled', role[r] = "manual"
                 PROVE  Owns(r)'
    <3>1. role[r] # "manual" => (role'[r] \notin {"job", "manual"} /\ at'[r] # "idle")
      BY <1>0, <1>2 DEF Follows
    <3> QED
      BY <3>1 DEF Owns
  <2>2. r \notin spoiled /\ UNCHANGED outs
    BY <1>0, <1>1, <1>2, <2>1
  <2>3. /\ \A i \in Ids : exits[i] # None => exits[i].by # r
        /\ \A i \in Ids : nodes[i] # None => nodes[i].by # r
        /\ \A i \in Ids : (outs[i] # None /\ outs[i].kind = "manual") => outs[i].by # r
    BY <1>0, <2>1, <2>2 DEF Owns, Used, Within, Held
  <2>4. \A q \in Requests : ~Within(q, "ndel")' /\ ~Within(q, "odel")'
    BY <1>0, <1>2, Alone
  <2> QED
    BY <1>0, <2>2, <2>3, <2>4 DEF Owns, Used
<1>7. Leaves(r)'
  <2>1. ASSUME NEW e \in Ids, exits[e] # None, exits[e].left = r
        PROVE  role[r] = "remove" /\ ~loc[r].same
    BY <1>0, <2>1 DEF Leaves, Used, Calling
  <2>2. role[r] = "remove" => at'[r] \in {"done", "failed"}
    BY <1>0, <1>2 DEF Follows
  <2> QED
    BY <1>0, <1>2, <2>1, <2>2 DEF Leaves, Used
<1> QED
  BY <1>t, <1>5, <1>6, <1>7, HistoryStep

LEMMA CheckOutboundHistory ==
  ASSUME HistoryInv, NEW r \in Requests, CheckOutbound(r)
  PROVE  HistoryInv'
<1>0. /\ TablesInv /\ RowsOK /\ LocalsOK(r) /\ ScriptOK(r) /\ Owns(r) /\ Leaves(r)
      /\ at[r] = "ocheck" /\ ~busy[r] /\ loc[r] \in Locals /\ loc[r].out \in Ids
      /\ role[r] \in {"manual", "single"}
  BY HistoryFacts DEF CheckOutbound, Calling, LocalsOK, ScriptOK, Scripts
<1>t. TablesInv'
  BY <1>0, CheckOutboundTables
<1>1. CASE Refused(r, nmu, "refused", FALSE)
  BY <1>0, <1>1, <1>t, RefusedHistory DEF Calls
<1>2. CASE /\ outs[loc[r].out] # None
           /\ Hold(r, loc[r], outs[loc[r].out]) /\ UNCHANGED tables
  <2>1. outs[loc[r].out] \in OutRows
    BY <1>0, <1>2 DEF RowsOK
  <2>2. /\ Others(r) /\ role' = role /\ at' = at /\ spoiled' = spoiled
        /\ busy'[r] = TRUE /\ loc'[r] = loc[r]
        /\ \A q \in Requests \ {r} : Within(q, "ndel")' <=> Within(q, "ndel")
        /\ \A q \in Requests \ {r} : Within(q, "odel")' <=> Within(q, "odel")
        /\ \A q \in Requests \ {r} : saved'[q] = saved[q] /\ loc'[q] = loc[q]
    BY <1>0, <1>2, <2>1, HoldHistory DEF Calls
  <2>3. ~Within(r, "ndel")' /\ ~Within(r, "odel")'
    BY <1>0, <2>2 DEF Within
  <2>4. Respects(r)
    BY <1>2, <2>2, <2>3, RespectsTables
  <2>5. Owns(r)'
    BY <1>0, <1>2, <2>2, <2>3 DEF Owns, Used, Within, tables
  <2>6. Leaves(r)'
    BY <1>0, <1>2 DEF Leaves, Used, tables
  <2> QED
    BY <1>t, <2>4, <2>5, <2>6, HistoryStep
<1> QED
  BY <1>1, <1>2 DEF CheckOutbound

LEMMA WriteCheckHistory ==
  ASSUME HistoryInv, NEW r \in Requests, WriteCheck(r)
  PROVE  HistoryInv'
<1>0. /\ TablesInv /\ RowsOK /\ LocalsOK(r) /\ ScriptOK(r) /\ Held(r) /\ Owns(r) /\ Leaves(r)
      /\ at[r] = "ocheck" /\ busy[r] /\ nmu = r /\ UNCHANGED <<exits, nodes>>
      /\ role[r] \in {"manual", "single"} /\ loc[r].out \in Ids
  BY HistoryFacts DEF WriteCheck, Within, ScriptOK, LocalsOK, Scripts, Locked, NodeCalls
<1>t. TablesInv'
  BY <1>0, WriteCheckTables
<1>1. PICK how \in {"ok", "refused", "fault"} :
        Return(r, how, loc[r], FALSE) /\ Returnable(r, how, loc[r])
  BY <1>0 DEF WriteCheck, Returnable, Calls
<1>2. /\ Others(r) /\ role' = role /\ spoiled' = spoiled
      /\ Follows(r, at[r], how, loc[r], at'[r])
      /\ at'[r] \notin {"done", "failed"} => loc'[r] = loc[r]
      /\ ~Within(r, "ndel")' /\ ~Within(r, "odel")'
      /\ \A q \in Requests \ {r} : Within(q, "ndel")' <=> Within(q, "ndel")
      /\ \A q \in Requests \ {r} : Within(q, "odel")' <=> Within(q, "odel")
  BY <1>1, ReturnHistory
<1>3. \A i \in Ids : outs'[i] = outs[i] \/ outs'[i].kind = "vpngate"
  <2>1. saved[r] \in OutRows /\ (saved[r].kind = "manual" => outs[loc[r].out] = saved[r])
    BY <1>0 DEF Held, Within
  <2>2. saved[r].kind = "vpngate" \/ outs[loc[r].out] = saved[r]
    BY <2>1 DEF OutRows, Sources
  <2>3. UNCHANGED outs \/ outs' = [outs EXCEPT ![loc[r].out] = saved[r]]
    BY DEF WriteCheck, Insert
  <2> QED
    BY <1>0, <2>2, <2>3 DEF RowsOK
<1>4. \A i : InUse(i) <=> InUse(i)'
  BY <1>0 DEF InUse, Used
<1>5. Respects(r)
  BY <1>0, <1>2, <1>3, <1>4 DEF Respects
<1>6. Owns(r)'
  <2>1. SUFFICES ASSUME r \notin spoiled, role[r] = "manual"
                 PROVE  Owns(r)'
    <3>1. role[r] = "single" => (role'[r] \notin {"job", "manual"} /\ at'[r] # "idle")
      BY <1>2 DEF Follows
    <3> QED
      BY <1>0, <1>2, <3>1 DEF Owns
  <2>2. at'[r] \in {"clone", "odel"} /\ loc'[r] = loc[r]
    BY <1>0, <1>2, <2>1 DEF Follows
  <2>3. /\ \A i \in Ids : exits[i] # None => exits[i].by # r
        /\ \A i \in Ids : nodes[i] # None => nodes[i].by # r
        /\ \A i \in Ids : (outs[i] # None /\ outs[i].kind = "manual" /\ outs[i].by = r)
                              => i = loc[r].out
    BY <1>0, <2>1 DEF Owns, Used, Within
  <2>4. \A i \in Ids : (outs'[i] # None /\ outs'[i].kind = "manual" /\ outs'[i].by = r)
                              => i = loc[r].out
    BY <1>3, <2>3
  <2>5. \A q \in Requests : ~Within(q, "ndel")' /\ ~Within(q, "odel")'
    BY <1>0, <1>2, Alone
  <2> QED
    BY <1>0, <1>2, <2>1, <2>2, <2>3, <2>4, <2>5 DEF Owns, Used
<1>7. Leaves(r)'
  BY <1>0 DEF Leaves, Used
<1> QED
  BY <1>t, <1>5, <1>6, <1>7, HistoryStep

LEMMA CloneHistory ==
  ASSUME HistoryInv, NEW r \in Requests, CloneTemporary(r)
  PROVE  HistoryInv'
<1>0. /\ TablesInv /\ RowsOK /\ LocalsOK(r) /\ ScriptOK(r) /\ Owns(r) /\ Leaves(r)
      /\ at[r] = "clone" /\ ~busy[r] /\ loc[r] \in Locals
      /\ role[r] \in {"job", "manual"}
  BY HistoryFacts DEF CloneTemporary, Calling, LocalsOK, ScriptOK, Scripts, Singles
<1>t. TablesInv'
  BY <1>0, CloneTables
<1>1. CASE Refused(r, nmu, "refused", FALSE)
  BY <1>0, <1>1, <1>t, RefusedHistory DEF Calls
<1>2. CASE NodeLock(r) /\ UNCHANGED <<outs, exits>> /\
           \E n \in Fresh(nodes) :
              /\ nodes' = Insert(nodes, n, [out |-> loc[r].out, source |-> loc[r].source, by |-> r])
              /\ Hold(r, [loc[r] EXCEPT !.node = n], None)
  <2>1. PICK n \in Fresh(nodes) :
              /\ nodes' = Insert(nodes, n, [out |-> loc[r].out, source |-> loc[r].source, by |-> r])
              /\ Hold(r, [loc[r] EXCEPT !.node = n], None)
    BY <1>2
  <2>2. n \in Ids /\ nmu = None /\ nodes[n] = None
    BY <1>2, ResidentialAssumption DEF Fresh, Used, Ids, NodeLock
  <2> DEFINE l == [loc[r] EXCEPT !.node = n]
  <2> DEFINE node == [out |-> loc[r].out, source |-> loc[r].source, by |-> r]
  <2>3. /\ l \in Locals /\ l.node = n /\ l.out = loc[r].out /\ l.exit = loc[r].exit
        /\ l.reused = loc[r].reused /\ node.by = r
    BY <1>0, <2>2 DEF Locals
  <2>4. /\ Hold(r, l, None)
        /\ \A i \in Ids : nodes'[i] = IF i = n THEN node ELSE nodes[i]
    BY <1>0, <2>1, <2>2 DEF RowsOK, Insert
  <2>5. node # None
    BY <1>0, <2>2, Distinct DEF NodeRows, Locals, LocalsOK, Owners
  <2> HIDE DEF l, node
  <2>6. /\ Others(r) /\ role' = role /\ at' = at /\ spoiled' = spoiled
        /\ busy'[r] = TRUE /\ loc'[r] = l
        /\ \A q \in Requests \ {r} : Within(q, "ndel")' <=> Within(q, "ndel")
        /\ \A q \in Requests \ {r} : Within(q, "odel")' <=> Within(q, "odel")
    BY <1>0, <2>3, <2>4, HoldHistory DEF Calls
  <2>7. \A i : InUse(i) => InUse(i)'
    BY <2>2, <2>4 DEF InUse, Used
  <2>8. Respects(r)
    BY <1>0, <1>2, <2>3, <2>4, <2>6, <2>7 DEF Respects, Within
  <2>9. Owns(r)'
    <3>1. SUFFICES ASSUME r \notin spoiled
                   PROVE  Owns(r)'
      BY <2>6 DEF Owns
    <3>2. /\ \A i \in Ids : (exits[i] # None /\ exits[i].by = r) =>
                                i = loc[r].exit /\ ~loc[r].reused /\ role[r] = "job"
          /\ \A i \in Ids : nodes[i] # None => nodes[i].by # r
          /\ \A i \in Ids : (outs[i] # None /\ outs[i].kind = "manual" /\ outs[i].by = r) =>
                                i = loc[r].out /\ role[r] = "manual"
      BY <1>0, <3>1 DEF Owns, Used, Within
    <3>3. \A i \in Ids : (nodes'[i] # None /\ nodes'[i].by = r) => i = n
      BY <2>4, <3>2
    <3>4. /\ loc'[r].node = n /\ loc'[r].exit = loc[r].exit /\ loc'[r].out = loc[r].out
          /\ loc'[r].reused = loc[r].reused /\ Within(r, "clone")' /\ at'[r] = "clone"
          /\ \A q \in Requests : ~Within(q, "ndel")' /\ ~Within(q, "odel")'
      BY <1>0, <2>2, <2>3, <2>6, Alone DEF Within
    <3> QED
      BY <1>2, <2>6, <3>2, <3>3, <3>4 DEF Owns, Used
  <2>10. Leaves(r)'
    BY <1>0, <1>2 DEF Leaves, Used
  <2> QED
    BY <1>t, <2>8, <2>9, <2>10, HistoryStep
<1> QED
  BY <1>1, <1>2 DEF CloneTemporary

LEMMA ApplyCloneHistory ==
  ASSUME HistoryInv, NEW r \in Requests, ApplyClone(r)
  PROVE  HistoryInv'
<1>0. /\ TablesInv /\ RowsOK /\ LocalsOK(r) /\ ScriptOK(r) /\ Held(r) /\ Owns(r) /\ Leaves(r)
      /\ at[r] = "clone" /\ busy[r] /\ nmu = r /\ UNCHANGED outs
      /\ role[r] \in {"job", "manual"} /\ loc[r].node \in Ids /\ r # None
  BY HistoryFacts DEF ApplyClone, NodeUnlock, Within, ScriptOK, LocalsOK, Scripts, Singles
<1>t. TablesInv'
  BY <1>0, ApplyCloneTables
<1>1. PICK how \in {"ok", "fault"}, lost \in BOOLEAN :
        /\ Return(r, how, loc[r], lost) /\ Returnable(r, how, loc[r])
        /\ \/ how = "ok" /\ UNCHANGED <<exits, nodes>>
           \/ /\ how = "fault" /\ nodes' = Remove(nodes, loc[r].node)
              /\ exits' = LeftBy(r, loc[r].out)
           \/ how = "fault" /\ lost /\ UNCHANGED <<exits, nodes>>
  BY <1>0 DEF ApplyClone, Returnable, Calls
<1>2. /\ Others(r) /\ role' = role
      /\ Follows(r, at[r], how, loc[r], at'[r])
      /\ at'[r] \notin {"done", "failed"} => loc'[r] = loc[r]
      /\ spoiled' = IF lost /\ role[r] \in {"job", "manual"} THEN spoiled \cup {r} ELSE spoiled
      /\ ~Within(r, "ndel")' /\ ~Within(r, "odel")'
      /\ \A q \in Requests \ {r} : Within(q, "ndel")' <=> Within(q, "ndel")
      /\ \A q \in Requests \ {r} : Within(q, "odel")' <=> Within(q, "odel")
  BY <1>1, ReturnHistory
<1>3. /\ \A i \in Ids : nodes'[i] = nodes[i] \/ (i = loc[r].node /\ nodes'[i] = None)
      /\ (how = "fault" /\ ~lost) => nodes'[loc[r].node] = None
  BY <1>0, <1>1 DEF RowsOK, Remove
<1>4. nodes[loc[r].node].out = loc[r].out
  BY <1>0 DEF Held, Within
<1>5. \A i : i # loc[r].out => (InUse(i) => InUse(i)')
  BY <1>3, <1>4 DEF InUse, Used
<1>6. \A i \in Ids :
        /\ exits'[i] = None <=> exits[i] = None
        /\ exits[i] # None =>
             /\ exits'[i].by = exits[i].by /\ exits'[i].out = exits[i].out
             /\ exits'[i].left = None
                 \/ (exits'[i].left = exits[i].left /\ (InUse(exits[i].out) => InUse(exits[i].out)'))
  <2>1. CASE exits' = LeftBy(r, loc[r].out)
    BY <1>0, <1>5, <2>1, LeftByFacts
  <2>2. CASE UNCHANGED <<exits, nodes>>
    BY <2>2 DEF InUse, Used
  <2> QED
    BY <1>1, <2>1, <2>2
<1>7. Respects(r)
  BY <1>0, <1>2, <1>3, <1>6 DEF Respects
<1>8. Owns(r)'
  <2>1. SUFFICES ASSUME r \notin spoiled'
                 PROVE  Owns(r)'
    BY DEF Owns
  <2>2. r \notin spoiled /\ ~lost
    BY <1>0, <1>2, <2>1
  <2>3. /\ \A i \in Ids : (exits[i] # None /\ exits[i].by = r) =>
                              i = loc[r].exit /\ ~loc[r].reused /\ role[r] = "job"
        /\ \A i \in Ids : (nodes[i] # None /\ nodes[i].by = r) => i = loc[r].node
        /\ \A i \in Ids : (outs[i] # None /\ outs[i].kind = "manual" /\ outs[i].by = r) =>
                              i = loc[r].out /\ role[r] = "manual"
    BY <1>0, <2>2 DEF Owns, Used, Within
  <2>4. /\ how = "ok" => at'[r] = "uri"
        /\ (how # "ok" /\ role[r] = "manual") => at'[r] = "odel"
        /\ (how # "ok" /\ role[r] = "job") => at'[r] = IF loc[r].reused THEN "failed" ELSE "vdel"
    BY <1>0, <1>2 DEF Follows
  <2>5. \A q \in Requests : ~Within(q, "ndel")' /\ ~Within(q, "odel")'
    BY <1>0, <1>2, Alone
  <2>6. \A i \in Ids : (nodes'[i] # None /\ nodes'[i].by = r) => (i = loc[r].node /\ how = "ok")
    BY <1>1, <1>3, <2>2, <2>3
  <2>7. \A i \in Ids : (exits'[i] # None /\ exits'[i].by = r) =>
                              i = loc[r].exit /\ ~loc[r].reused /\ role[r] = "job"
    BY <1>6, <2>3
  <2> QED
    BY <1>0, <1>2, <2>3, <2>4, <2>5, <2>6, <2>7 DEF Owns, Used
<1>9. Leaves(r)'
  <2>1. \A i \in Ids : exits[i] # None => exits[i].left # r
    BY <1>0 DEF Leaves, Used
  <2> QED
    BY <1>0, <1>6, <2>1 DEF Leaves, Used
<1> QED
  BY <1>t, <1>7, <1>8, <1>9, HistoryStep

LEMMA DeleteNodeHistory ==
  ASSUME HistoryInv, NEW r \in Requests, DeleteNode(r)
  PROVE  HistoryInv'
<1>0. /\ TablesInv /\ RowsOK /\ KindsAgree /\ LocalsOK(r) /\ ScriptOK(r) /\ Owns(r) /\ Leaves(r)
      /\ at[r] = "ndel" /\ ~busy[r] /\ loc[r] \in Locals /\ loc[r].node \in Ids /\ r # None
      /\ role[r] \in {"job", "manual", "remove", "single"}
  BY HistoryFacts DEF DeleteNode, Calling, LocalsOK, ScriptOK, Scripts
<1>t. TablesInv'
  BY <1>0, DeleteNodeTables
<1> DEFINE n == loc[r].node
<1> DEFINE l == [loc[r] EXCEPT !.same = role[r] = "remove" => StillRead(r)]
<1>1. CASE \/ nodes[n] = None /\ Refused(r, nmu, "refused", FALSE)
           \/ MayFail /\ Refused(r, nmu, "fault", TRUE)
  <2>1. nmu = None
    BY <1>1 DEF Refused
  <2> QED
    BY <1>0, <1>1, <1>t, <2>1, RefusedHistory DEF Calls
<1>2. CASE /\ nodes[n] # None /\ NodeLock(r) /\ nodes' = Remove(nodes, n)
           /\ exits' = LeftBy(r, nodes[n].out)
           /\ Hold(r, l, nodes[n]) /\ UNCHANGED outs
  <2>1. nodes[n] \in NodeRows /\ nmu = None
    BY <1>0, <1>2 DEF RowsOK, NodeLock
  <2>2. /\ l \in Locals /\ l.node = n /\ l.out = loc[r].out /\ l.exit = loc[r].exit
        /\ l.reused = loc[r].reused
        /\ (role[r] = "remove" /\ l.same) => StillRead(r)
    BY <1>0 DEF Locals
  <2> HIDE DEF l
  <2>3. /\ Others(r) /\ role' = role /\ at' = at /\ spoiled' = spoiled
        /\ busy'[r] = TRUE /\ loc'[r] = l /\ saved'[r] = nodes[n]
        /\ \A q \in Requests \ {r} : Within(q, "ndel")' <=> Within(q, "ndel")
        /\ \A q \in Requests \ {r} : Within(q, "odel")' <=> Within(q, "odel")
    <3>1. /\ Hold(r, l, nodes[n]) /\ l \in Locals /\ at[r] \in Calls
          /\ nodes[n] \in OutRows \cup NodeRows \cup {None}
      BY <1>0, <1>2, <2>1, <2>2 DEF Calls
    <3> HIDE DEF n
    <3> QED
      BY <3>1, HoldHistory
  <2>4. \A i \in Ids : nodes'[i] = IF i = n THEN None ELSE nodes[i]
    BY <1>0, <1>2 DEF RowsOK, Remove
  <2>5. \A i : i # nodes[n].out => (InUse(i) => InUse(i)')
    BY <2>4 DEF InUse, Used
  <2>6. \A i \in Ids :
          /\ exits'[i] = None <=> exits[i] = None
          /\ exits[i] # None =>
               /\ exits'[i].by = exits[i].by /\ exits'[i].out = exits[i].out
               /\ exits'[i].left = IF exits[i].out # nodes[n].out THEN exits[i].left
                                   ELSE IF role[r] = "remove" THEN r ELSE None
    BY <1>0, <1>2, LeftByFacts
  <2>7. Respects(r)
    <3>1. \A i \in Ids : nodes'[i] = None \/ nodes'[i] = nodes[i]
      BY <2>4
    <3>2. \A e \in Ids : exits'[e] # None =>
            /\ exits[e] # None /\ exits'[e].by = exits[e].by /\ exits'[e].out = exits[e].out
            /\ \/ exits'[e].left \in {None, r}
               \/ exits'[e].left = exits[e].left /\ (InUse(exits[e].out) => InUse(exits[e].out)')
      BY <2>5, <2>6
    <3>3. ~Within(r, "odel")' /\ spoiled \subseteq spoiled'
      BY <1>0, <2>3 DEF Within
    <3>4. /\ nmu = None /\ loc'[r].node \in Ids /\ nodes[loc'[r].node] # None
          /\ saved'[r] = nodes[loc'[r].node]
      BY <1>0, <1>2, <2>1, <2>2, <2>3
    <3> HIDE DEF n
    <3> QED
      BY <1>2, <2>3, <3>1, <3>2, <3>3, <3>4 DEF Respects
  <2>8. Owns(r)'
    <3>1. SUFFICES ASSUME r \notin spoiled, role[r] \in {"job", "manual"}
                   PROVE  Owns(r)'
      BY <1>0, <2>3 DEF Owns
    <3>2. /\ \A i \in Ids : (exits[i] # None /\ exits[i].by = r) =>
                                i = loc[r].exit /\ ~loc[r].reused /\ role[r] = "job"
          /\ \A i \in Ids : (nodes[i] # None /\ nodes[i].by = r) => i = n
          /\ \A i \in Ids : (outs[i] # None /\ outs[i].kind = "manual" /\ outs[i].by = r) =>
                                i = loc[r].out /\ role[r] = "manual"
      BY <1>0, <3>1 DEF Owns, Used, Within
    <3>3. \A q \in Requests \ {r} : ~Within(q, "ndel")' /\ ~Within(q, "odel")'
      BY <2>1, <2>3, Alone
    <3>4. \A i \in Ids : (exits'[i] # None /\ exits'[i].by = r) =>
                                i = loc[r].exit /\ ~loc[r].reused /\ role[r] = "job"
      BY <2>6, <3>2
    <3>5. \A i \in Ids : nodes'[i] # None => nodes'[i].by # r
      BY <2>4, <3>2
    <3> QED
      BY <1>0, <1>2, <2>2, <2>3, <3>2, <3>3, <3>4, <3>5 DEF Owns, Used
  <2>9. Leaves(r)'
    <3>1. \A i \in Ids : exits[i] # None => exits[i].left # r
      BY <1>0 DEF Leaves, Used, Within
    <3>2. ASSUME NEW i \in Ids, exits'[i] # None, exits'[i].left = r
          PROVE  /\ role[r] = "remove"
                 /\ l.same => (exits'[i].out = l.out /\ l.exit \in {0, i})
      <4>1. exits[i] # None /\ exits[i].out = nodes[n].out /\ role[r] = "remove"
        BY <1>0, <2>6, <3>1, <3>2
      <4>2. ASSUME l.same PROVE exits'[i].out = l.out /\ l.exit \in {0, i}
        <5>1. /\ nodes[n].out = l.out
              /\ l.exit # 0 => (exits[l.exit] # None /\ exits[l.exit].out = l.out)
          BY <2>2, <4>1, <4>2 DEF StillRead
        <5>2. l.exit # 0 => l.exit \in Ids
          BY <2>2 DEF Locals
        <5> QED
          BY <1>0, <2>6, <4>1, <5>1, <5>2 DEF KindsAgree, Used
      <4> QED
        BY <4>1, <4>2
    <3>3. Within(r, "ndel")' /\ at'[r] = "ndel" /\ loc'[r] = l
      BY <1>0, <2>3 DEF Within
    <3> QED
      BY <2>3, <3>2, <3>3 DEF Leaves, Used
  <2> QED
    BY <1>t, <2>7, <2>8, <2>9, HistoryStep
<1> QED
  BY <1>1, <1>2 DEF DeleteNode

LEMMA ApplyRemovalHistory ==
  ASSUME HistoryInv, NEW r \in Requests, ApplyRemoval(r)
  PROVE  HistoryInv'
<1>0. /\ TablesInv /\ RowsOK /\ LocalsOK(r) /\ ScriptOK(r) /\ Held(r) /\ Owns(r) /\ Leaves(r)
      /\ at[r] = "ndel" /\ busy[r] /\ nmu = r /\ UNCHANGED <<outs, exits>>
      /\ role[r] \in {"job", "manual", "remove", "single"} /\ loc[r].node \in Ids
      /\ nodes[loc[r].node] = None
  BY HistoryFacts DEF ApplyRemoval, NodeUnlock, Within, ScriptOK, LocalsOK, Held, Scripts
<1>t. TablesInv'
  BY <1>0, ApplyRemovalTables
<1>1. PICK how \in {"ok", "fault"}, lost \in BOOLEAN :
        /\ Return(r, how, loc[r], lost) /\ Returnable(r, how, loc[r])
        /\ \/ how = "ok" /\ UNCHANGED nodes
           \/ /\ how = "fault" /\ lost
              /\ nodes' \in {nodes, IF outs[saved[r].out] # None
                                    THEN Insert(nodes, loc[r].node, saved[r]) ELSE nodes}
  BY <1>0 DEF ApplyRemoval, Returnable, Calls
<1>2. /\ Others(r) /\ role' = role /\ loc'[r].same = loc[r].same
      /\ Follows(r, at[r], how, loc[r], at'[r])
      /\ at'[r] \notin {"done", "failed"} => loc'[r] = loc[r]
      /\ spoiled' = IF lost /\ role[r] \in {"job", "manual"} THEN spoiled \cup {r} ELSE spoiled
      /\ ~Within(r, "ndel")' /\ ~Within(r, "odel")'
      /\ \A q \in Requests \ {r} : Within(q, "ndel")' <=> Within(q, "ndel")
      /\ \A q \in Requests \ {r} : Within(q, "odel")' <=> Within(q, "odel")
  BY <1>1, ReturnHistory
<1>3. \A i \in Ids : nodes'[i] = nodes[i] \/ (i = loc[r].node /\ nodes'[i] = saved[r])
  BY <1>0, <1>1 DEF RowsOK, Insert
<1>4. \A i : InUse(i) => InUse(i)'
  <2>1. \A i \in Ids : nodes[i] # None => nodes'[i] = nodes[i]
    BY <1>0, <1>3
  <2> QED
    BY <2>1 DEF InUse, Used
<1>5. Respects(r)
  BY <1>0, <1>2, <1>3, <1>4 DEF Respects, Within
<1>6. Owns(r)'
  <2>1. SUFFICES ASSUME r \notin spoiled', role[r] \in {"job", "manual"}
                 PROVE  Owns(r)'
    <3>1. role[r] \notin {"job", "manual"} => (role'[r] \notin {"job", "manual"} /\ at'[r] # "idle")
      BY <1>0, <1>2 DEF Follows
    <3> QED
      BY <3>1 DEF Owns
  <2>2. r \notin spoiled /\ UNCHANGED nodes
    BY <1>1, <1>2, <2>1
  <2>3. /\ \A i \in Ids : (exits[i] # None /\ exits[i].by = r) =>
                              i = loc[r].exit /\ ~loc[r].reused /\ role[r] = "job"
        /\ \A i \in Ids : nodes[i] # None => nodes[i].by # r
        /\ \A i \in Ids : (outs[i] # None /\ outs[i].kind = "manual" /\ outs[i].by = r) =>
                              i = loc[r].out /\ role[r] = "manual"
    BY <1>0, <2>1, <2>2 DEF Owns, Used, Within
  <2>4. /\ role[r] = "manual" => at'[r] = "odel"
        /\ role[r] = "job" => at'[r] = IF loc[r].reused THEN "failed" ELSE "vdel"
    BY <1>0, <1>2 DEF Follows
  <2>5. \A q \in Requests : ~Within(q, "ndel")' /\ ~Within(q, "odel")'
    BY <1>0, <1>2, Alone
  <2> QED
    BY <1>0, <1>2, <2>1, <2>2, <2>3, <2>4, <2>5 DEF Owns, Used
<1>7. Leaves(r)'
  <2>1. ASSUME NEW e \in Ids, exits[e] # None, exits[e].left = r
        PROVE  /\ role[r] = "remove"
               /\ loc[r].same => (exits[e].out = loc[r].out /\ loc[r].exit \in {0, e})
    BY <1>0, <2>1 DEF Leaves, Used, Calling
  <2>2. role[r] = "remove" => at'[r] = IF how = "ok" THEN "list" ELSE "failed"
    BY <1>0, <1>1, <1>2 DEF Follows
  <2> QED
    BY <1>0, <1>2, <2>1, <2>2 DEF Leaves, Used
<1> QED
  BY <1>t, <1>5, <1>6, <1>7, HistoryStep

----------------------------------------------------------------------------

LEMMA HistoryNext ==
  ASSUME HistoryInv, [Next]_vars
  PROVE  HistoryInv'
<1>0. TablesInv /\ TablesInv'
  BY TablesStep DEF HistoryInv
<1>1. CASE Watch
  BY <1>1, WatchHistory
<1>2. ASSUME NEW r \in Requests, GateCall(r) PROVE HistoryInv'
  BY <1>2, CreateExitHistory, ConnectHistory, DeleteExitHistory, StopExitHistory DEF GateCall
<1>3. ASSUME NEW r \in Requests, NodeCall(r) PROVE HistoryInv'
  BY <1>3, CreateOutboundHistory, ApplyOutboundHistory, DeleteOutboundHistory,
     ApplyDeletionHistory, CheckOutboundHistory, WriteCheckHistory, CloneHistory,
     ApplyCloneHistory, DeleteNodeHistory, ApplyRemovalHistory DEF NodeCall
<1>4. ASSUME NEW r \in Requests, Own(r) PROVE HistoryInv'
  BY <1>4, OwnHistory
<1>5. CASE UNCHANGED vars
  <2>1. ASSUME NEW r \in Requests PROVE Owns(r)'
    <3>1. Owns(r)
      BY HistoryFacts
    <3> QED
      BY <1>5, <3>1 DEF vars, tables, Owns, Used, Within
  <2>2. ASSUME NEW r \in Requests PROVE Leaves(r)'
    <3>1. Leaves(r)
      BY HistoryFacts
    <3>2. \A i : InUse(i) <=> InUse(i)'
      BY <1>5 DEF vars, tables, InUse, Used
    <3> QED
      BY <1>5, <3>1, <3>2 DEF vars, tables, Leaves, Used, Within, Calling
  <2> QED
    BY <1>0, <2>1, <2>2 DEF HistoryInv, OwnsAll, LeavesAll
<1> QED
  BY <1>1, <1>2, <1>3, <1>4, <1>5 DEF Next, Request, Proceed, Own

LEMMA HistoryInit == Init => HistoryInv
<1> SUFFICES ASSUME Init PROVE HistoryInv
  OBVIOUS
<1>1. \A r \in Requests : r # Before /\ r # None
  BY ResidentialAssumption DEF Requests
<1>2. /\ \A i \in Ids : outs[i] # None => outs[i].by = Before
      /\ \A i \in Ids : nodes[i] # None => nodes[i].by = Before
      /\ \A i \in Ids : exits[i] # None => exits[i].by = Before /\ exits[i].left = None
  BY DEF Init, Table, Gate, Hand, Bound
<1>3. \A r \in Requests : ~Within(r, "ndel") /\ ~Within(r, "odel")
  BY DEF Init, Within
<1> QED
  BY <1>1, <1>2, <1>3, TablesInit DEF HistoryInv, OwnsAll, LeavesAll, Owns, Leaves, Used

LEMMA HistoryHolds == Spec => []HistoryInv
BY HistoryInit, HistoryNext, PTL DEF Spec

\* A job or a manual request that failed, of which no deletion failed or was
\* refused, leaves no node, exit or outbound of its own, whatever the other
\* requests did to the rows whose ids it held.
THEOREM LeavesNothingHolds == Spec => []LeavesNothing
<1>1. HistoryInv => LeavesNothing
  <2> SUFFICES ASSUME HistoryInv, NEW r \in Requests, at[r] = "failed",
                      role[r] \in {"job", "manual"}, r \notin spoiled
               PROVE  /\ \A n \in Used(nodes) : nodes[n].by # r
                      /\ \A e \in Used(exits) : exits[e].by # r
                      /\ \A o \in Used(outs) : outs[o].kind = "manual" => outs[o].by # r
    BY DEF LeavesNothing
  <2>1. Owns(r)
    BY HistoryFacts
  <2> QED
    BY <2>1 DEF Owns, Used, Within
<1> QED
  BY <1>1, HistoryHolds, PTL

\* Of the removals of an exit's nodes, however many overlap, the one that
\* deleted the last node does not report success with the exit still there.
THEOREM LastTurnsOffHolds == Spec => []LastTurnsOff
<1>1. HistoryInv => LastTurnsOff
  <2> SUFFICES ASSUME HistoryInv, NEW e \in Used(exits), NEW r \in Requests,
                      exits[e].left = r, role[r] = "remove", loc[r].same, at[r] = "done"
               PROVE  InUse(exits[e].out)
    BY DEF LastTurnsOff
  <2>1. Leaves(r)
    BY HistoryFacts
  <2> QED
    BY <2>1 DEF Leaves, Calling
<1> QED
  BY <1>1, HistoryHolds, PTL
=============================================================================
