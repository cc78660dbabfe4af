----------------------- MODULE NodeTransactionsProofs -----------------------
(***************************************************************************)
(* Proofs about NodeTransactions, for any number of nodes, contents and    *)
(* processes as far as the types go, and for the process of the server     *)
(* alone as far as the transactions go: a second process has a mutex of    *)
(* its own, and breaks them.                                               *)
(***************************************************************************)
EXTENDS NodeTransactions, TLAPS

\* An undo record, the locals of an idle process, the passes of a process.
Undos == [kind : Kinds, id : Ids, node : Nodes \cup {NoNode}, setting : Settings]
Passes == [{"watch", "boot"} -> SUBSET Ids]

\* The state of the mutex holders, typed.
JobOK ==
    /\ pc \in [Procs -> {"free", "read", "main", "units", "undo"}]
    /\ who \in [Procs -> {"api", "watch", "boot"}]
    /\ undo \in [Procs -> Undos]
    /\ phase \in [Procs -> {"do", "undo"}]
    /\ spoiled \in [Procs -> BOOLEAN]
    /\ snap \in [Procs -> Rows \X Settings]
    /\ left \in [Procs -> SUBSET Ids]
    /\ origin \in [Procs -> Rows \X Settings]
    /\ last \in {"none", "ok", "failed", "incomplete"}

PassOK ==
    /\ stage \in {"down", "expiring", "reconciling", "up"}
    /\ listed \in [Procs -> Passes]

StoreOK == rows \in Rows /\ setting \in Settings

MainConfigs == Settings \X [Ids -> Revs \cup {NoNode}]
UnitConfigs == (Revs \X Outbounds) \cup {NoNode}

DeployedOK ==
    /\ main \in UnitsWith(MainConfigs)
    /\ units \in [Ids -> UnitsWith(UnitConfigs)]
    /\ whole \in BOOLEAN

\* TypeOK is the conjunction of its parts.
LEMMA TypeParts == TypeOK <=> clock \in 0..MaxTime /\ StoreOK /\ DeployedOK /\ PassOK /\ JobOK
BY DEF TypeOK, StoreOK, DeployedOK, PassOK, JobOK, Undos, Passes, MainConfigs, UnitConfigs

\* ... after a step too.
LEMMA TypeAfter ==
  ASSUME clock' \in 0..MaxTime, StoreOK', DeployedOK', PassOK', JobOK'
  PROVE  TypeOK'
BY DEF TypeOK, StoreOK, DeployedOK, PassOK, JobOK, Undos, Passes, MainConfigs, UnitConfigs

\* The locals of an idle process are typed, whichever settings CHOOSE takes.
LEMMA BlankTyped == Blank \in Rows \X Settings /\ Nothing \in Undos
<1>1. PICK l \in Landings, o \in Outbounds : TRUE
  BY NodeAssumption
<1>2. [landing |-> l, outbounds |-> o] \in Settings
  BY <1>1 DEF Settings
<1>3. (CHOOSE s \in Settings : TRUE) \in Settings
  BY <1>2
<1>4. [i \in Ids |-> NoNode] \in Rows
  BY DEF Rows
<1>5. Blank \in Rows \X Settings /\ Blank[2] \in Settings
  BY <1>3, <1>4 DEF Blank
<1>6. 1 \in Ids
  BY NodeAssumption DEF Ids
<1> QED
  BY <1>5, <1>6 DEF Nothing, Undos, Kinds

\* What reconcile generates from typed rows and settings is typed.
LEMMA GeneratedTyped ==
  ASSUME NEW r \in Rows, NEW s \in Settings
  PROVE  /\ MainOf(r, s) \in MainConfigs
         /\ UnitsOf(r, s) \in [Ids -> UnitConfigs]
<1>1. s.outbounds \in Outbounds
  BY DEF Settings
<1>2. ASSUME NEW i \in Ids, r[i] # NoNode PROVE r[i].rev \in Revs
  BY <1>2 DEF Rows, Nodes
<1> QED
  BY <1>1, <1>2 DEF MainOf, UnitsOf, Served, MainConfigs, UnitConfigs

\* Whatever becomes of Apply, the unit holds and runs what it had or was given.
LEMMA ApplyTyped ==
  ASSUME NEW S, NEW u \in UnitsWith(S), NEW c \in S
  PROVE  \A v \in Succeeded(u, c) \cup Refused(u, c) \cup Torn(u, c) : v \in UnitsWith(S)
BY DEF UnitsWith, Succeeded, Refused, Torn, Loaded, Unit

LEMMA StopTyped ==
  ASSUME NEW u \in UnitsWith(UnitConfigs)
  PROVE  \A v \in Stopping(u) \cup {Loaded(NoNode)} : v \in UnitsWith(UnitConfigs)
BY DEF UnitsWith, UnitConfigs, Stopping, Loaded, Unit

----------------------------------------------------------------------------
(* Types.                                                                  *)

\* Taking the mutex with a typed undo record.
LEMMA BeginTyped ==
  ASSUME TypeOK, NEW p \in Procs, NEW w \in {"api", "watch", "boot"}, NEW u \in Undos,
         Begin(p, w, u)
  PROVE  JobOK' /\ DeployedOK' /\ clock' \in 0..MaxTime
<1>1. JobOK /\ DeployedOK /\ StoreOK /\ clock \in 0..MaxTime
  BY TypeParts
<1>2. <<rows, setting>> \in Rows \X Settings
  BY <1>1 DEF StoreOK
<1> QED
  BY <1>1, <1>2 DEF Begin, JobOK, DeployedOK, deployed

\* Releasing it, with any outcome.
LEMMA ReleaseTyped ==
  ASSUME TypeOK, NEW p \in Procs, Release(p), last' \in {"none", "ok", "failed", "incomplete"}
  PROVE  JobOK'
BY TypeParts, BlankTyped DEF Release, JobOK

LEMMA ExitTyped ==
  ASSUME TypeOK, Exit
  PROVE  JobOK' /\ PassOK'
<1>1. Server \in Procs
  BY NodeAssumption
<1>2. JobOK'
  BY <1>1, ReleaseTyped DEF Exit
<1>3. PassOK'
  BY <1>1, TypeParts DEF Exit, PassOK, Passes
<1> QED
  BY <1>2, <1>3

LEMMA FinishTyped ==
  ASSUME TypeOK, NEW p \in Procs, NEW outcome \in {"ok", "failed", "incomplete"},
         Finish(p, outcome)
  PROVE  JobOK' /\ PassOK'
<1>1. CASE who[p] = "boot" /\ outcome # "ok" /\ Exit
  BY <1>1, ExitTyped
<1>2. CASE /\ Release(p)
           /\ last' = outcome
           /\ listed' = IF who[p] = "api" THEN listed
                        ELSE [listed EXCEPT ![p][who[p]] =
                                IF outcome = "ok" THEN @ \ {undo[p].id} ELSE {}]
           /\ stage' = StageAfter(p)
  <2>1. JobOK'
    BY <1>2, ReleaseTyped
  <2>2. who[p] \in {"api", "watch", "boot"} /\ PassOK
    BY TypeParts DEF JobOK
  <2>3. PassOK'
    BY <1>2, <2>2 DEF PassOK, Passes, StageAfter
  <2> QED
    BY <2>1, <2>3
<1> QED
  BY <1>1, <1>2 DEF Finish

LEMMA FailTyped ==
  ASSUME TypeOK, NEW p \in Procs, Fail(p)
  PROVE  JobOK' /\ PassOK'
<1>1. CASE pc' = [pc EXCEPT ![p] = "undo"] /\ UNCHANGED <<passes, job, last>>
  BY <1>1, TypeParts DEF JobOK, PassOK, passes, job
<1>2. CASE Finish(p, "incomplete")
  BY <1>2, FinishTyped
<1>3. CASE Finish(p, "failed")
  BY <1>3, FinishTyped
<1> QED
  BY <1>1, <1>2, <1>3 DEF Fail

\* A step of an operation that goes on.
LEMMA GotoTyped ==
  ASSUME TypeOK, NEW p \in Procs, NEW step \in {"main", "units"}, Goto(p, step),
         snap' \in [Procs -> Rows \X Settings], left' \in [Procs -> SUBSET Ids]
  PROVE  JobOK' /\ PassOK'
BY TypeParts DEF Goto, JobOK, PassOK, passes

LEMMA ReconcileTyped ==
  ASSUME TypeOK, NEW p \in Procs, Reconcile(p)
  PROVE  TypeOK'
<1> USE DEF store, deployed
<1>0. /\ clock \in 0..MaxTime /\ StoreOK /\ DeployedOK /\ PassOK /\ JobOK
      /\ snap[p] \in Rows \X Settings /\ snap[p][1] \in Rows /\ snap[p][2] \in Settings
      /\ left[p] \in SUBSET Ids
      /\ <<rows, setting>> \in Rows \X Settings
  BY TypeParts DEF JobOK, StoreOK
<1>1. CASE ReadRows(p)
  <2>1. clock' \in 0..MaxTime /\ StoreOK' /\ DeployedOK'
    BY <1>0, <1>1 DEF ReadRows, StoreOK, DeployedOK
  <2>2. CASE /\ snap' = [snap EXCEPT ![p] = <<rows, setting>>]
             /\ left' = [left EXCEPT ![p] = {i \in Ids : Served(rows, i, TRUE)}]
             /\ Goto(p, "main")
    <3>1. snap' \in [Procs -> Rows \X Settings] /\ left' \in [Procs -> SUBSET Ids]
      BY <1>0, <2>2 DEF JobOK
    <3> QED
      BY <2>1, <2>2, <3>1, GotoTyped, TypeAfter
  <2>3. CASE Fail(p)
    BY <2>1, <2>3, FailTyped, TypeAfter
  <2> QED
    BY <1>1, <2>2, <2>3 DEF ReadRows
<1>2. CASE ApplyMain(p)
  <2>1. /\ clock' \in 0..MaxTime /\ StoreOK' /\ UNCHANGED units
        /\ main' \in Succeeded(main, MainIn(p)) \cup Refused(main, MainIn(p)) \cup Torn(main, MainIn(p))
        /\ whole' \in {whole, FALSE}
    BY <1>0, <1>2 DEF ApplyMain, StoreOK
  <2>2. DeployedOK'
    <3>1. MainIn(p) \in MainConfigs
      BY <1>0, GeneratedTyped DEF MainIn
    <3> QED
      BY <1>0, <2>1, <3>1, ApplyTyped DEF DeployedOK
  <2>3. CASE Goto(p, "units") /\ UNCHANGED <<snap, left>>
    BY <1>0, <2>1, <2>2, <2>3, GotoTyped, TypeAfter DEF JobOK
  <2>4. CASE Fail(p)
    BY <2>1, <2>2, <2>4, FailTyped, TypeAfter
  <2> QED
    BY <1>2, <2>3, <2>4 DEF ApplyMain
<1>3. CASE ApplyUnit(p)
  <2>1. PICK i \in First(left[p]) :
          /\ \E u \in Succeeded(units[i], UnitIn(p, i)) \cup Refused(units[i], UnitIn(p, i))
                        \cup Torn(units[i], UnitIn(p, i)) : units' = [units EXCEPT ![i] = u]
          /\ \/ /\ left' = [left EXCEPT ![p] = @ \ {i}]
                /\ Goto(p, "units")
                /\ UNCHANGED snap
             \/ Fail(p)
          /\ UNCHANGED <<clock, store, main>>
          /\ whole' \in {whole, FALSE}
    BY <1>3 DEF ApplyUnit
  <2>2. i \in Ids
    BY <1>0, <2>1 DEF First
  <2>3. UnitIn(p, i) \in UnitConfigs
    BY <1>0, <2>2, GeneratedTyped DEF UnitIn
  <2>4. clock' \in 0..MaxTime /\ StoreOK' /\ DeployedOK'
    <3>1. PICK u \in Succeeded(units[i], UnitIn(p, i)) \cup Refused(units[i], UnitIn(p, i))
                       \cup Torn(units[i], UnitIn(p, i)) : units' = [units EXCEPT ![i] = u]
      BY <2>1
    <3>2. units[i] \in UnitsWith(UnitConfigs)
      BY <1>0, <2>2 DEF DeployedOK
    <3>3. u \in UnitsWith(UnitConfigs)
      BY <2>3, <3>1, <3>2, ApplyTyped
    <3> QED
      BY <1>0, <2>1, <2>2, <3>1, <3>3 DEF StoreOK, DeployedOK
  <2>5. CASE left' = [left EXCEPT ![p] = @ \ {i}] /\ Goto(p, "units") /\ UNCHANGED snap
    <3>1. snap' \in [Procs -> Rows \X Settings] /\ left' \in [Procs -> SUBSET Ids]
      BY <1>0, <2>5 DEF JobOK
    <3> QED
      BY <2>4, <2>5, <3>1, GotoTyped, TypeAfter
  <2>6. CASE Fail(p)
    BY <2>4, <2>6, FailTyped, TypeAfter
  <2> QED
    BY <2>1, <2>5, <2>6
<1>4. CASE Prune(p)
  <2>1. PICK i \in Superfluous(p) :
          /\ \E u \in Stopping(units[i]) \cup {Loaded(NoNode)} : units' = [units EXCEPT ![i] = u]
          /\ (Goto(p, "units") /\ UNCHANGED <<snap, left>>) \/ Fail(p)
          /\ UNCHANGED <<clock, store, main, whole>>
    BY <1>4 DEF Prune
  <2>2. i \in Ids
    BY <2>1 DEF Superfluous
  <2>3. clock' \in 0..MaxTime /\ StoreOK' /\ DeployedOK'
    BY <1>0, <2>1, <2>2, StopTyped DEF StoreOK, DeployedOK
  <2>4. CASE Goto(p, "units") /\ UNCHANGED <<snap, left>>
    BY <1>0, <2>3, <2>4, GotoTyped, TypeAfter DEF JobOK
  <2>5. CASE Fail(p)
    BY <2>3, <2>5, FailTyped, TypeAfter
  <2> QED
    BY <2>1, <2>4, <2>5
<1>5. CASE Save(p)
  <2>1. clock' \in 0..MaxTime /\ StoreOK' /\ DeployedOK'
    BY <1>0, <1>5 DEF Save, StoreOK, DeployedOK
  <2>2. Ending(p) \in {"ok", "failed", "incomplete"}
    BY DEF Ending
  <2>3. JobOK' /\ PassOK'
    BY <1>5, <2>2, FinishTyped, FailTyped DEF Save
  <2> QED
    BY <2>1, <2>3, TypeAfter
<1> QED
  BY <1>1, <1>2, <1>3, <1>4, <1>5 DEF Reconcile

LEMMA CompensateTyped ==
  ASSUME TypeOK, NEW p \in Procs, Compensate(p)
  PROVE  TypeOK'
<1>0. /\ clock \in 0..MaxTime /\ StoreOK /\ DeployedOK /\ PassOK /\ JobOK
      /\ undo[p] \in Undos
  BY TypeParts DEF JobOK
<1>1. StoreOK'
  <2>1. undo[p].id \in Ids /\ undo[p].node \in Nodes \cup {NoNode} /\ undo[p].setting \in Settings
    BY <1>0 DEF Undos
  <2>2. TakenBack(undo[p]) \in Rows
    BY <1>0, <2>1 DEF TakenBack, StoreOK, Rows
  <2> QED
    BY <1>0, <2>1, <2>2 DEF Compensate, StoreOK, store
<1>2. JobOK'
  BY <1>0 DEF Compensate, JobOK
<1>3. clock' \in 0..MaxTime /\ DeployedOK' /\ PassOK'
  BY <1>0 DEF Compensate, DeployedOK, PassOK, deployed, passes
<1> QED
  BY <1>1, <1>2, <1>3, TypeAfter

\* The operations of the API: each takes the mutex and writes a row or a setting.
Operation ==
    \/ Create \/ Clone \/ CloneTemporary \/ Update \/ DeleteNode
    \/ ChangeClients \/ ChangeLanding \/ ChangeOutbounds

\* What a Begin with a write does: u is the undo record, and taking it back
\* gives the rows and settings that were there.
Opened(p, w, u) ==
    /\ Begin(p, w, u)
    /\ u \in Undos
    /\ StoreOK'
    /\ u.kind # "nothing"
    /\ rows = (IF u.kind = "settings" THEN rows' ELSE [rows' EXCEPT ![u.id] = u.node])
    /\ setting = (IF u.kind = "settings" THEN u.setting ELSE setting')

\* A write of one row, over the one that its undo record keeps.
LEMMA WriteOpens ==
  ASSUME TypeOK, NEW p \in Procs, NEW w \in {"api", "watch", "boot"},
         NEW kind \in {"created", "updated", "deleted"},
         NEW i \in Ids, NEW n \in Nodes \cup {NoNode},
         Begin(p, w, Undo(kind, i, rows[i])), SetRow(i, n)
  PROVE  Opened(p, w, Undo(kind, i, rows[i]))
<1>1. rows \in Rows /\ setting \in Settings /\ rows[i] \in Nodes \cup {NoNode}
  BY TypeParts DEF StoreOK, Rows
<1>2. Undo(kind, i, rows[i]) \in Undos
  BY <1>1 DEF Undo, Undos, Kinds
<1>3. rows' = [rows EXCEPT ![i] = n] /\ setting' = setting
  BY DEF SetRow
<1>4. StoreOK'
  BY <1>1, <1>3 DEF StoreOK, Rows
<1>5. rows = [rows' EXCEPT ![i] = rows[i]]
  BY <1>1, <1>3 DEF Rows
<1> QED
  BY <1>2, <1>3, <1>4, <1>5 DEF Opened, Undo

\* A change of the settings.
LEMMA SettingOpens ==
  ASSUME TypeOK, NEW p \in Procs, NEW w \in {"api", "watch", "boot"},
         Begin(p, w, Undo("settings", 1, NoNode)), setting' \in Settings, UNCHANGED rows
  PROVE  Opened(p, w, Undo("settings", 1, NoNode))
<1>1. rows \in Rows /\ setting \in Settings /\ 1 \in Ids
  BY TypeParts, NodeAssumption DEF StoreOK, Ids
<1>2. Undo("settings", 1, NoNode) \in Undos
  BY <1>1 DEF Undo, Undos, Kinds
<1> QED
  BY <1>1, <1>2 DEF Opened, Undo, StoreOK

LEMMA InsertOpens ==
  ASSUME TypeOK, NEW n \in Nodes, Insert(n)
  PROVE  (\E u \in Undos : Opened(Server, "api", u)) /\ UNCHANGED passes
<1>1. PICK i \in FreshIds : Begin(Server, "api", Undo("created", i, NoNode)) /\ SetRow(i, n)
  BY DEF Insert
<1>2. i \in Ids /\ rows[i] = NoNode
  BY <1>1, NodeAssumption DEF FreshIds, Used, Ids
<1>3. Opened(Server, "api", Undo("created", i, NoNode))
  BY <1>1, <1>2, WriteOpens, NodeAssumption
<1> QED
  BY <1>3 DEF Insert, Opened

\* Every operation writes in a way that its undo record takes back.
LEMMA OperationOpens ==
  ASSUME TypeOK, Operation
  PROVE  (\E u \in Undos : Opened(Server, "api", u)) /\ UNCHANGED passes
<1>0. /\ rows \in Rows /\ setting \in Settings /\ Server \in Procs
      /\ \A i \in Used : i \in Ids /\ rows[i] \in Nodes
  BY TypeParts, NodeAssumption DEF StoreOK, Used, Rows
<1>1. CASE Create
  BY <1>1, InsertOpens DEF Create
<1>2. CASE CloneTemporary
  BY <1>2, InsertOpens DEF CloneTemporary
<1>3. CASE Clone
  <2>1. PICK i \in Used : Insert([rows[i] EXCEPT !.on = FALSE])
    BY <1>3 DEF Clone
  <2>2. [rows[i] EXCEPT !.on = FALSE] \in Nodes
    BY <1>0 DEF Nodes
  <2> QED
    BY <2>1, <2>2, InsertOpens
<1>4. CASE Update
  <2>1. PICK i \in Used, on \in BOOLEAN, rev \in Revs, keep \in BOOLEAN :
          /\ Begin(Server, "api", Undo("updated", i, rows[i]))
          /\ SetRow(i, [res |-> keep /\ rows[i].res,
                        exp |-> IF keep THEN rows[i].exp ELSE Never,
                        on |-> on, rev |-> rev])
    BY <1>4 DEF Update
  <2>2. [res |-> keep /\ rows[i].res, exp |-> IF keep THEN rows[i].exp ELSE Never,
         on |-> on, rev |-> rev] \in Nodes
    BY <1>0, <2>1 DEF Nodes, Expiries
  <2>3. Opened(Server, "api", Undo("updated", i, rows[i]))
    BY <1>0, <2>1, <2>2, WriteOpens
  <2> QED
    BY <1>4, <2>3 DEF Opened, Update
<1>5. CASE ChangeClients
  <2>1. PICK i \in Used, rev \in Revs :
          /\ Begin(Server, "api", Undo("updated", i, rows[i]))
          /\ SetRow(i, [rows[i] EXCEPT !.rev = rev])
    BY <1>5 DEF ChangeClients
  <2>2. [rows[i] EXCEPT !.rev = rev] \in Nodes
    BY <1>0, <2>1 DEF Nodes
  <2>3. Opened(Server, "api", Undo("updated", i, rows[i]))
    BY <1>0, <2>1, <2>2, WriteOpens
  <2> QED
    BY <1>5, <2>3 DEF Opened, ChangeClients
<1>6. CASE DeleteNode
  <2>1. PICK i \in Used : Delete(Server, "api", i)
    BY <1>6 DEF DeleteNode
  <2>2. Opened(Server, "api", Undo("deleted", i, rows[i]))
    BY <1>0, <2>1, WriteOpens DEF Delete
  <2> QED
    BY <1>6, <2>2 DEF Opened, DeleteNode
<1>7. CASE ChangeLanding
  <2>1. setting' \in Settings /\ UNCHANGED <<rows, passes>>
    BY <1>0, <1>7 DEF ChangeLanding, Settings
  <2>2. Opened(Server, "api", Undo("settings", 1, NoNode))
    BY <1>0, <1>7, <2>1, SettingOpens DEF ChangeLanding
  <2> QED
    BY <2>1, <2>2 DEF Opened
<1>8. CASE ChangeOutbounds
  <2>1. setting' \in Settings /\ UNCHANGED <<rows, passes>>
    BY <1>0, <1>8 DEF ChangeOutbounds, Settings
  <2>2. Opened(Server, "api", Undo("settings", 1, NoNode))
    BY <1>0, <1>8, <2>1, SettingOpens DEF ChangeOutbounds
  <2> QED
    BY <2>1, <2>2 DEF Opened
<1> QED
  BY <1>1, <1>2, <1>3, <1>4, <1>5, <1>6, <1>7, <1>8 DEF Operation

\* So does the deletion of an expired node; if it is gone already the pass
\* ends, and the process with it when the pass was the start-up's.
LEMMA ExpireOpens ==
  ASSUME TypeOK, NEW p \in Procs, NEW w \in {"watch", "boot"}, Expire(p, w)
  PROVE  \/ (\E u \in Undos : Opened(p, w, u)) /\ UNCHANGED passes
         \/ p = Server /\ Exit /\ UNCHANGED <<clock, store, deployed>>
         \/ /\ listed' = [listed EXCEPT ![p][w] = {}]
            /\ UNCHANGED <<clock, store, deployed, stage, job, pc, last>>
<1>1. PICK i \in First(listed[p][w]) :
        \/ Delete(p, w, i) /\ UNCHANGED passes
        \/ /\ IF w = "boot" THEN Exit
              ELSE /\ listed' = [listed EXCEPT ![p][w] = {}]
                   /\ UNCHANGED <<stage, job, pc, last>>
           /\ UNCHANGED <<clock, store, deployed>>
  BY DEF Expire
<1>2. listed[p][w] \in SUBSET Ids
  BY TypeParts DEF PassOK, Passes
<1>3. i \in Ids
  BY <1>1, <1>2 DEF First
<1>4. CASE Delete(p, w, i) /\ UNCHANGED passes
  <2>1. Opened(p, w, Undo("deleted", i, rows[i]))
    BY <1>3, <1>4, WriteOpens DEF Delete
  <2> QED
    BY <1>4, <2>1 DEF Opened
<1> QED
  BY <1>1, <1>4 DEF Expire

LEMMA OpenedTyped ==
  ASSUME TypeOK, NEW p \in Procs, NEW w \in {"api", "watch", "boot"}, NEW u \in Undos,
         Opened(p, w, u), UNCHANGED passes
  PROVE  TypeOK'
<1>1. JobOK' /\ DeployedOK' /\ clock' \in 0..MaxTime /\ StoreOK'
  BY BeginTyped DEF Opened
<1>2. PassOK'
  BY TypeParts DEF PassOK, passes
<1> QED
  BY <1>1, <1>2, TypeAfter

\* A kill leaves a typed deployment, whatever it cut.
LEMMA CutTyped ==
  ASSUME TypeOK, NEW p \in Procs, CutShort(p)
  PROVE  DeployedOK'
<1>0. /\ DeployedOK /\ snap[p][1] \in Rows /\ snap[p][2] \in Settings
      /\ left[p] \in SUBSET Ids
  BY TypeParts DEF JobOK
<1>1. CASE UNCHANGED deployed
  BY <1>0, <1>1 DEF deployed, DeployedOK
<1>2. CASE main' \in Torn(main, MainIn(p)) /\ whole' = FALSE /\ UNCHANGED units
  <2>1. MainIn(p) \in MainConfigs
    BY <1>0, GeneratedTyped DEF MainIn
  <2> QED
    BY <1>0, <1>2, <2>1, ApplyTyped DEF DeployedOK
<1>3. CASE /\ \E i \in First(left[p]) : \E u \in Torn(units[i], UnitIn(p, i)) :
                 units' = [units EXCEPT ![i] = u]
           /\ whole' = FALSE /\ UNCHANGED main
  <2>1. PICK i \in First(left[p]) : \E u \in Torn(units[i], UnitIn(p, i)) :
          units' = [units EXCEPT ![i] = u]
    BY <1>3
  <2>2. i \in Ids
    BY <1>0, <2>1 DEF First
  <2>3. UnitIn(p, i) \in UnitConfigs
    BY <1>0, <2>2, GeneratedTyped DEF UnitIn
  <2>4. PICK u \in Torn(units[i], UnitIn(p, i)) : units' = [units EXCEPT ![i] = u]
    BY <2>1
  <2>5. units[i] \in UnitsWith(UnitConfigs)
    BY <1>0, <2>2 DEF DeployedOK
  <2>6. u \in UnitsWith(UnitConfigs)
    BY <2>3, <2>4, <2>5, ApplyTyped
  <2> QED
    BY <1>0, <1>3, <2>2, <2>4, <2>6 DEF DeployedOK
<1>4. CASE /\ \E i \in Superfluous(p) : \E u \in Stopping(units[i]) :
                 units' = [units EXCEPT ![i] = u]
           /\ UNCHANGED <<main, whole>>
  <2>1. PICK i \in Superfluous(p) : \E u \in Stopping(units[i]) :
          units' = [units EXCEPT ![i] = u]
    BY <1>4
  <2>2. i \in Ids
    BY <2>1 DEF Superfluous
  <2> QED
    BY <1>0, <1>4, <2>1, <2>2, StopTyped DEF DeployedOK
<1> QED
  BY <1>1, <1>2, <1>3, <1>4 DEF CutShort

LEMMA RelaunchTyped ==
  ASSUME TypeOK, Relaunch
  PROVE  DeployedOK'
BY TypeParts DEF Relaunch, DeployedOK, UnitsWith, Loaded, Unit

LEMMA StopUnitsTyped ==
  ASSUME TypeOK, StopUnits
  PROVE  DeployedOK'
BY TypeParts DEF StopUnits, DeployedOK, UnitsWith, UnitConfigs, Unit

LEMMA TypeStep ==
  ASSUME TypeOK, [Next]_vars
  PROVE  TypeOK'
<1> USE DEF store, deployed, passes, job
<1>0. /\ clock \in 0..MaxTime /\ StoreOK /\ DeployedOK /\ PassOK /\ JobOK
      /\ Server \in Procs /\ DueNodes \in SUBSET Ids
  BY TypeParts, NodeAssumption DEF DueNodes
<1>1. CASE Operation
  BY <1>0, <1>1, OperationOpens, OpenedTyped
<1>2. ASSUME NEW p \in Procs, Reconcile(p) PROVE TypeOK'
  BY <1>2, ReconcileTyped
<1>3. ASSUME NEW p \in Procs, Compensate(p) PROVE TypeOK'
  BY <1>3, CompensateTyped
<1>4. ASSUME NEW p \in Procs, Tick(p) PROVE TypeOK'
  <2>1. PassOK'
    BY <1>0, <1>4 DEF Tick, PassOK, Passes
  <2> QED
    BY <1>0, <1>4, <2>1, TypeAfter DEF Tick, StoreOK, DeployedOK, JobOK
<1>5. ASSUME NEW p \in Procs, NEW w \in {"watch", "boot"}, Expire(p, w) PROVE TypeOK'
  <2>1. CASE (\E u \in Undos : Opened(p, w, u)) /\ UNCHANGED passes
    BY <2>1, OpenedTyped
  <2>2. CASE Exit /\ UNCHANGED <<clock, store, deployed>>
    BY <1>0, <2>2, ExitTyped, TypeAfter DEF StoreOK, DeployedOK
  <2>3. CASE /\ listed' = [listed EXCEPT ![p][w] = {}]
             /\ UNCHANGED <<clock, store, deployed, stage, job, pc, last>>
    <3>1. PassOK'
      BY <1>0, <2>3 DEF PassOK, Passes
    <3> QED
      BY <1>0, <2>3, <3>1, TypeAfter DEF StoreOK, DeployedOK, JobOK
  <2> QED
    BY <1>5, <2>1, <2>2, <2>3, ExpireOpens
<1>6. CASE Start
  <2>1. PassOK'
    BY <1>0, <1>6 DEF Start, PassOK, Passes
  <2> QED
    BY <1>0, <1>6, <2>1, TypeAfter DEF Start, StoreOK, DeployedOK, JobOK
<1>7. CASE StartReconcile
  <2>1. JobOK' /\ DeployedOK' /\ clock' \in 0..MaxTime
    BY <1>0, <1>7, BeginTyped, BlankTyped DEF StartReconcile
  <2>2. StoreOK' /\ PassOK'
    BY <1>0, <1>7 DEF StartReconcile, StoreOK, PassOK
  <2> QED
    BY <2>1, <2>2, TypeAfter
<1>8. CASE Crash
  BY <1>0, <1>8, ExitTyped, CutTyped, TypeAfter DEF Crash, StoreOK
<1>9. CASE Elapse
  <2>1. clock' \in 0..MaxTime
    BY <1>0, <1>9, NodeAssumption DEF Elapse
  <2> QED
    BY <1>0, <1>9, <2>1, TypeAfter DEF Elapse, StoreOK, DeployedOK, PassOK, JobOK
<1>10. CASE UNCHANGED vars
  BY <1>0, <1>10, TypeAfter DEF vars, StoreOK, DeployedOK, PassOK, JobOK
<1>11. CASE Relaunch
  <2>1. clock' \in 0..MaxTime /\ StoreOK' /\ PassOK' /\ JobOK'
    BY <1>0, <1>11 DEF Relaunch, StoreOK, PassOK, JobOK
  <2> QED
    BY <1>11, <2>1, RelaunchTyped, TypeAfter
<1>12. CASE StopUnits
  <2>1. clock' \in 0..MaxTime /\ StoreOK' /\ PassOK' /\ JobOK'
    BY <1>0, <1>12 DEF StopUnits, StoreOK, PassOK, JobOK
  <2> QED
    BY <1>12, <2>1, StopUnitsTyped, TypeAfter
<1> QED
  BY <1>1, <1>2, <1>3, <1>4, <1>5, <1>6, <1>7, <1>8, <1>9, <1>10, <1>11, <1>12 DEF Next, Operation

LEMMA TypeInit == Init => TypeOK
<1> SUFFICES ASSUME Init PROVE TypeOK
  OBVIOUS
<1>1. rows \in Rows /\ setting \in Settings
  BY DEF Init, Rows, WellFormed
<1>2. DeployedOK
  BY <1>1, GeneratedTyped DEF Init, DeployedOK, UnitsWith, UnitConfigs, Loaded, Unit
<1>3. PassOK /\ JobOK
  BY BlankTyped DEF Init, PassOK, Passes, JobOK
<1>4. clock \in 0..MaxTime
  BY NodeAssumption DEF Init
<1> QED
  BY <1>1, <1>2, <1>3, <1>4, TypeParts DEF StoreOK

\* Every process keeps to the types, whatever fails, crashes and interleaves.
THEOREM TypeHolds == Spec => []TypeOK
BY TypeInit, TypeStep, PTL DEF Spec

----------------------------------------------------------------------------
(* Transactions of a single process.                                       *)

\* What the undo record of p gives back.
Reversed(p) ==
    <<TakenBack(undo[p]), IF undo[p].kind = "settings" THEN undo[p].setting ELSE setting>>

\* A write can be taken back until it has been, and then the rows are those
\* that the operation found, unless taking it back has failed.
Reversible(p) ==
    /\ (pc[p] # "free" /\ undo[p].kind = "nothing") => (who[p] = "boot" /\ phase[p] = "do")
    /\ pc[p] = "undo" => (phase[p] = "do" /\ undo[p].kind # "nothing")
    /\ (pc[p] # "free" /\ undo[p].kind # "nothing" /\ phase[p] = "do") => origin[p] = Reversed(p)
    /\ (pc[p] # "free" /\ phase[p] = "undo" /\ ~spoiled[p]) => origin[p] = <<rows, setting>>

\* The residential unit of node i is up on the file that the rows say.
Up(i) == units[i].file = UnitsOf(rows, setting)[i] /\ units[i].run # NoNode

\* reconcile works from the rows as they still are; what it has applied so far
\* is in place, and what it has not is in left.
Applied(p) ==
    /\ pc[p] \in {"main", "units"} => snap[p] = <<rows, setting>>
    /\ pc[p] = "main" => left[p] = {i \in Ids : Served(rows, i, TRUE)}
    /\ pc[p] = "units" =>
        /\ main.file = MainOf(rows, setting)
        /\ \A i \in Ids \ left[p] : Served(rows, i, TRUE) => Up(i)

\* The part of Settled that kills and failed rollbacks leave standing.
Placed == (Quiet /\ last \in {"ok", "failed"}) => InPlace

\* The inductive invariant.
TransactionInv == TypeOK /\ Reversible(Server) /\ Applied(Server) /\ Placed

\* Without another process the server's mutex guards the rows.
Alone == Procs = {Server}

LEMMA AloneQuiet ==
  ASSUME Alone
  PROVE  (Quiet <=> pc[Server] = "free") /\ (Quiet' <=> pc'[Server] = "free")
BY DEF Alone, Quiet

\* While the mutex is held nothing is claimed of what is in force.
LEMMA HeldSettles ==
  ASSUME Alone, pc'[Server] # "free"
  PROVE  Placed'
BY AloneQuiet DEF Placed

\* Nothing of the invariant speaks of clock, stage or listed.
LEMMA TransactionFrame ==
  ASSUME TransactionInv, UNCHANGED <<store, deployed, job, pc, last>>, TypeOK'
  PROVE  TransactionInv'
<1> USE DEF store, deployed, job
<1>1. Reversible(Server)' /\ Applied(Server)'
  BY DEF TransactionInv, Reversible, Reversed, TakenBack, Applied, Up, MainOf, UnitsOf, Served
<1>2. Placed'
  BY DEF TransactionInv, Placed, InPlace, Quiet, MainOf, UnitsOf, Served
<1> QED
  BY <1>1, <1>2 DEF TransactionInv

\* A process that ends leaves nothing in progress and reports nothing.
LEMMA ExitTransaction ==
  ASSUME TransactionInv, Exit
  PROVE  Reversible(Server)' /\ Applied(Server)' /\ Placed' /\ pc'[Server] = "free" /\ last' = "none"
<1>1. pc'[Server] = "free" /\ last' = "none"
  BY TypeParts, NodeAssumption DEF TransactionInv, Exit, Release, JobOK
<1> QED
  BY <1>1 DEF Reversible, Applied, Placed

\* What follows when an operation ends with rows and deployment as they stand.
LEMMA FinishTransaction ==
  ASSUME Alone, TransactionInv, NEW outcome \in {"ok", "failed", "incomplete"},
         Finish(Server, outcome),
         outcome \in {"ok", "failed"} =>
            (who[Server] = "boot" /\ outcome = "failed")
            \/ InPlace'
  PROVE  Reversible(Server)' /\ Applied(Server)' /\ Placed'
<1>1. CASE who[Server] = "boot" /\ outcome # "ok" /\ Exit
  BY <1>1, ExitTransaction
<1>2. CASE ~(who[Server] = "boot" /\ outcome # "ok") /\ Release(Server) /\ last' = outcome
  <2>1. pc'[Server] = "free"
    BY <1>2, TypeParts, NodeAssumption DEF TransactionInv, Release, JobOK
  <2> QED
    BY <1>2, <2>1 DEF Reversible, Applied, Placed
<1> QED
  BY <1>1, <1>2 DEF Finish

\* An error of reconcile, whatever it had applied: the write is still there to
\* be taken back, or the operation ends as incomplete, or the process ends.
LEMMA FailTransaction ==
  ASSUME Alone, TransactionInv, Fail(Server), pc[Server] # "free", UNCHANGED store
  PROVE  Reversible(Server)' /\ Applied(Server)' /\ Placed'
<1>1. CASE /\ phase[Server] = "do" /\ undo[Server].kind # "nothing"
           /\ pc' = [pc EXCEPT ![Server] = "undo"]
           /\ UNCHANGED <<passes, job, last>>
  <2>1. pc'[Server] = "undo"
    BY <1>1, TypeParts, NodeAssumption DEF TransactionInv, JobOK
  <2>2. Reversible(Server)'
    BY <1>1, <2>1 DEF TransactionInv, Reversible, Reversed, TakenBack, store, job
  <2>3. Applied(Server)'
    BY <2>1 DEF Applied
  <2> QED
    BY <2>1, <2>2, <2>3, HeldSettles
<1>2. CASE Finish(Server, "incomplete")
  BY <1>2, FinishTransaction
<1>3. CASE undo[Server].kind = "nothing" /\ Finish(Server, "failed")
  <2>1. who[Server] = "boot"
    BY <1>3 DEF TransactionInv, Reversible
  <2> QED
    BY <1>3, <2>1, FinishTransaction
<1> QED
  BY <1>1, <1>2, <1>3 DEF Fail

\* Going on leaves the undo record alone.
LEMMA GotoReversible ==
  ASSUME TransactionInv, NEW step \in {"main", "units"}, Goto(Server, step),
         pc[Server] # "free", UNCHANGED store
  PROVE  Reversible(Server)' /\ pc'[Server] = step
<1>1. pc'[Server] = step
  BY TypeParts, NodeAssumption DEF TransactionInv, JobOK, Goto
<1> QED
  BY <1>1 DEF TransactionInv, Reversible, Reversed, TakenBack, store, Goto

\* With nothing left and nothing superfluous everything is in place.
LEMMA AllApplied ==
  ASSUME TransactionInv, pc[Server] = "units", left[Server] = {}, Superfluous(Server) = {}
  PROVE  InPlace
<1>1. /\ snap[Server] = <<rows, setting>>
      /\ main.file = MainOf(rows, setting)
      /\ \A i \in Ids : Served(rows, i, TRUE) => Up(i)
  BY DEF TransactionInv, Applied
<1>2. ASSUME NEW i \in Ids, ~Served(rows, i, TRUE) PROVE units[i].run = NoNode
  <2>1. UnitIn(Server, i) = NoNode
    BY <1>1, <1>2 DEF UnitIn, UnitsOf
  <2> QED
    BY <2>1 DEF Superfluous
<1> QED
  BY <1>1, <1>2 DEF InPlace, Up

\* Apply that succeeds leaves the configuration in place, and the unit up.
LEMMA SucceededUp ==
  ASSUME NEW u, NEW c, NEW v \in Succeeded(u, c)
  PROVE  v.file = c /\ (c # NoNode => v.run # NoNode)
BY DEF Succeeded, Loaded, Unit

\* A residential node that is served has a configuration.
LEMMA ServedConfigured ==
  ASSUME NEW r \in Rows, NEW s \in Settings, NEW i \in Ids, Served(r, i, TRUE)
  PROVE  UnitsOf(r, s)[i] # NoNode
<1>1. r[i].rev \in Revs /\ s.outbounds \in Outbounds
  BY DEF Rows, Nodes, Settings, Served
<1>2. <<r[i].rev, s.outbounds>> # NoNode
  BY <1>1, NodeAssumption
<1> QED
  BY <1>2 DEF UnitsOf

LEMMA ReconcileTransaction ==
  ASSUME Alone, TransactionInv, Reconcile(Server)
  PROVE  Reversible(Server)' /\ Applied(Server)' /\ Placed'
<1>0. /\ Server \in Procs
      /\ JobOK /\ StoreOK /\ DeployedOK
  BY TypeParts, NodeAssumption DEF TransactionInv
<1>1. CASE ReadRows(Server)
  <2>1. pc[Server] # "free" /\ UNCHANGED store
    BY <1>1 DEF ReadRows
  <2>2. CASE /\ snap' = [snap EXCEPT ![Server] = <<rows, setting>>]
             /\ left' = [left EXCEPT ![Server] = {i \in Ids : Served(rows, i, TRUE)}]
             /\ Goto(Server, "main")
    <3>1. Reversible(Server)' /\ pc'[Server] = "main"
      BY <2>1, <2>2, GotoReversible
    <3>2. /\ snap'[Server] = <<rows, setting>>
          /\ left'[Server] = {i \in Ids : Served(rows, i, TRUE)}
      BY <1>0, <2>2 DEF JobOK
    <3>3. Applied(Server)'
      BY <2>1, <3>1, <3>2 DEF Applied, store, Served
    <3> QED
      BY <3>1, <3>3, HeldSettles
  <2>3. CASE Fail(Server)
    BY <2>1, <2>3, FailTransaction
  <2> QED
    BY <1>1, <2>2, <2>3 DEF ReadRows
<1>2. CASE ApplyMain(Server)
  <2>1. pc[Server] = "main" /\ UNCHANGED store /\ UNCHANGED units
    BY <1>2 DEF ApplyMain
  <2>2. CASE /\ main' \in Succeeded(main, MainIn(Server))
             /\ Goto(Server, "units") /\ UNCHANGED <<snap, left>>
    <3>1. Reversible(Server)' /\ pc'[Server] = "units"
      BY <2>1, <2>2, GotoReversible
    <3>2. snap[Server] = <<rows, setting>> /\ left[Server] = {i \in Ids : Served(rows, i, TRUE)}
      BY <2>1 DEF TransactionInv, Applied
    <3>3. main'.file = MainOf(rows, setting)
      BY <2>2, <3>2, SucceededUp DEF MainIn
    <3>4. Applied(Server)'
      BY <2>1, <2>2, <3>1, <3>2, <3>3 DEF Applied, store, Served, MainOf
    <3> QED
      BY <3>1, <3>4, HeldSettles
  <2>3. CASE Fail(Server)
    BY <2>1, <2>3, FailTransaction
  <2> QED
    BY <1>2, <2>2, <2>3 DEF ApplyMain
<1>3. CASE ApplyUnit(Server)
  <2>1. PICK i \in First(left[Server]) :
          \/ /\ \E u \in Succeeded(units[i], UnitIn(Server, i)) : units' = [units EXCEPT ![i] = u]
             /\ left' = [left EXCEPT ![Server] = @ \ {i}]
             /\ Goto(Server, "units")
             /\ UNCHANGED snap
          \/ Fail(Server)
    BY <1>3 DEF ApplyUnit
  <2>2. /\ pc[Server] = "units" /\ UNCHANGED store /\ UNCHANGED main
        /\ i \in Ids
    BY <1>0, <1>3, <2>1 DEF ApplyUnit, First, JobOK
  <2>3. CASE /\ \E u \in Succeeded(units[i], UnitIn(Server, i)) : units' = [units EXCEPT ![i] = u]
             /\ left' = [left EXCEPT ![Server] = @ \ {i}]
             /\ Goto(Server, "units")
             /\ UNCHANGED snap
    <3>1. Reversible(Server)' /\ pc'[Server] = "units"
      BY <2>2, <2>3, GotoReversible
    <3>2. /\ snap[Server] = <<rows, setting>> /\ main.file = MainOf(rows, setting)
          /\ \A j \in Ids \ left[Server] : Served(rows, j, TRUE) => Up(j)
      BY <2>2 DEF TransactionInv, Applied
    <3>3. UnitIn(Server, i) = UnitsOf(rows, setting)[i]
      BY <3>2 DEF UnitIn
    <3>4. left'[Server] = left[Server] \ {i}
      BY <1>0, <2>3 DEF JobOK
    <3>5. PICK u \in Succeeded(units[i], UnitIn(Server, i)) : units' = [units EXCEPT ![i] = u]
      BY <2>3
    <3>6. u.file = UnitsOf(rows, setting)[i] /\ (Served(rows, i, TRUE) => u.run # NoNode)
      <4>1. u.file = UnitIn(Server, i) /\ (UnitIn(Server, i) # NoNode => u.run # NoNode)
        BY <3>5, SucceededUp
      <4>2. Served(rows, i, TRUE) => UnitsOf(rows, setting)[i] # NoNode
        BY <1>0, <2>2, ServedConfigured DEF StoreOK
      <4> QED
        BY <3>3, <4>1, <4>2
    <3>7. units'[i] = u /\ \A j \in Ids \ {i} : units'[j] = units[j]
      BY <1>0, <2>2, <3>5 DEF DeployedOK
    <3>8. /\ \A j \in Ids : UnitsOf(rows', setting')[j] = UnitsOf(rows, setting)[j]
          /\ \A j \in Ids : Served(rows', j, TRUE) <=> Served(rows, j, TRUE)
          /\ MainOf(rows', setting') = MainOf(rows, setting)
      BY <2>2 DEF store, UnitsOf, MainOf, Served
    <3>9. \A j \in Ids \ left'[Server] : Served(rows', j, TRUE) => Up(j)'
      BY <3>2, <3>4, <3>6, <3>7, <3>8 DEF Up
    <3>10. Applied(Server)'
      BY <2>2, <2>3, <3>1, <3>2, <3>8, <3>9 DEF Applied, store
    <3> QED
      BY <3>1, <3>10, HeldSettles
  <2>4. CASE Fail(Server)
    BY <2>2, <2>4, FailTransaction
  <2> QED
    BY <2>1, <2>3, <2>4
<1>4. CASE Prune(Server)
  <2>1. PICK i \in Superfluous(Server) :
          \/ /\ units' = [units EXCEPT ![i] = Loaded(NoNode)]
             /\ Goto(Server, "units")
             /\ UNCHANGED <<snap, left>>
          \/ Fail(Server)
    BY <1>4 DEF Prune
  <2>2. pc[Server] = "units" /\ left[Server] = {} /\ UNCHANGED store /\ UNCHANGED main
    BY <1>4 DEF Prune
  <2>3. CASE /\ units' = [units EXCEPT ![i] = Loaded(NoNode)]
             /\ Goto(Server, "units")
             /\ UNCHANGED <<snap, left>>
    <3>1. Reversible(Server)' /\ pc'[Server] = "units"
      BY <2>2, <2>3, GotoReversible
    <3>2. /\ snap[Server] = <<rows, setting>> /\ main.file = MainOf(rows, setting)
          /\ \A j \in Ids : Served(rows, j, TRUE) => Up(j)
      BY <2>2 DEF TransactionInv, Applied
    <3>3. UnitsOf(rows, setting)[i] = NoNode /\ i \in Ids
      BY <2>1, <3>2 DEF Superfluous, UnitIn
    <3>4. ~Served(rows, i, TRUE)
      BY <1>0, <3>3, ServedConfigured DEF StoreOK
    <3>5. \A j \in Ids \ {i} : units'[j] = units[j]
      BY <1>0, <2>3 DEF DeployedOK
    <3>6. /\ \A j \in Ids : UnitsOf(rows', setting')[j] = UnitsOf(rows, setting)[j]
          /\ \A j \in Ids : Served(rows', j, TRUE) <=> Served(rows, j, TRUE)
          /\ MainOf(rows', setting') = MainOf(rows, setting)
      BY <2>2 DEF store, UnitsOf, MainOf, Served
    <3>7. \A j \in Ids : Served(rows', j, TRUE) => Up(j)'
      BY <3>2, <3>4, <3>5, <3>6 DEF Up
    <3>8. Applied(Server)'
      BY <2>2, <2>3, <3>1, <3>2, <3>6, <3>7 DEF Applied, store
    <3> QED
      BY <3>1, <3>8, HeldSettles
  <2>4. CASE Fail(Server)
    BY <2>2, <2>4, FailTransaction
  <2> QED
    BY <2>1, <2>3, <2>4
<1>5. CASE Save(Server)
  <2>1. /\ pc[Server] = "units" /\ left[Server] = {} /\ Superfluous(Server) = {}
        /\ UNCHANGED store /\ UNCHANGED deployed
    BY <1>5 DEF Save
  <2>2. InPlace
    BY <2>1, AllApplied
  <2>3. InPlace'
    BY <2>1, <2>2 DEF store, deployed, InPlace, MainOf, UnitsOf, Served
  <2>4. CASE Finish(Server, Ending(Server))
    <3>1. Ending(Server) \in {"ok", "failed", "incomplete"}
      BY DEF Ending
    <3> QED
      BY <2>3, <2>4, <3>1, FinishTransaction
  <2>5. CASE Fail(Server)
    BY <2>1, <2>5, FailTransaction
  <2> QED
    BY <1>5, <2>4, <2>5 DEF Save
<1> QED
  BY <1>1, <1>2, <1>3, <1>4, <1>5 DEF Reconcile

\* Taking the write back gives the rows that the operation found.
LEMMA CompensateTransaction ==
  ASSUME Alone, TransactionInv, Compensate(Server)
  PROVE  Reversible(Server)' /\ Applied(Server)' /\ Placed'
<1>0. Server \in Procs /\ JobOK
  BY TypeParts, NodeAssumption DEF TransactionInv
<1>1. /\ pc[Server] = "undo" /\ phase[Server] = "do" /\ undo[Server].kind # "nothing"
      /\ origin[Server] = Reversed(Server)
  BY DEF Compensate, TransactionInv, Reversible
<1>2. /\ pc'[Server] = "read" /\ phase'[Server] = "undo"
      /\ UNCHANGED <<undo, origin>>
  BY <1>0 DEF Compensate, JobOK
<1>3. spoiled'[Server] \/ <<rows', setting'>> = Reversed(Server)
  BY <1>0 DEF Compensate, JobOK, Reversed
<1>4. Reversible(Server)'
  BY <1>1, <1>2, <1>3 DEF Reversible
<1>5. Applied(Server)'
  BY <1>2 DEF Applied
<1> QED
  BY <1>2, <1>4, <1>5, HeldSettles

\* A write that begins an operation can be taken back.
LEMMA OpenedTransaction ==
  ASSUME Alone, TransactionInv, NEW w \in {"api", "watch", "boot"}, NEW u \in Undos,
         Opened(Server, w, u)
  PROVE  Reversible(Server)' /\ Applied(Server)' /\ Placed'
<1>0. Server \in Procs /\ JobOK
  BY TypeParts, NodeAssumption DEF TransactionInv
<1>1. /\ pc'[Server] = "read" /\ undo'[Server] = u /\ phase'[Server] = "do"
      /\ origin'[Server] = <<rows, setting>>
      /\ u.kind # "nothing"
  BY <1>0 DEF Opened, Begin, JobOK
<1>2. Reversed(Server)' = <<rows, setting>>
  BY <1>1 DEF Opened, Reversed, TakenBack
<1>3. Reversible(Server)'
  BY <1>1, <1>2 DEF Reversible
<1>4. Applied(Server)'
  BY <1>1 DEF Applied
<1> QED
  BY <1>1, <1>3, <1>4, HeldSettles

\* A process that is launched again loads the file in place, which stays.
LEMMA RelaunchTransaction ==
  ASSUME TransactionInv, Relaunch, TypeOK'
  PROVE  TransactionInv'
<1>0. /\ StoreOK /\ DeployedOK
      /\ UNCHANGED <<rows, setting, snap, left, undo, phase, spoiled, who, origin, pc, last>>
  BY TypeParts DEF TransactionInv, Relaunch, store, job
<1>1. /\ main'.file = main.file
      /\ \A i \in Ids : units'[i].file = units[i].file
      /\ \A i \in Ids : units'[i].run = units[i].run
                        \/ (units[i].run # NoNode /\ units'[i].run = units[i].file)
  BY <1>0 DEF Relaunch, DeployedOK, Loaded, Unit
<1>2. /\ \A j \in Ids : UnitsOf(rows', setting')[j] = UnitsOf(rows, setting)[j]
      /\ \A j \in Ids : Served(rows', j, TRUE) <=> Served(rows, j, TRUE)
      /\ MainOf(rows', setting') = MainOf(rows, setting)
  BY <1>0 DEF UnitsOf, MainOf, Served
<1>3. \A i \in Ids : Served(rows, i, TRUE) => UnitsOf(rows, setting)[i] # NoNode
  BY <1>0, ServedConfigured DEF StoreOK
<1>4. \A i \in Ids : (Served(rows, i, TRUE) /\ Up(i)) => Up(i)'
  BY <1>1, <1>2, <1>3 DEF Up
<1>5. Reversible(Server)'
  BY <1>0 DEF TransactionInv, Reversible, Reversed, TakenBack
<1>6. Applied(Server)'
  BY <1>0, <1>1, <1>2, <1>4 DEF TransactionInv, Applied
<1>7. InPlace => InPlace'
  BY <1>1, <1>2, <1>4 DEF InPlace, Up
<1>8. Placed'
  BY <1>0, <1>7 DEF TransactionInv, Placed, Quiet
<1> QED
  BY <1>5, <1>6, <1>8 DEF TransactionInv

LEMMA TransactionStep ==
  ASSUME Alone, TransactionInv, [Next]_vars
  PROVE  TransactionInv'
<1> USE DEF store, deployed, passes, job
<1>0. TypeOK' /\ TypeOK /\ Server \in Procs /\ \A p \in Procs : p = Server
  BY TypeStep, NodeAssumption DEF TransactionInv, Alone
<1> SUFFICES (Reversible(Server)' /\ Applied(Server)' /\ Placed') \/ TransactionInv'
  BY <1>0 DEF TransactionInv
<1>1. CASE Operation
  BY <1>0, <1>1, OperationOpens, OpenedTransaction
<1>2. ASSUME NEW p \in Procs, Reconcile(p)
      PROVE  Reversible(Server)' /\ Applied(Server)' /\ Placed'
  BY <1>0, <1>2, ReconcileTransaction
<1>3. ASSUME NEW p \in Procs, Compensate(p)
      PROVE  Reversible(Server)' /\ Applied(Server)' /\ Placed'
  BY <1>0, <1>3, CompensateTransaction
<1>4. ASSUME NEW p \in Procs, Tick(p) PROVE TransactionInv'
  BY <1>0, <1>4, TransactionFrame DEF Tick
<1>5. ASSUME NEW p \in Procs, NEW w \in {"watch", "boot"}, Expire(p, w)
      PROVE  (Reversible(Server)' /\ Applied(Server)' /\ Placed') \/ TransactionInv'
  <2>1. CASE \E u \in Undos : Opened(p, w, u)
    BY <1>0, <2>1, OpenedTransaction
  <2>2. CASE Exit
    BY <2>2, ExitTransaction
  <2>3. CASE UNCHANGED <<clock, store, deployed, stage, job, pc, last>>
    BY <1>0, <2>3, TransactionFrame
  <2> QED
    BY <1>0, <1>5, <2>1, <2>2, <2>3, ExpireOpens
<1>6. CASE Start
  BY <1>0, <1>6, TransactionFrame DEF Start
<1>7. CASE StartReconcile
  <2>1. /\ pc'[Server] = "read" /\ who'[Server] = "boot" /\ phase'[Server] = "do"
        /\ undo'[Server] = Nothing
    BY <1>0, <1>7, TypeParts DEF StartReconcile, Begin, JobOK
  <2>2. Reversible(Server)' /\ Applied(Server)'
    BY <2>1 DEF Reversible, Applied, Nothing
  <2> QED
    BY <2>1, <2>2, HeldSettles
<1>8. CASE Crash
  BY <1>8, ExitTransaction DEF Crash
<1>9. CASE Elapse
  BY <1>0, <1>9, TransactionFrame DEF Elapse
<1>10. CASE UNCHANGED vars
  BY <1>0, <1>10, TransactionFrame DEF vars
<1>11. CASE Relaunch
  BY <1>0, <1>11, RelaunchTransaction
<1>12. CASE StopUnits
  <2>1. Reversible(Server)' /\ Applied(Server)'
    BY <1>12 DEF StopUnits, Reversible, Applied
  <2>2. Placed'
    BY <1>12 DEF StopUnits, Placed
  <2> QED
    BY <2>1, <2>2
<1> QED
  BY <1>1, <1>2, <1>3, <1>4, <1>5, <1>6, <1>7, <1>8, <1>9, <1>10, <1>11, <1>12 DEF Next, Operation

LEMMA TransactionInit == Init => TransactionInv
<1> SUFFICES ASSUME Init PROVE TransactionInv
  OBVIOUS
<1>1. pc[Server] = "free" /\ last = "none"
  BY NodeAssumption DEF Init
<1> QED
  BY <1>1, TypeInit DEF TransactionInv, Reversible, Applied, Placed

LEMMA TransactionHolds == ASSUME Alone PROVE Spec => []TransactionInv
<1>1. TransactionInv /\ [Next]_vars => TransactionInv'
  BY TransactionStep
<1> QED
  BY <1>1, TransactionInit, PTL DEF Spec

----------------------------------------------------------------------------
(* What the processes run.                                                 *)

\* As long as no Apply has been torn, a process runs the file in place, is
\* down, or is left over from a rollback that removed the file.
Sound ==
    whole =>
        /\ main.run = main.file
        /\ \A i \in Ids : units[i].run \in {NoNode, units[i].file} \/ units[i].file = NoNode

\* Neither Apply nor a stop parts a process from its file, unless torn.
SoundUnit(u) == u.run \in {NoNode, u.file} \/ u.file = NoNode

LEMMA ApplySound ==
  ASSUME NEW u, NEW c
  PROVE  /\ u.run = u.file => \A v \in Succeeded(u, c) : v.run = v.file
         /\ (u.run = u.file /\ u.file # NoNode) => \A v \in Refused(u, c) : v.run = v.file
         /\ SoundUnit(u) => \A v \in Succeeded(u, c) \cup Refused(u, c) : SoundUnit(v)
         /\ SoundUnit(u) => \A v \in Stopping(u) \cup {Loaded(NoNode)} : SoundUnit(v)
BY DEF Succeeded, Refused, Stopping, Loaded, Unit, SoundUnit

\* One unit of a sound deployment is exchanged for a sound one.
LEMMA UnitSound ==
  ASSUME TypeOK, Sound, NEW i \in Ids, NEW v, SoundUnit(units[i]) => SoundUnit(v),
         units' = [units EXCEPT ![i] = v], UNCHANGED <<main, whole>>
  PROVE  Sound'
BY TypeParts DEF DeployedOK, Sound, SoundUnit

LEMMA SoundStep ==
  ASSUME TypeOK, Sound, [Next]_vars
  PROVE  Sound'
<1> USE DEF store, deployed, passes, job
<1>0. DeployedOK
  BY TypeParts
<1>1. CASE UNCHANGED deployed
  BY <1>1 DEF Sound
<1>2. ASSUME NEW p \in Procs, ApplyMain(p) PROVE Sound'
  <2>1. CASE whole' = FALSE
    BY <2>1 DEF Sound
  <2>2. CASE main' \in Succeeded(main, MainIn(p)) \cup Refused(main, MainIn(p)) /\ UNCHANGED whole
    <3>1. main.file # NoNode
      BY <1>0, NodeAssumption DEF DeployedOK, UnitsWith, MainConfigs
    <3> QED
      BY <1>2, <2>2, <3>1, ApplySound DEF ApplyMain, Sound
  <2> QED
    BY <1>2, <2>1, <2>2 DEF ApplyMain
<1>3. ASSUME NEW p \in Procs, ApplyUnit(p) PROVE Sound'
  <2>1. PICK i \in First(left[p]) :
          \/ whole' = FALSE
          \/ /\ \E u \in Succeeded(units[i], UnitIn(p, i)) \cup Refused(units[i], UnitIn(p, i)) :
                  units' = [units EXCEPT ![i] = u]
             /\ UNCHANGED <<main, whole>>
    BY <1>3 DEF ApplyUnit
  <2>2. i \in Ids
    BY <2>1, TypeParts DEF First, JobOK
  <2> QED
    BY <2>1, <2>2, ApplySound, UnitSound DEF Sound
<1>4. ASSUME NEW p \in Procs, Prune(p) PROVE Sound'
  <2>1. PICK i \in Superfluous(p) :
          /\ \E u \in Stopping(units[i]) \cup {Loaded(NoNode)} : units' = [units EXCEPT ![i] = u]
          /\ UNCHANGED <<main, whole>>
    BY <1>4 DEF Prune
  <2> QED
    BY <2>1, ApplySound, UnitSound DEF Superfluous
<1>5. ASSUME CutShort(Server) PROVE Sound'
  <2>1. CASE whole' = FALSE
    BY <2>1 DEF Sound
  <2>2. CASE /\ \E i \in Superfluous(Server) : \E u \in Stopping(units[i]) :
                   units' = [units EXCEPT ![i] = u]
             /\ UNCHANGED <<main, whole>>
    BY <2>2, ApplySound, UnitSound DEF Superfluous
  <2> QED
    BY <1>1, <1>5, <2>1, <2>2 DEF CutShort
<1>6. CASE Relaunch
  BY <1>0, <1>6 DEF Relaunch, DeployedOK, Sound, Loaded, Unit
<1>7. CASE StopUnits
  BY <1>0, <1>7 DEF StopUnits, DeployedOK, Sound, Unit
<1>8. ASSUME NEW p \in Procs, Reconcile(p) PROVE Sound'
  BY <1>1, <1>2, <1>3, <1>4, <1>8 DEF Reconcile, ReadRows, Save
<1>9. CASE Operation
  BY <1>1, <1>9, OperationOpens DEF Opened, Begin
<1>10. ASSUME NEW p \in Procs, NEW w \in {"watch", "boot"}, Expire(p, w) PROVE Sound'
  BY <1>1, <1>10, ExpireOpens DEF Opened, Begin
<1>11. CASE StartReconcile
  BY <1>1, <1>11 DEF StartReconcile, Begin
<1> QED
  BY <1>1, <1>5, <1>6, <1>8, <1>9, <1>10, <1>11, <1>7
     DEF Next, Operation, Compensate, Tick, Start, Crash, Elapse, vars

LEMMA SoundInit == Init => Sound
BY DEF Init, Sound, Loaded, Unit

LEMMA SoundHolds == Spec => []Sound
<1>1. TypeOK /\ Sound /\ [Next]_vars => Sound'
  BY SoundStep
<1> QED
  BY <1>1, SoundInit, TypeHolds, PTL DEF Spec

\* When the server's process is the only one, every operation that succeeded
\* or failed with its compensation complete leaves exactly the files that the
\* rows say and the units up that they say - for any number of nodes, and
\* whatever failed, was killed or was rolled back halfway before - and those
\* files are what runs, as long as no Apply has been torn.
THEOREM SettledHolds == ASSUME Procs = {Server} PROVE Spec => []Settled
<1>1. Alone
  BY DEF Alone
<1>2. TransactionInv /\ Sound => Settled
  <2> SUFFICES ASSUME TransactionInv, Sound, Quiet, last \in {"ok", "failed"}
               PROVE  InPlace /\ (whole => InForce)
    BY DEF Settled
  <2>1. InPlace /\ StoreOK
    BY TypeParts DEF TransactionInv, Placed
  <2>2. \A i \in Ids : Served(rows, i, TRUE) => UnitsOf(rows, setting)[i] # NoNode
    BY <2>1, ServedConfigured DEF StoreOK
  <2> QED
    BY <2>1, <2>2 DEF InPlace, InForce, Sound
<1> QED
  BY <1>1, <1>2, TransactionHolds, SoundHolds, PTL

\* An operation of the only process that fails without "rollback_incomplete"
\* leaves rows and settings as it found them.
THEOREM FailureRestoresHolds == ASSUME Procs = {Server} PROVE Spec => FailureRestores
<1>0. Alone
  BY DEF Alone
<1>1. ASSUME TransactionInv, [Next]_vars, NEW p \in Procs,
             pc[p] # "free", pc'[p] = "free", last' = "failed", undo[p].kind # "nothing"
      PROVE  <<rows', setting'>> = origin[p]
  <2>0. TypeOK /\ Server \in Procs /\ p = Server /\ \A q \in Procs : q = Server
    BY <1>1, NodeAssumption DEF TransactionInv
  <2>1. JobOK
    BY <2>0, TypeParts
  <2>2. ASSUME NEW q \in Procs, NEW w \in {"api", "watch", "boot"}, NEW u, Begin(q, w, u)
        PROVE  FALSE
    BY <1>1, <2>0, <2>1, <2>2 DEF Begin, JobOK
  <2>3. ~Exit
    BY <1>1 DEF Exit
  <2>4. ASSUME NEW step \in {"main", "units"}, Goto(Server, step) PROVE FALSE
    BY <1>1, <2>0, <2>1, <2>4 DEF Goto, JobOK
  <2>5. ~Fail(Server)
    BY <1>1, <2>0, <2>1, <2>3 DEF Fail, Finish, JobOK
  <2>6. ASSUME Save(Server) PROVE <<rows', setting'>> = origin[p]
    <3>1. Finish(Server, Ending(Server)) /\ UNCHANGED store
      BY <2>5, <2>6 DEF Save
    <3>2. last' = Ending(Server)
      BY <2>3, <3>1 DEF Finish
    <3>3. phase[Server] = "undo" /\ ~spoiled[Server]
      BY <1>1, <2>0, <2>1, <3>2 DEF Ending, JobOK
    <3> QED
      BY <1>1, <2>0, <3>1, <3>3 DEF TransactionInv, Reversible, store
  <2>7. CASE Operation
    BY <2>0, <2>2, <2>7, OperationOpens DEF Opened
  <2>8. ASSUME NEW q \in Procs, Reconcile(q) PROVE <<rows', setting'>> = origin[p]
    BY <2>0, <2>4, <2>5, <2>6, <2>8 DEF Reconcile, ReadRows, ApplyMain, ApplyUnit, Prune
  <2>9. ASSUME NEW q \in Procs, Compensate(q) PROVE FALSE
    BY <1>1, <2>0, <2>1, <2>9 DEF Compensate, JobOK
  <2>10. ASSUME UNCHANGED pc PROVE FALSE
    BY <1>1, <2>10
  <2>11. ASSUME NEW q \in Procs, NEW w \in {"watch", "boot"}, Expire(q, w) PROVE FALSE
    BY <2>0, <2>2, <2>3, <2>10, <2>11, ExpireOpens DEF Opened
  <2>12. CASE StartReconcile
    BY <2>0, <2>2, <2>12 DEF StartReconcile
  <2> QED
    BY <1>1, <2>3, <2>7, <2>8, <2>9, <2>10, <2>11, <2>12
       DEF Next, Operation, Tick, Start, Crash, Relaunch, StopUnits, Elapse, vars
<1>2. TransactionInv /\ [Next]_vars =>
        [\A p \in Procs :
            (pc[p] # "free" /\ pc'[p] = "free" /\ last' = "failed" /\ undo[p].kind # "nothing")
                => <<rows', setting'>> = origin[p]]_vars
  BY <1>1
<1> QED
  BY <1>0, <1>2, TransactionHolds, PTL DEF Spec, FailureRestores

\* In particular no residential unit goes on listening for a deleted node once
\* its deletion has been reported - while the process is the only one.
THEOREM ExpiredIsClosedHolds == ASSUME Procs = {Server} PROVE Spec => []ExpiredIsClosed
<1>1. Settled => ExpiredIsClosed
  BY DEF Settled, InPlace, ExpiredIsClosed, Served
<1> QED
  BY <1>1, SettledHolds, PTL
=============================================================================
