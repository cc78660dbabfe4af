------------------------ MODULE BackupRestoreProofs ------------------------
(***************************************************************************)
(* Safety of `j-ui restore` for any rules the two versions need and any    *)
(* selection of faults: the directories are never mixed, the previous      *)
(* state survives, no firewall rule is orphaned but by a synchronisation   *)
(* that came too late, and, as long as the second stop of the services is  *)
(* not ignored, every step is a step of RestoreContract.                   *)
(***************************************************************************)
EXTENDS BackupRestore, TLAPS

----------------------------------------------------------------------------
(* The inductive invariant.                                                *)

Early == {"idle", "stop", "vpngate", "archive"}
Undoing == {"undo_remove", "undo_data", "undo_config"}
Moving == {"aside_data", "aside_config", "put_data", "put_config", "drop_data", "drop_config"} \cup Undoing
Trying == {"check", "verify", "restop", "reclose", "load"}
Returning == {"merge", "restart"}
Working == {"stage", "returned"} \cup Moving
Steps == Early \cup {"close", "recover"} \cup Working \cup Trying \cup Returning \cup {"done", "killed"}

\* A whole pair of one version.
IsPair(p, g) == p.data \in DataTrees /\ p.data.gen = g /\ p.config = g
GenIn(j) == IF j = "target" THEN "new" ELSE "old"
\* What a data directory and a configuration must be to stand side by side.
Fits(d, c) == d = None \/ c = None \/ (d \in DataTrees /\ d.gen = c)

\* Which version is in place, in the archive, and about to be put.
Versions ==
    /\ pc \in Early \cup {"close", "recover"} => job = "target" /\ IsPair(live, "old")
    /\ pc = "stage" /\ job = "target" => IsPair(live, "old")
    /\ pc \in {"close", "recover"} \cup Working \cup Trying \cup Returning => IsPair(archive, "old")
    /\ (job = "target" /\ pc \in Moving) => IsPair(Backup, "new")
    /\ pc \in {"drop_data", "drop_config"} \/ (pc = "returned" /\ ~failed) => IsPair(live, GenIn(job))
    /\ pc \in Trying => job = "target" /\ IsPair(live, "new")
    /\ pc \in Returning => job = "rollback" /\ IsPair(live, "old")
    /\ pc = "done" /\ report \in {"kept", "previous"} => IsPair(live, "old")
    /\ pc \in Undoing => failed

\* Where the two directories are while they are exchanged: whatever is put
\* back, or meets a directory that could not be put back, fits.
Arranged ==
    /\ torn \/ Fits(live.data, live.config)
    /\ pc \in (Moving \ {"aside_data"}) \cup {"returned"} \/ aside = NoPair
    /\ pc = "aside_config" =>
        live.data = None /\ aside.config = None /\ (torn \/ Fits(aside.data, live.config))
    /\ pc = "put_data" =>
        live.data = None /\ live.config = None /\ (torn \/ Fits(aside.data, aside.config))
    /\ pc \in {"put_config", "undo_remove"} =>
        live.config = None /\ (torn \/ Fits(aside.data, aside.config))
    /\ pc = "put_config" => live.data = Source(job).data
    /\ pc = "undo_data" =>
        /\ live.data = None /\ (live.config = None \/ aside.config = None)
        /\ torn \/ (Fits(aside.data, live.config) /\ Fits(aside.data, aside.config))
    /\ pc = "undo_config" =>
        /\ live.config = None \/ aside.config = None
        /\ torn \/ (Fits(live.data, live.config) /\ Fits(live.data, aside.config))

\* The verdict comes at the end.
Judged ==
    /\ pc \in Steps
    /\ pc \notin {"done", "killed"} => report = "none"
    /\ pc = "done" => report \in {"restored", "previous", "kept", "abandoned"}
    /\ pc = "killed" => report = "killed"

ShapeInv == TypeOK /\ Judged /\ Versions /\ Arranged

----------------------------------------------------------------------------
(* What the operators do.                                                  *)

\* p is the pair in place with other contents of its data directory.
Rewritten(p) ==
    /\ p \in Pairs /\ p.config = live.config
    /\ p.data \in DataTrees /\ p.data.gen = live.data.gen

LEMMA RewriteRows ==
    ASSUME live \in Pairs, live.data \in DataTrees, NEW rows \in SUBSET Rules
    PROVE  /\ Rewritten([live EXCEPT !.data.fw = rows])
           /\ [live EXCEPT !.data.fw = rows].data.fw = rows
           /\ Rewritten([live EXCEPT !.data.fw = rows, !.data.wal = FALSE])
           /\ [live EXCEPT !.data.fw = rows, !.data.wal = FALSE].data.fw = rows
BY DEF Rewritten, Pairs, Data, DataTrees

LEMMA RewriteLog ==
    ASSUME live \in Pairs, live.data \in DataTrees, NEW odd \in Oddities
    PROVE  /\ Rewritten([live EXCEPT !.data.wal = TRUE, !.data.odd = odd])
           /\ [live EXCEPT !.data.wal = TRUE, !.data.odd = odd].data.fw = live.data.fw
           /\ Rewritten([live EXCEPT !.data.wal = FALSE])
           /\ [live EXCEPT !.data.wal = FALSE].data.fw = live.data.fw
BY DEF Rewritten, Pairs, Data, DataTrees

LEMMA ArchivedPair ==
    ASSUME live \in Pairs, live.data \in DataTrees
    PROVE  Rewritten(Archived(live))
BY DEF Rewritten, Archived, Pairs, Data, DataTrees

\* One directory of a pair is exchanged.
LEMMA ExchangeData ==
    ASSUME NEW p \in Pairs, NEW t \in Data
    PROVE  /\ [p EXCEPT !["data"] = t] \in Pairs
           /\ [p EXCEPT !["data"] = t].data = t /\ [p EXCEPT !["data"] = t].config = p.config
BY DEF Pairs

LEMMA ExchangeConfig ==
    ASSUME NEW p \in Pairs, NEW c \in Configs
    PROVE  /\ [p EXCEPT !["config"] = c] \in Pairs
           /\ [p EXCEPT !["config"] = c].config = c /\ [p EXCEPT !["config"] = c].data = p.data
BY DEF Pairs

\* What a synchronisation of the database in place leaves open has a row, and
\* what it did not know stays as it was.
LEMMA SyncedKeeps ==
    ASSUME TypeOK, live.data \in DataTrees,
           NEW rows \in SUBSET Rules, NEW rules \in SUBSET rows, Synced(live.data, rules, rows)
    PROVE  /\ Rewritten(live') /\ open' \subseteq Rules
           /\ open' \subseteq live'.data.fw \cup (open \ live.data.fw)
<1>1. live \in Pairs /\ open \subseteq Rules /\ live.data.fw \subseteq Rules
  BY DEF TypeOK, DataTrees
<1>2. live' = [live EXCEPT !.data.fw = rows] /\ open' = (open \ live.data.fw) \cup rules
  BY DEF Synced
<1>3. Rewritten(live') /\ live'.data.fw = rows
  BY <1>1, <1>2, RewriteRows
<1> QED
  BY <1>1, <1>2, <1>3

LEMMA PartSyncedKeeps ==
    ASSUME TypeOK, live.data \in DataTrees, PartSynced
    PROVE  /\ Rewritten(live') /\ open' \subseteq Rules
           /\ open' \subseteq live'.data.fw \cup (open \ live.data.fw)
<1>1. live.data.gen \in Gens /\ live.data.fw \subseteq Rules
  BY DEF DataTrees
<1>2. Wanted[live.data.gen] \subseteq Rules
  BY <1>1 DEF Gens, Rules
<1>3. PICK rows \in SUBSET (live.data.fw \cup Wanted[live.data.gen]) :
        \E rules \in SUBSET (rows \cap ((open \cap live.data.fw) \cup Wanted[live.data.gen])) :
           Synced(live.data, rules, rows)
  BY DEF PartSynced
<1>4. PICK rules \in SUBSET (rows \cap ((open \cap live.data.fw) \cup Wanted[live.data.gen])) :
        Synced(live.data, rules, rows)
  BY <1>3
<1>5. rows \in SUBSET Rules /\ rules \in SUBSET rows
  BY <1>1, <1>2
<1> QED
  BY <1>4, <1>5, SyncedKeeps

\* Starting the services changes no version, and leaves a row for every rule
\* that had one or that it opened.
LEMMA StartKeeps ==
    ASSUME TypeOK, NEW g \in Gens, IsPair(live, g),
           Started(Version(live)) \/ HalfStarted(Version(live))
    PROVE  /\ Rewritten(live') /\ IsPair(live', g)
           /\ open' \subseteq Rules /\ up' \in {up, g, None}
           /\ open' \subseteq live'.data.fw \cup (open \ live.data.fw)
<1>1. live.data \in DataTrees /\ live \in Pairs /\ live.data.gen = g /\ live.config = g
      /\ open \subseteq Rules /\ live.data.fw \subseteq Rules
  BY DEF TypeOK, IsPair, DataTrees
<1>2. Wanted[g] \subseteq Rules
  BY DEF Gens, Rules
<1>3. Version(live) = g /\ Whole(live) /\ Openable(live)
  BY <1>1, PlacesAssumption DEF Version, Whole, Openable, Keys
<1>4. Rewritten(live)
  BY <1>1 DEF Rewritten
<1>5. CASE UNCHANGED <<up, open, live>>
  BY <1>5, <1>1, <1>4 DEF IsPair
<1>6. CASE up' = g /\ Synced(live.data, Wanted[g], Wanted[g])
  <2>1. /\ Rewritten(live') /\ open' \subseteq Rules
        /\ open' \subseteq live'.data.fw \cup (open \ live.data.fw)
    BY <1>6, <1>1, <1>2, SyncedKeeps
  <2> QED
    BY <1>1, <1>6, <2>1 DEF IsPair, Rewritten
<1>7. CASE up' \in {g, None} /\ PartSynced
  <2>1. /\ Rewritten(live') /\ open' \subseteq Rules
        /\ open' \subseteq live'.data.fw \cup (open \ live.data.fw)
    BY <1>7, <1>1, PartSyncedKeeps
  <2> QED
    BY <1>1, <1>7, <2>1 DEF IsPair, Rewritten
<1> QED
  BY <1>1, <1>3, <1>5, <1>6, <1>7 DEF Started, HalfStarted

\* Closing rules keeps the rows of those that stay open.
LEMMA ClosedKeeps ==
    ASSUME TypeOK, live.data \in DataTrees,
           \E rows \in SUBSET live.data.fw :
           \E rules \in SUBSET (rows \cap open) : Closed(rows, rules)
    PROVE  /\ Rewritten(live') /\ open' \subseteq Rules
           /\ open' \subseteq live'.data.fw \cup (open \ live.data.fw)
<1>1. live \in Pairs /\ open \subseteq Rules /\ live.data.fw \subseteq Rules
  BY DEF TypeOK, DataTrees
<1>2. PICK rows \in SUBSET live.data.fw : \E rules \in SUBSET (rows \cap open) : Closed(rows, rules)
  OBVIOUS
<1>3. PICK rules \in SUBSET (rows \cap open) : Closed(rows, rules)
  BY <1>2
<1>4. /\ live' = [live EXCEPT !.data.fw = rows, !.data.wal = FALSE]
      /\ open' = (open \ live.data.fw) \cup rules
  BY <1>3 DEF Closed
<1>5. Rewritten(live') /\ live'.data.fw = rows
  BY <1>1, <1>4, RewriteRows
<1> QED
  BY <1>1, <1>4, <1>5

LEMMA ShapeInit == Init => ShapeInv
<1> SUFFICES ASSUME Init PROVE ShapeInv
  OBVIOUS
<1>1. live \in Pairs /\ IsPair(live, "old") /\ NoPair \in Pairs
  BY BackupAssumption DEF Init, Pairs, Data, DataTrees, Configs, Keys, Gens, Oddities, Rules, NoPair, IsPair
<1>2. TypeOK
  BY <1>1 DEF Init, TypeOK, Gens, Targets, Rules
<1>3. Versions
  BY <1>1 DEF Init, Versions, Early, Undoing, Moving, Trying, Returning, Working
<1>4. Arranged /\ Judged
  BY <1>1, PlacesAssumption DEF Init, Arranged, Fits, IsPair, Judged, Steps, Early
<1> QED
  BY <1>2, <1>3, <1>4 DEF ShapeInv

----------------------------------------------------------------------------
(* Every step keeps ShapeInv.                                              *)

\* The step of a command whose directories stay as they are, or are rewritten.
LEMMA ShapeEarly ==
    ASSUME ShapeInv, Edit \/ Crash \/ Lock \/ Stop
    PROVE  ShapeInv'
<1> USE DEF Early, Undoing, Moving, Trying, Returning, Working, Steps
<1>1. TypeOK /\ Judged /\ Versions /\ Arranged
  BY DEF ShapeInv
<1>2. pc \in {"idle", "stop"} /\ job = "target" /\ IsPair(live, "old") /\ report = "none"
  BY <1>1 DEF Edit, Crash, Lock, Stop, Versions, Judged
<1>3. live.data \in DataTrees /\ live \in Pairs
  BY <1>1, <1>2 DEF TypeOK, IsPair
<1>4. Rewritten(live') /\ up' \in {up, None}
  BY <1>3, RewriteLog DEF Edit, Crash, Lock, Stop, host, trees, Rewritten, Oddities
<1>5. /\ UNCHANGED <<aside, left, open, why, rescued, blind, astray, job, failed, torn>>
      /\ target' \in {target} \cup Targets
  BY DEF Edit, Crash, Lock, Stop, host, trees, plan
<1>6. \/ pc' \in {"idle", "stop", "vpngate"} /\ report' = report /\ archive' = archive
      \/ pc' = "done" /\ report' = "kept" /\ archive' = NoPair
  BY <1>2 DEF Edit, Crash, Lock, Stop, End
<1>7. IsPair(live', "old") /\ Fits(live'.data, live'.config)
  BY <1>2, <1>4 DEF IsPair, Rewritten, Fits
<1>8. TypeOK'
  <2>1. NoPair \in Pairs
    BY DEF NoPair, Pairs, Data, Configs
  <2> QED
    BY <1>1, <1>4, <1>5, <1>6, <2>1 DEF TypeOK, Rewritten
<1>9. Judged'
  BY <1>1, <1>2, <1>6 DEF Judged
<1>10. Versions'
  BY <1>1, <1>2, <1>5, <1>6, <1>7 DEF Versions
<1>11. Arranged'
  BY <1>1, <1>2, <1>5, <1>6, <1>7 DEF Arranged
<1> QED
  BY <1>8, <1>9, <1>10, <1>11 DEF ShapeInv

LEMMA ShapeStarting ==
    ASSUME ShapeInv, IsPair(live, "old"), aside = NoPair, EndStarting("kept")
    PROVE  ShapeInv'
<1> USE DEF Early, Undoing, Moving, Trying, Returning, Working, Steps
<1>1. TypeOK
  BY DEF ShapeInv
<1>2. Rewritten(live') /\ IsPair(live', "old") /\ open' \subseteq Rules /\ up' \in {up, "old", None}
  BY <1>1, StartKeeps DEF EndStarting, Gens
<1>3. /\ UNCHANGED <<aside, left, target, why, rescued, blind, astray, job, failed, torn>>
      /\ pc' = "done" /\ report' = "kept" /\ archive' = NoPair
  BY DEF EndStarting, End, plan
<1>4. NoPair \in Pairs
  BY DEF NoPair, Pairs, Data, Configs
<1>5. TypeOK'
  BY <1>1, <1>2, <1>3, <1>4 DEF TypeOK, Rewritten, Gens
<1>6. Judged' /\ Versions'
  BY <1>2, <1>3 DEF Judged, Versions
<1>7. Arranged'
  BY <1>2, <1>3 DEF Arranged, Fits, IsPair
<1> QED
  BY <1>5, <1>6, <1>7 DEF ShapeInv

LEMMA ShapePreparing ==
    ASSUME ShapeInv, CleanVpnGate \/ MakeArchive \/ CleanupFirewall \/ Recover
    PROVE  ShapeInv'
<1> USE DEF Early, Undoing, Moving, Trying, Returning, Working, Steps
<1>1. TypeOK /\ Judged /\ Versions /\ Arranged
  BY DEF ShapeInv
<1>2. /\ pc \in {"vpngate", "archive", "close", "recover"}
      /\ job = "target" /\ IsPair(live, "old") /\ report = "none" /\ aside = NoPair
  BY <1>1 DEF CleanVpnGate, MakeArchive, CleanupFirewall, Recover, Versions, Judged, Arranged
<1>3. live.data \in DataTrees /\ live \in Pairs
  BY <1>1, <1>2 DEF TypeOK, IsPair
<1>4. CASE EndStarting("kept")
  BY <1>4, <1>2, ShapeStarting
<1>5. CASE ~EndStarting("kept")
  <2>1. /\ UNCHANGED <<aside, left, up, target, why, rescued, blind, astray, job, failed, report, torn>>
        /\ \/ pc' = "archive" /\ UNCHANGED <<archive, live, open>>
           \/ pc' = "close" /\ archive' = Archived(live) /\ UNCHANGED <<live, open>>
           \/ /\ pc = "close" /\ pc' \in {"stage", "recover"} /\ archive' = archive
              /\ \E rows \in SUBSET live.data.fw :
                 \E rules \in SUBSET (rows \cap open) : Closed(rows, rules)
    BY <1>5 DEF CleanVpnGate, MakeArchive, CleanupFirewall, Recover, host, trees, plan
  <2>3. Rewritten(live') /\ open' \subseteq Rules
    <3>1. CASE UNCHANGED <<live, open>>
      BY <3>1, <1>1, <1>3 DEF Rewritten, TypeOK
    <3> QED
      BY <3>1, <1>1, <1>3, <2>1, ClosedKeeps
  <2>4. IsPair(live', "old") /\ Fits(live'.data, live'.config)
    BY <1>2, <2>3 DEF IsPair, Rewritten, Fits
  <2>5. archive' \in Pairs /\ (pc' # "archive" => IsPair(archive', "old"))
    <3>1. Rewritten(Archived(live))
      BY <1>3, ArchivedPair
    <3> QED
      BY <1>1, <1>2, <2>1, <3>1 DEF TypeOK, Versions, Rewritten, IsPair
  <2>6. TypeOK'
    BY <1>1, <2>1, <2>3, <2>5 DEF TypeOK, Rewritten
  <2>7. Judged' /\ Versions'
    BY <1>1, <1>2, <2>1, <2>4, <2>5 DEF Judged, Versions
  <2>8. Arranged'
    BY <1>2, <2>1, <2>4 DEF Arranged
  <2> QED
    BY <2>6, <2>7, <2>8 DEF ShapeInv
<1> QED
  BY <1>4, <1>5

\* What the replacement is about to put in place is a whole pair.
LEMMA SourceIs ==
    ASSUME ShapeInv, pc \in Moving
    PROVE  /\ IsPair(Source(job), GenIn(job))
           /\ Source(job).data \in Data /\ Source(job).config \in Configs
<1>1. IsPair(Source(job), GenIn(job))
  BY DEF ShapeInv, TypeOK, Versions, Source, GenIn, Working, Moving, Undoing
<1> QED
  BY <1>1 DEF IsPair, Data, Configs, Keys, Gens, GenIn

LEMMA StageAccepts ==
    ASSUME TypeOK, ~Refused("target")
    PROVE  IsPair(Backup, "new")
<1>1. Backup.data \in DataTrees /\ Backup.data.gen = "new" /\ Backup.config \in {"new", "other"}
  BY DEF Backup, DataTrees, Gens, Oddities, Rules
<1>2. Backup.config = "new"
  BY <1>1 DEF Refused, WrongKey, Source
<1> QED
  BY <1>1, <1>2 DEF IsPair

LEMMA ShapeStage ==
    ASSUME ShapeInv, Stage
    PROVE  ShapeInv'
<1> USE DEF Early, Undoing, Moving, Trying, Returning, Working, Steps
<1>1. TypeOK /\ Judged /\ Versions /\ Arranged
  BY DEF ShapeInv
<1>2. /\ UNCHANGED <<live, aside, left, torn, archive, up, open, target, why, rescued, blind, astray, job, report>>
      /\ pc = "stage" /\ pc' \in {"aside_data", "returned"}
      /\ pc' = "aside_data" => ~Refused(job) /\ failed' = FALSE
      /\ pc' = "returned" => failed' = TRUE
  BY DEF Stage, Step, trees, host, plan
<1>3. pc' = "aside_data" /\ job = "target" => IsPair(Backup', "new")
  <2>1. Backup' = Backup
    BY <1>2 DEF Backup
  <2> QED
    BY <1>1, <1>2, <2>1, StageAccepts
<1>4. TypeOK' /\ Judged'
  BY <1>1, <1>2 DEF TypeOK, Judged
<1>5. Versions'
  BY <1>1, <1>2, <1>3 DEF Versions, TypeOK
<1>6. Arranged'
  BY <1>1, <1>2 DEF Arranged
<1> QED
  BY <1>4, <1>5, <1>6 DEF ShapeInv

\* What every step of the replacement leaves alone, and what it must establish.
Exchanging ==
    /\ pc \in Moving /\ pc' \in Moving \cup {"returned"}
    /\ UNCHANGED <<archive, up, open, target, why, rescued, blind, astray, job, report>>
    /\ live' \in Pairs /\ aside' \in Pairs /\ left' = left
    /\ failed' \in BOOLEAN /\ torn' \in BOOLEAN
    /\ pc' \in Undoing => failed'
    /\ pc' \in {"drop_data", "drop_config"} \/ (pc' = "returned" /\ ~failed') => IsPair(live', GenIn(job))

LEMMA ShapeExchanging ==
    ASSUME ShapeInv, Exchanging, Arranged'
    PROVE  ShapeInv'
<1> USE DEF Early, Undoing, Moving, Trying, Returning, Working, Steps
<1>1. TypeOK /\ Judged /\ Versions
  BY DEF ShapeInv
<1>2. Backup' = Backup
  BY DEF Exchanging, Backup
<1>3. TypeOK' /\ Judged'
  BY <1>1 DEF Exchanging, TypeOK, Judged
<1>4. Versions'
  BY <1>1, <1>2 DEF Versions, Exchanging
<1> QED
  BY <1>3, <1>4 DEF ShapeInv

LEMMA ShapeAside ==
    ASSUME ShapeInv, AsideData \/ AsideConfig
    PROVE  ShapeInv'
<1> USE DEF Early, Undoing, Moving, Trying, Returning, Working, Steps
<1>1. TypeOK /\ Judged /\ Versions /\ Arranged
  BY DEF ShapeInv
<1>2. /\ live \in Pairs /\ aside \in Pairs /\ failed \in BOOLEAN /\ torn \in BOOLEAN
      /\ live["data"] = live.data /\ live["config"] = live.config
      /\ live.data \in Data /\ live.config \in Configs /\ None \in Data /\ None \in Configs
  BY <1>1 DEF TypeOK, Pairs, Data, Configs
<1>3. UNCHANGED <<archive, up, open, target, why, rescued, blind, astray, job, report>>
  BY DEF AsideData, AsideConfig, Aside, Fail, Step, host, plan
<1>4. CASE Fail("aside_data", "returned") \/ Fail("aside_config", "undo_data")
  <2>1. /\ UNCHANGED <<live, aside, left, torn>> /\ failed' = TRUE
        /\ \/ pc = "aside_data" /\ pc' = "returned"
           \/ pc = "aside_config" /\ pc' = "undo_data"
    BY <1>4 DEF Fail, Step, trees
  <2>2. Exchanging
    BY <1>2, <1>3, <2>1 DEF Exchanging
  <2>3. Arranged'
    BY <1>1, <2>1 DEF Arranged, Fits
  <2> QED
    BY <2>2, <2>3, ShapeExchanging
<1>5. CASE Aside("data", "aside_data", "aside_config")
  <2>1. /\ pc = "aside_data" /\ pc' = "aside_config" /\ UNCHANGED <<left, failed, torn>>
        /\ aside' = [aside EXCEPT !["data"] = live["data"]]
        /\ live' = [live EXCEPT !["data"] = None]
    BY <1>5 DEF Aside, Step
  <2>2. /\ aside' \in Pairs /\ live' \in Pairs
        /\ aside'.data = live.data /\ aside'.config = aside.config
        /\ live'.data = None /\ live'.config = live.config
    BY <1>2, <2>1, ExchangeData, ExchangeConfig
  <2>3. Exchanging
    BY <1>2, <1>3, <2>1, <2>2 DEF Exchanging
  <2>4. Arranged'
    BY <1>1, <2>1, <2>2 DEF Arranged, Fits, NoPair
  <2> QED
    BY <2>3, <2>4, ShapeExchanging
<1>6. CASE Aside("config", "aside_config", "put_data")
  <2>1. /\ pc = "aside_config" /\ pc' = "put_data" /\ UNCHANGED <<left, failed, torn>>
        /\ aside' = [aside EXCEPT !["config"] = live["config"]]
        /\ live' = [live EXCEPT !["config"] = None]
    BY <1>6 DEF Aside, Step
  <2>2. /\ aside' \in Pairs /\ live' \in Pairs
        /\ aside'.data = aside.data /\ aside'.config = live.config
        /\ live'.data = live.data /\ live'.config = None
    BY <1>2, <2>1, ExchangeData, ExchangeConfig
  <2>3. Exchanging
    BY <1>2, <1>3, <2>1, <2>2 DEF Exchanging
  <2>4. Arranged'
    BY <1>1, <2>1, <2>2 DEF Arranged, Fits
  <2> QED
    BY <2>3, <2>4, ShapeExchanging
<1> QED
  BY <1>4, <1>5, <1>6 DEF AsideData, AsideConfig

LEMMA ShapePut ==
    ASSUME ShapeInv, PutData \/ PutConfig
    PROVE  ShapeInv'
<1> USE DEF Early, Undoing, Moving, Trying, Returning, Working, Steps
<1>1. TypeOK /\ Judged /\ Versions /\ Arranged
  BY DEF ShapeInv
<1>2. /\ live \in Pairs /\ aside \in Pairs /\ failed \in BOOLEAN /\ torn \in BOOLEAN
      /\ pc \in {"put_data", "put_config"}
  BY <1>1 DEF TypeOK, PutData, PutConfig, Put, Fail, Step
<1>3. UNCHANGED <<archive, up, open, target, why, rescued, blind, astray, job, report>>
  BY DEF PutData, PutConfig, Put, Fail, Step, host, plan
<1>4. /\ IsPair(Source(job), GenIn(job)) /\ Source(job)' = Source(job)
      /\ Source(job).data \in Data /\ Source(job).config \in Configs
  BY <1>2, <1>3, SourceIs DEF Source, Backup
<1>5. CASE Fail("put_data", "undo_data") \/ Fail("put_config", "undo_remove")
  <2>1. /\ UNCHANGED <<live, aside, left, torn>> /\ failed' = TRUE
        /\ \/ pc = "put_data" /\ pc' = "undo_data"
           \/ pc = "put_config" /\ pc' = "undo_remove"
    BY <1>5 DEF Fail, Step, trees
  <2>2. Exchanging
    BY <1>2, <1>3, <2>1 DEF Exchanging
  <2>3. Arranged'
    BY <1>1, <2>1 DEF Arranged, Fits
  <2> QED
    BY <2>2, <2>3, ShapeExchanging
<1>6. CASE Put("data", "put_data", "put_config")
  <2>1. /\ pc = "put_data" /\ pc' = "put_config" /\ UNCHANGED <<aside, left, failed, torn>>
        /\ live' = [live EXCEPT !["data"] = Source(job)["data"]]
    BY <1>6 DEF Put, Step
  <2>2. Source(job)["data"] = Source(job).data
    OBVIOUS
  <2>3. live' \in Pairs /\ live'.data = Source(job).data /\ live'.config = live.config
    BY <1>2, <1>4, <2>1, <2>2, ExchangeData
  <2>4. Exchanging
    BY <1>2, <1>3, <2>1, <2>3 DEF Exchanging
  <2>5. Arranged'
    BY <1>1, <1>4, <2>1, <2>3 DEF Arranged, Fits
  <2> QED
    BY <2>4, <2>5, ShapeExchanging
<1>7. CASE Put("config", "put_config", "drop_data")
  <2>1. /\ pc = "put_config" /\ pc' = "drop_data" /\ UNCHANGED <<aside, left, failed, torn>>
        /\ live' = [live EXCEPT !["config"] = Source(job)["config"]]
    BY <1>7 DEF Put, Step
  <2>2. Source(job)["config"] = Source(job).config
    OBVIOUS
  <2>3. live' \in Pairs /\ live'.config = Source(job).config /\ live'.data = live.data
    BY <1>2, <1>4, <2>1, <2>2, ExchangeConfig
  <2>4. IsPair(live', GenIn(job))
    BY <1>1, <1>4, <2>1, <2>3 DEF Arranged, IsPair
  <2>5. Exchanging
    BY <1>2, <1>3, <2>1, <2>3, <2>4 DEF Exchanging
  <2>6. Arranged'
    BY <2>1, <2>4 DEF Arranged, Fits, IsPair
  <2> QED
    BY <2>5, <2>6, ShapeExchanging
<1> QED
  BY <1>5, <1>6, <1>7 DEF PutData, PutConfig

LEMMA ShapeUndo ==
    ASSUME ShapeInv, UndoRemove \/ UndoData \/ UndoConfig
    PROVE  ShapeInv'
<1> USE DEF Early, Undoing, Moving, Trying, Returning, Working, Steps
<1>1. TypeOK /\ Judged /\ Versions /\ Arranged
  BY DEF ShapeInv
<1>2. /\ live \in Pairs /\ aside \in Pairs /\ failed \in BOOLEAN /\ torn \in BOOLEAN
      /\ aside["data"] = aside.data /\ aside["config"] = aside.config
      /\ aside.data \in Data /\ aside.config \in Configs
      /\ None \in Data /\ None \in Configs /\ Part \in Data
  BY <1>1 DEF TypeOK, Pairs, Data, Configs
<1>3. UNCHANGED <<archive, up, open, target, why, rescued, blind, astray, job, report>>
  BY DEF UndoRemove, UndoData, UndoConfig, Back, Fail, Step, host, plan
<1>4. CASE UndoRemove
  <2>1. /\ pc = "undo_remove" /\ UNCHANGED <<aside, left, failed>>
        /\ \/ live' = [live EXCEPT !["data"] = None] /\ pc' = "undo_data" /\ torn' = torn
           \/ live' = [live EXCEPT !["data"] = Part] /\ pc' = "undo_config" /\ torn' = TRUE
    BY <1>4 DEF UndoRemove, Step
  <2>2. /\ live' \in Pairs /\ live'.config = live.config
        /\ pc' = "undo_data" => live'.data = None
    <3>1. CASE live' = [live EXCEPT !["data"] = None]
      BY <1>2, <3>1, ExchangeData
    <3>2. CASE live' = [live EXCEPT !["data"] = Part] /\ pc' = "undo_config"
      BY <1>2, <3>2, ExchangeData
    <3> QED
      BY <2>1, <3>1, <3>2
  <2>3. Exchanging
    BY <1>1, <1>2, <1>3, <2>1, <2>2 DEF Exchanging, Versions
  <2>4. Arranged'
    BY <1>1, <2>1, <2>2 DEF Arranged, Fits
  <2> QED
    BY <2>3, <2>4, ShapeExchanging
<1>5. CASE Fail("undo_data", "undo_config") \/ Fail("undo_config", "returned")
  <2>1. /\ UNCHANGED <<live, aside, left, torn>> /\ failed' = TRUE
        /\ \/ pc = "undo_data" /\ pc' = "undo_config"
           \/ pc = "undo_config" /\ pc' = "returned"
    BY <1>5 DEF Fail, Step, trees
  <2>2. Exchanging
    BY <1>2, <1>3, <2>1 DEF Exchanging
  <2>3. Arranged'
    BY <1>1, <2>1 DEF Arranged, Fits
  <2> QED
    BY <2>2, <2>3, ShapeExchanging
<1>6. CASE Back("data", "undo_data", "undo_config")
  <2>1. /\ pc = "undo_data" /\ pc' = "undo_config" /\ UNCHANGED <<left, failed, torn>>
        /\ live' = IF aside["data"] = None THEN live ELSE [live EXCEPT !["data"] = aside["data"]]
        /\ aside' = [aside EXCEPT !["data"] = None]
    BY <1>6 DEF Back, Step
  <2>2. aside' \in Pairs /\ aside'.data = None /\ aside'.config = aside.config
    BY <1>2, <2>1, ExchangeData
  <2>3. /\ live' \in Pairs /\ live'.config = live.config
        /\ live'.data = IF aside.data = None THEN live.data ELSE aside.data
    BY <1>2, <2>1, ExchangeData
  <2>4. Exchanging
    BY <1>1, <1>2, <1>3, <2>1, <2>2, <2>3 DEF Exchanging, Versions
  <2>5. Arranged'
    BY <1>1, <2>1, <2>2, <2>3 DEF Arranged, Fits
  <2> QED
    BY <2>4, <2>5, ShapeExchanging
<1>7. CASE Back("config", "undo_config", "returned")
  <2>1. /\ pc = "undo_config" /\ pc' = "returned" /\ UNCHANGED <<left, failed, torn>>
        /\ live' = IF aside["config"] = None THEN live ELSE [live EXCEPT !["config"] = aside["config"]]
        /\ aside' = [aside EXCEPT !["config"] = None]
    BY <1>7 DEF Back, Step
  <2>2. aside' \in Pairs /\ aside'.config = None /\ aside'.data = aside.data
    BY <1>2, <2>1, ExchangeConfig
  <2>3. /\ live' \in Pairs /\ live'.data = live.data
        /\ live'.config = IF aside.config = None THEN live.config ELSE aside.config
    BY <1>2, <2>1, ExchangeConfig
  <2>4. Exchanging
    BY <1>1, <1>2, <1>3, <2>1, <2>2, <2>3 DEF Exchanging, Versions
  <2>5. Arranged'
    BY <1>1, <2>1, <2>2, <2>3 DEF Arranged, Fits
  <2> QED
    BY <2>4, <2>5, ShapeExchanging
<1> QED
  BY <1>4, <1>5, <1>6, <1>7 DEF UndoData, UndoConfig

LEMMA ShapeDrop ==
    ASSUME ShapeInv, DropData \/ DropConfig
    PROVE  ShapeInv'
<1> USE DEF Early, Undoing, Moving, Trying, Returning, Working, Steps
<1>1. TypeOK /\ Judged /\ Versions /\ Arranged
  BY DEF ShapeInv
<1>2. /\ live \in Pairs /\ aside \in Pairs /\ failed \in BOOLEAN /\ torn \in BOOLEAN
      /\ None \in Data /\ None \in Configs /\ Part \in Data /\ Part \in Configs
  BY <1>1 DEF TypeOK, Data, Configs
<1>3. UNCHANGED <<archive, up, open, target, why, rescued, blind, astray, job, report, live, left>>
  BY DEF DropData, DropConfig, Drop, Step, host, plan
<1>4. /\ \/ pc = "drop_data" /\ pc' = "drop_config"
         \/ pc = "drop_config" /\ pc' = "returned"
      /\ failed' \in {failed, TRUE} /\ torn' \in {torn, TRUE}
  BY DEF DropData, DropConfig, Drop, Step
<1>5. aside' \in Pairs
  BY <1>2, ExchangeData, ExchangeConfig DEF DropData, DropConfig, Drop
<1>6. IsPair(live, GenIn(job))
  BY <1>1, <1>4 DEF Versions
<1>7. Exchanging
  BY <1>2, <1>3, <1>4, <1>5, <1>6 DEF Exchanging
<1>8. Arranged'
  BY <1>3, <1>4, <1>6 DEF Arranged, Fits, IsPair
<1> QED
  BY <1>7, <1>8, ShapeExchanging

LEMMA ForsakeTypes ==
    ASSUME TypeOK, Forsake
    PROVE  left' \subseteq {"data", "config"} \X Configs /\ aside' = NoPair /\ NoPair \in Pairs
<1>1. DOMAIN aside = {"data", "config"} /\ aside["data"] \in Data /\ aside["config"] \in Configs
  BY DEF TypeOK, Pairs
<1>2. GenOf("data", aside["data"]) \in Configs /\ GenOf("config", aside["config"]) \in Configs
  BY <1>1 DEF GenOf, Data, DataTrees, Configs, Keys
<1>3. NoPair \in Pairs
  BY DEF NoPair, Pairs, Data, Configs
<1> QED
  BY <1>1, <1>2, <1>3 DEF Forsake, TypeOK

LEMMA ShapeReturned ==
    ASSUME ShapeInv, Returned
    PROVE  ShapeInv'
<1> USE DEF Early, Undoing, Moving, Trying, Returning, Working, Steps
<1>1. TypeOK /\ Judged /\ Versions /\ Arranged
  BY DEF ShapeInv
<1>2. left' \subseteq {"data", "config"} \X Configs /\ aside' = NoPair /\ NoPair \in Pairs
  BY <1>1, ForsakeTypes DEF Returned
<1>3. /\ pc = "returned" /\ UNCHANGED <<live, up, open, target, rescued, blind, astray, failed, torn>>
      /\ \/ /\ ~failed /\ UNCHANGED <<archive, job, why, report>>
            /\ pc' = IF job = "target" THEN "check" ELSE IF why = "start" THEN "merge" ELSE "restart"
         \/ /\ failed /\ job = "target" /\ UNCHANGED <<archive, report>>
            /\ job' = "rollback" /\ why' = "restore" /\ pc' = "stage"
         \/ /\ failed /\ job = "rollback" /\ UNCHANGED <<job, why>>
            /\ pc' = "done" /\ report' = "abandoned" /\ archive' = NoPair
  BY DEF Returned, GoBack, End, host
<1>5. TypeOK' /\ Judged'
  BY <1>1, <1>2, <1>3 DEF TypeOK, Judged
<1>6. Versions'
  BY <1>1, <1>3 DEF Versions, GenIn, TypeOK
<1>7. Arranged'
  BY <1>1, <1>2, <1>3 DEF Arranged
<1> QED
  BY <1>5, <1>6, <1>7 DEF ShapeInv

LEMMA ShapeTrying ==
    ASSUME ShapeInv, Check \/ Verify \/ StopAgain \/ CleanupTarget \/ LoadRules
    PROVE  ShapeInv'
<1> USE DEF Early, Undoing, Moving, Trying, Returning, Working, Steps
<1>1. TypeOK /\ Judged /\ Versions /\ Arranged
  BY DEF ShapeInv
<1>2. /\ pc \in Trying /\ job = "target" /\ report = "none" /\ aside = NoPair
      /\ IsPair(live, "new") /\ IsPair(archive, "old")
  BY <1>1 DEF Check, Verify, StopAgain, CleanupTarget, LoadRules, Versions, Judged, Arranged
<1>3. live.data \in DataTrees /\ live \in Pairs /\ live.data.fw \subseteq Rules
  BY <1>1, <1>2 DEF TypeOK, IsPair, DataTrees
<1>4. UNCHANGED <<aside, left, target, astray, failed, torn>>
  BY DEF Check, Verify, StopAgain, CleanupTarget, LoadRules, trees, plan
<1>5. Rewritten(live') /\ open' \subseteq Rules /\ up' \in {up, "new", None}
  <2>1. CASE Check \/ StopAgain \/ LoadRules
    BY <2>1, <1>1, <1>3 DEF Check, StopAgain, LoadRules, trees, host, Rewritten, TypeOK
  <2>2. CASE Verify
    BY <2>2, <1>1, <1>2, StartKeeps DEF Verify, Gens
  <2>3. CASE CleanupTarget
    BY <2>3, <1>1, <1>3, ClosedKeeps DEF CleanupTarget
  <2> QED
    BY <2>1, <2>2, <2>3
<1>6. IsPair(live', "new") /\ Fits(live'.data, live'.config)
  BY <1>2, <1>5 DEF IsPair, Rewritten, Fits
<1>7. \/ pc' = "done" /\ report' = "restored" /\ archive' = NoPair /\ UNCHANGED <<job, why, rescued, blind, astray>>
      \/ /\ pc' \in {"verify", "restop", "reclose", "load"}
         /\ UNCHANGED <<archive, report, job, why, rescued, blind, astray>>
      \/ /\ pc' = "stage" /\ job' = "rollback" /\ why' \in {"foreign", "start"}
         /\ UNCHANGED <<archive, report>>
         /\ rescued' \in {rescued, live.data.fw, {}} /\ blind' \in {blind, TRUE}
  BY DEF Check, Verify, StopAgain, CleanupTarget, LoadRules, End, GoBack, plan
<1>8. NoPair \in Pairs
  BY DEF NoPair, Pairs, Data, Configs
<1>9. TypeOK'
  BY <1>1, <1>2, <1>3, <1>4, <1>5, <1>7, <1>8 DEF TypeOK, Rewritten, Gens
<1>10. Judged' /\ Versions'
  BY <1>2, <1>4, <1>6, <1>7 DEF Judged, Versions
<1>11. Arranged'
  BY <1>2, <1>4, <1>6, <1>7 DEF Arranged
<1> QED
  BY <1>9, <1>10, <1>11 DEF ShapeInv

LEMMA ShapeReturning ==
    ASSUME ShapeInv, MergeRules \/ Restart
    PROVE  ShapeInv'
<1> USE DEF Early, Undoing, Moving, Trying, Returning, Working, Steps
<1>1. TypeOK /\ Judged /\ Versions /\ Arranged
  BY DEF ShapeInv
<1>2. /\ pc \in Returning /\ job = "rollback" /\ report = "none" /\ aside = NoPair
      /\ IsPair(live, "old") /\ IsPair(archive, "old")
  BY <1>1 DEF MergeRules, Restart, Versions, Judged, Arranged
<1>3. /\ live.data \in DataTrees /\ live \in Pairs
      /\ live.data.fw \subseteq Rules /\ rescued \subseteq Rules
  BY <1>1, <1>2 DEF TypeOK, IsPair, DataTrees
<1>4. UNCHANGED <<aside, left, target, why, rescued, astray, job, failed, torn>> /\ blind' \in {blind, TRUE}
  BY DEF MergeRules, Restart, plan
<1>5. Rewritten(live') /\ open' \subseteq Rules /\ up' \in {up, "old", None}
  <2>1. CASE MergeRules
    <3>1. /\ live' = live \/ live' = [live EXCEPT !.data.fw = live.data.fw \cup rescued]
          /\ UNCHANGED host
      BY <2>1 DEF MergeRules
    <3>2. Rewritten([live EXCEPT !.data.fw = live.data.fw \cup rescued]) /\ Rewritten(live)
      BY <1>3, RewriteRows DEF Rewritten
    <3> QED
      BY <3>1, <3>2, <1>1 DEF host, TypeOK
  <2>2. CASE Restart
    BY <2>2, <1>1, <1>2, StartKeeps DEF Restart, Gens
  <2> QED
    BY <2>1, <2>2
<1>6. IsPair(live', "old") /\ Fits(live'.data, live'.config)
  BY <1>2, <1>5 DEF IsPair, Rewritten, Fits
<1>7. \/ pc' = "done" /\ report' \in {"kept", "previous"} /\ archive' = NoPair
      \/ pc' = "restart" /\ UNCHANGED <<archive, report>>
  BY DEF MergeRules, Restart, End
<1>8. NoPair \in Pairs
  BY DEF NoPair, Pairs, Data, Configs
<1>9. TypeOK'
  BY <1>1, <1>4, <1>5, <1>7, <1>8 DEF TypeOK, Rewritten, Gens
<1>10. Judged' /\ Versions'
  BY <1>2, <1>4, <1>6, <1>7 DEF Judged, Versions
<1>11. Arranged'
  BY <1>2, <1>4, <1>6, <1>7 DEF Arranged
<1> QED
  BY <1>9, <1>10, <1>11 DEF ShapeInv

LEMMA ShapeKill ==
    ASSUME ShapeInv, Kill
    PROVE  ShapeInv'
<1> USE DEF Early, Undoing, Moving, Trying, Returning, Working, Steps
<1>1. TypeOK /\ Judged /\ Versions /\ Arranged
  BY DEF ShapeInv
<1>2. left' \subseteq {"data", "config"} \X Configs /\ aside' = NoPair /\ NoPair \in Pairs
  BY <1>1, ForsakeTypes DEF Kill
<1>3. /\ pc \notin {"idle", "done", "killed"} /\ pc' = "killed" /\ report' = "killed"
      /\ UNCHANGED <<live, archive, up, open, target, why, rescued, blind, astray, job, failed, torn>>
  BY DEF Kill, host, plan
<1>4. TypeOK' /\ Judged'
  BY <1>1, <1>2, <1>3 DEF TypeOK, Judged
<1>5. Versions'
  BY <1>1, <1>3 DEF Versions, Judged
<1>6. Arranged'
  BY <1>1, <1>2, <1>3 DEF Arranged
<1> QED
  BY <1>4, <1>5, <1>6 DEF ShapeInv

LEMMA OpenableIsPair ==
    ASSUME ShapeInv, Openable(live), ~torn
    PROVE  \E g \in Gens : IsPair(live, g)
BY DEF ShapeInv, Arranged, Fits, Openable, IsPair, DataTrees

LEMMA ShapeBoot ==
    ASSUME ShapeInv, Boot
    PROVE  ShapeInv'
<1> USE DEF Early, Undoing, Moving, Trying, Returning, Working, Steps
<1>1. TypeOK /\ Judged /\ Versions /\ Arranged
  BY DEF ShapeInv
<1>2. /\ pc = "killed" /\ ~torn /\ aside = NoPair
      /\ UNCHANGED <<aside, left, target, why, rescued, blind, astray, pc, job, failed, report, torn>>
      /\ archive' \in {archive, NoPair} /\ NoPair \in Pairs
  BY <1>1 DEF Boot, plan, Arranged, NoPair, Pairs, Data, Configs
<1>3. CASE UNCHANGED <<open, live>> /\ up' \in {up, None}
  BY <1>1, <1>2, <1>3 DEF ShapeInv, TypeOK, Judged, Versions, Arranged
<1>4. CASE Openable(live) /\ Started(Version(live))
  <2>1. PICK g \in Gens : IsPair(live, g)
    BY <1>2, <1>4, OpenableIsPair
  <2>2. Rewritten(live') /\ IsPair(live', g) /\ open' \subseteq Rules /\ up' \in {up, g, None}
    BY <1>1, <1>4, <2>1, StartKeeps
  <2>3. TypeOK' /\ Judged'
    BY <1>1, <1>2, <2>2 DEF TypeOK, Judged, Rewritten
  <2>4. Versions'
    BY <1>1, <1>2, <2>2 DEF Versions, IsPair, Rewritten
  <2>5. Arranged'
    BY <1>1, <1>2, <2>2 DEF Arranged, Fits, IsPair
  <2> QED
    BY <2>3, <2>4, <2>5 DEF ShapeInv
<1> QED
  BY <1>3, <1>4 DEF Boot, Started

LEMMA ShapeResync ==
    ASSUME ShapeInv, Resync
    PROVE  ShapeInv'
<1> USE DEF Early, Undoing, Moving, Trying, Returning, Working, Steps
<1>1. TypeOK /\ Judged /\ Versions /\ Arranged
  BY DEF ShapeInv
<1>2. /\ UNCHANGED <<aside, left, archive, up, target, pc, job, failed, why, rescued, report, torn, blind>>
      /\ astray' \in {astray, astray \cup (open' \ open)}
  BY DEF Resync, Strayed
<1>3. CASE live' = live /\ open' \subseteq Rules
  <2>1. TypeOK'
    BY <1>1, <1>2, <1>3 DEF TypeOK
  <2>2. Judged' /\ Versions'
    BY <1>1, <1>2, <1>3 DEF Judged, Versions, Backup
  <2>3. Arranged'
    BY <1>1, <1>2, <1>3 DEF Arranged, Source, Backup
  <2> QED
    BY <2>1, <2>2, <2>3 DEF ShapeInv
<1>4. CASE PartSynced /\ (Watching \/ (Unstopped /\ GenOf("data", live.data) = "new"))
  <2>1. live.data \in DataTrees
    BY <1>4 DEF PartSynced, Whole
  <2>2. Rewritten(live') /\ open' \subseteq Rules
    BY <1>1, <1>4, <2>1, PartSyncedKeeps
  <2>3. pc # "put_config"
    <3>1. CASE Watching
      BY <3>1 DEF Watching
    <3>2. CASE Unstopped /\ GenOf("data", live.data) = "new" /\ pc = "put_config"
      <4>1. job = "rollback" /\ live.data = archive.data /\ IsPair(archive, "old")
        BY <1>1, <3>2 DEF Unstopped, Versions, Arranged, Source
      <4> QED
        BY <2>1, <3>2, <4>1, PlacesAssumption DEF IsPair, GenOf
    <3> QED
      BY <1>4, <3>1, <3>2
  <2>4. \A g \in Gens : IsPair(live, g) => IsPair(live', g)
    BY <2>2 DEF IsPair, Rewritten
  <2>5. \A c : Fits(live.data, c) => Fits(live'.data, c)
    BY <2>1, <2>2, PlacesAssumption DEF Fits, Rewritten
  <2>6. live'.config = live.config /\ live.data # None
    BY <2>1, <2>2, PlacesAssumption DEF Rewritten
  <2>7. TypeOK'
    BY <1>1, <1>2, <2>2 DEF TypeOK, Rewritten
  <2>8. Judged' /\ Versions'
    BY <1>1, <1>2, <2>4 DEF Judged, Versions, Backup, GenIn, Gens
  <2>9. Arranged'
    BY <1>1, <1>2, <2>3, <2>5, <2>6 DEF Arranged
  <2> QED
    BY <2>7, <2>8, <2>9 DEF ShapeInv
<1>5. CASE ~PartSynced
  <2>1. live' = live /\ \E rules \in SUBSET Wanted["new"] : open' = (open \ Wanted["new"]) \cup rules
    BY <1>5 DEF Resync
  <2> QED
    BY <1>1, <1>3, <2>1 DEF TypeOK, Rules
<1>6. CASE PartSynced /\ ~(Watching \/ (Unstopped /\ GenOf("data", live.data) = "new"))
  <2>1. live' = live /\ \E rules \in SUBSET Wanted["new"] : open' = (open \ Wanted["new"]) \cup rules
    BY <1>6 DEF Resync
  <2> QED
    BY <1>1, <1>3, <2>1 DEF TypeOK, Rules
<1> QED
  BY <1>4, <1>5, <1>6

LEMMA ShapeNext == ShapeInv /\ [Next]_vars => ShapeInv'
<1> SUFFICES ASSUME ShapeInv, [Next]_vars PROVE ShapeInv'
  OBVIOUS
<1>1. CASE UNCHANGED vars
  BY <1>1 DEF vars, ShapeInv, TypeOK, Judged, Versions, Arranged, Backup, Source
<1>2. CASE Replace
  BY <1>2, ShapeStage, ShapeAside, ShapePut, ShapeUndo, ShapeDrop DEF Replace
<1>3. CASE Command
  BY <1>2, <1>3, ShapeEarly, ShapePreparing, ShapeReturned, ShapeTrying, ShapeReturning DEF Command
<1> QED
  BY <1>1, <1>3, ShapeEarly, ShapeResync, ShapeKill, ShapeBoot DEF Next

LEMMA ShapeMixed == ShapeInv => NeverMixed
<1> SUFFICES ASSUME ShapeInv, Openable(live), ~torn PROVE Version(live) # "mixed"
  BY DEF NeverMixed
<1>1. PICK g \in Gens : IsPair(live, g)
  BY OpenableIsPair
<1> QED
  BY <1>1 DEF IsPair, Version, Whole, Keys, Gens

LEMMA PairIsOld ==
    ASSUME NEW p \in Pairs, IsPair(p, "old")
    PROVE  GenOf("data", p["data"]) = "old" /\ GenOf("config", p["config"]) = "old"
BY PlacesAssumption DEF IsPair, GenOf, Pairs

----------------------------------------------------------------------------
(* Without the archive there is a copy of each directory as well, of one   *)
(* version or the other; a removal that failed may have taken it.          *)

Found(d, gen) ==
    GenOf(d, live[d]) = gen \/ GenOf(d, aside[d]) = gen \/ <<d, gen>> \in left
There(d) == Found(d, "old") \/ Found(d, "new")

\* While the new data may have to be removed, there is another copy of it.
Spare ==
    \/ GenOf("data", aside["data"]) \in Gens
    \/ <<"data", "old">> \in left \/ <<"data", "new">> \in left

Extant ==
    \/ torn
    \/ There("data") /\ There("config") /\ (pc \in {"put_config", "undo_remove"} => Spare)

\* After a kill the previous directory is there, or the archive is lost.
AfterKill ==
    pc = "killed" => \A d \in {"data", "config"} :
        Survives(d, "old") \/ (archive = NoPair /\ Survives(d, "new"))

LEMMA PairIsThere ==
    ASSUME NEW g \in Gens, live \in Pairs, IsPair(live, g)
    PROVE  There("data") /\ There("config")
BY PlacesAssumption DEF IsPair, GenOf, Pairs, There, Found, Gens

LEMMA RewrittenGens ==
    ASSUME live \in Pairs, live.data \in DataTrees, Rewritten(live')
    PROVE  /\ GenOf("data", live'["data"]) = GenOf("data", live["data"])
           /\ GenOf("config", live'["config"]) = GenOf("config", live["config"])
BY PlacesAssumption DEF Rewritten, GenOf, Pairs

LEMMA ExtantInit == Init => Extant /\ AfterKill
<1> SUFFICES ASSUME Init PROVE Extant /\ AfterKill
  OBVIOUS
<1>1. ShapeInv
  BY ShapeInit
<1>2. live \in Pairs /\ IsPair(live, "old") /\ pc = "idle"
  BY <1>1 DEF ShapeInv, TypeOK, Versions, Early, Init
<1> QED
  BY <1>2, PairIsThere DEF Extant, AfterKill, Gens

\* A step that changes no version in place and puts nothing aside.
LEMMA ExtantRewritten ==
    ASSUME ShapeInv, Extant, aside' = aside, left' = left, torn' = torn,
           UNCHANGED live \/ (live.data \in DataTrees /\ Rewritten(live')),
           pc' \in {"put_config", "undo_remove"} => pc = pc' \/ pc \in {"put_config", "undo_remove"}
    PROVE  Extant'
<1>1. live \in Pairs
  BY DEF ShapeInv, TypeOK
<1>2. /\ GenOf("data", live'["data"]) = GenOf("data", live["data"])
      /\ GenOf("config", live'["config"]) = GenOf("config", live["config"])
  BY <1>1, RewrittenGens
<1>3. (There("data") => There("data")') /\ (There("config") => There("config")') /\ (Spare => Spare')
  BY <1>2 DEF There, Found, Spare
<1> QED
  BY <1>3 DEF Extant

LEMMA ExtantReplace ==
    ASSUME ShapeInv, Extant, Replace
    PROVE  Extant'
<1> USE DEF Early, Undoing, Moving, Trying, Returning, Working, Steps
<1>1. TypeOK /\ Versions /\ Arranged
  BY DEF ShapeInv
<1>2. live \in Pairs /\ aside \in Pairs /\ live["data"] = live.data /\ live["config"] = live.config
      /\ aside["data"] = aside.data /\ aside["config"] = aside.config
  BY <1>1 DEF TypeOK, Pairs
<1>3. /\ GenOf("data", None) = None /\ GenOf("config", None) = None
      /\ None \notin {"old", "new"} /\ Part \notin {"old", "new"}
  BY PlacesAssumption DEF GenOf, Keys, Gens
<1>4. CASE torn
  BY <1>4 DEF Extant, Replace, Stage, AsideData, AsideConfig, PutData, PutConfig, UndoRemove,
     UndoData, UndoConfig, DropData, DropConfig, Aside, Put, Back, Drop, Fail
<1>5. CASE ~torn
  <2>1. There("data") /\ There("config") /\ (pc \in {"put_config", "undo_remove"} => Spare)
    BY <1>5 DEF Extant
  <2>2. CASE UNCHANGED <<live, aside, left, torn>> /\ (pc' = "undo_remove" => pc = "put_config") /\ pc' # "put_config"
    BY <2>2, ExtantRewritten
  <2>3. CASE Aside("data", "aside_data", "aside_config")
    <3>1. /\ pc = "aside_data" /\ pc' = "aside_config" /\ left' = left
          /\ aside' = [aside EXCEPT !["data"] = live["data"]]
          /\ live' = [live EXCEPT !["data"] = None]
      BY <2>3 DEF Aside, Step
    <3>2. aside = NoPair
      BY <1>1, <3>1 DEF Arranged
    <3>3. /\ aside'["data"] = live["data"] /\ aside'["config"] = aside["config"]
          /\ live'["data"] = None /\ live'["config"] = live["config"]
      BY <1>2, <3>1 DEF Pairs
    <3>4. aside["data"] = None
      BY <3>2 DEF NoPair
    <3>5. There("data")' /\ There("config")'
      BY <1>3, <2>1, <3>1, <3>3, <3>4 DEF There, Found
    <3> QED
      BY <3>1, <3>5 DEF Extant
  <2>4. CASE Aside("config", "aside_config", "put_data")
    <3>1. /\ pc = "aside_config" /\ pc' = "put_data" /\ left' = left
          /\ aside' = [aside EXCEPT !["config"] = live["config"]]
          /\ live' = [live EXCEPT !["config"] = None]
      BY <2>4 DEF Aside, Step
    <3>2. aside["config"] = None
      BY <1>1, <1>2, <3>1 DEF Arranged
    <3>3. /\ aside'["data"] = aside["data"] /\ aside'["config"] = live["config"]
          /\ live'["data"] = live["data"] /\ live'["config"] = None
      BY <1>2, <3>1 DEF Pairs
    <3>4. There("data")' /\ There("config")'
      BY <1>3, <2>1, <3>1, <3>2, <3>3 DEF There, Found
    <3> QED
      BY <3>1, <3>4 DEF Extant
  <2>5. CASE Put("data", "put_data", "put_config")
    <3>1. /\ pc = "put_data" /\ pc' = "put_config" /\ UNCHANGED <<left, aside>>
          /\ live' = [live EXCEPT !["data"] = Source(job)["data"]]
      BY <2>5 DEF Put, Step
    <3>2. live["data"] = None /\ live'["config"] = live["config"]
      BY <1>1, <1>2, <3>1 DEF Arranged, Pairs
    <3>3. Spare /\ There("data")' /\ There("config")'
      BY <1>3, <2>1, <3>1, <3>2 DEF There, Found, Spare, Gens
    <3>4. Spare'
      BY <3>1, <3>3 DEF Spare
    <3> QED
      BY <3>3, <3>4 DEF Extant
  <2>6. CASE Put("config", "put_config", "drop_data")
    <3>1. /\ pc = "put_config" /\ pc' = "drop_data" /\ UNCHANGED <<left, aside>>
          /\ live' = [live EXCEPT !["config"] = Source(job)["config"]]
      BY <2>6 DEF Put, Step
    <3>2. live["config"] = None /\ live'["data"] = live["data"]
      BY <1>1, <1>2, <3>1 DEF Arranged, Pairs
    <3>3. There("data")' /\ There("config")'
      BY <1>3, <2>1, <3>1, <3>2 DEF There, Found
    <3> QED
      BY <3>1, <3>3 DEF Extant
  <2>7. CASE UndoRemove
    <3>1. /\ pc = "undo_remove" /\ UNCHANGED <<aside, left>> /\ pc' \in {"undo_data", "undo_config"}
          /\ torn' \/ live' = [live EXCEPT !["data"] = None]
      BY <2>7 DEF UndoRemove, Step
    <3>2. CASE live' = [live EXCEPT !["data"] = None]
      <4>1. live'["config"] = live["config"]
        BY <1>2, <3>2 DEF Pairs
      <4>2. There("data")' /\ There("config")'
        BY <2>1, <3>1, <4>1 DEF There, Found, Spare, Gens
      <4> QED
        BY <3>1, <4>2 DEF Extant
    <3> QED
      BY <3>1, <3>2 DEF Extant
  <2>8. CASE Back("data", "undo_data", "undo_config")
    <3>1. /\ pc = "undo_data" /\ pc' = "undo_config" /\ left' = left
          /\ live' = IF aside["data"] = None THEN live ELSE [live EXCEPT !["data"] = aside["data"]]
          /\ aside' = [aside EXCEPT !["data"] = None]
      BY <2>8 DEF Back, Step
    <3>2. live["data"] = None
      BY <1>1, <1>2, <3>1 DEF Arranged
    <3>3. /\ live'["data"] = aside["data"] /\ live'["config"] = live["config"]
          /\ aside'["config"] = aside["config"]
      BY <1>2, <3>1, <3>2 DEF Pairs
    <3>4. There("data")' /\ There("config")'
      BY <1>3, <2>1, <3>1, <3>2, <3>3 DEF There, Found
    <3> QED
      BY <3>1, <3>4 DEF Extant
  <2>9. CASE Back("config", "undo_config", "returned")
    <3>1. /\ pc = "undo_config" /\ pc' = "returned" /\ left' = left
          /\ live' = IF aside["config"] = None THEN live ELSE [live EXCEPT !["config"] = aside["config"]]
          /\ aside' = [aside EXCEPT !["config"] = None]
      BY <2>9 DEF Back, Step
    <3>2. live["config"] = None \/ aside["config"] = None
      BY <1>1, <1>2, <3>1 DEF Arranged
    <3>3. /\ live'["config"] = IF aside["config"] = None THEN live["config"] ELSE aside["config"]
          /\ live'["data"] = live["data"] /\ aside'["data"] = aside["data"]
      BY <1>2, <3>1 DEF Pairs
    <3>4. There("data")' /\ There("config")'
      BY <1>3, <2>1, <3>1, <3>2, <3>3 DEF There, Found
    <3> QED
      BY <3>1, <3>4 DEF Extant
  <2>10. CASE DropData \/ DropConfig
    <3>1. /\ pc \in {"drop_data", "drop_config"} /\ pc' \in {"drop_config", "returned"}
          /\ live' = live /\ left' = left
      BY <2>10 DEF DropData, DropConfig, Drop, Step
    <3>2. IsPair(live, GenIn(job)) /\ GenIn(job) \in Gens
      BY <1>1, <3>1 DEF Versions, GenIn, Gens
    <3>3. There("data") /\ There("config") /\ GenOf("data", live["data"]) = GenIn(job)
          /\ GenOf("config", live["config"]) = GenIn(job)
      BY <1>2, <3>2, PairIsThere, PlacesAssumption DEF IsPair, GenOf
    <3>4. There("data")' /\ There("config")'
      BY <3>1, <3>2, <3>3 DEF There, Found, Gens
    <3> QED
      BY <3>1, <3>4 DEF Extant
  <2>11. CASE Stage \/ Fail("aside_data", "returned") \/ Fail("aside_config", "undo_data")
              \/ Fail("put_data", "undo_data") \/ Fail("put_config", "undo_remove")
              \/ Fail("undo_data", "undo_config") \/ Fail("undo_config", "returned")
    BY <2>2, <2>11 DEF Stage, Fail, Step, trees
  <2> QED
    BY <2>3, <2>4, <2>5, <2>6, <2>7, <2>8, <2>9, <2>10, <2>11
    DEF Replace, AsideData, AsideConfig, PutData, PutConfig, UndoData, UndoConfig
<1> QED
  BY <1>4, <1>5

LEMMA ForsakeKeeps ==
    ASSUME ShapeInv, Extant, Forsake, live' = live, torn' = torn,
           pc' \notin {"put_config", "undo_remove"}
    PROVE  Extant'
<1>1. DOMAIN aside = {"data", "config"}
  BY DEF ShapeInv, TypeOK, Pairs
<1>2. /\ left \subseteq left'
      /\ <<"data", GenOf("data", aside["data"])>> \in left'
      /\ <<"config", GenOf("config", aside["config"])>> \in left'
  BY <1>1 DEF Forsake
<1>3. (There("data") => There("data")') /\ (There("config") => There("config")')
  BY <1>2 DEF There, Found
<1> QED
  BY <1>3 DEF Extant

LEMMA ExtantNext == ShapeInv /\ ShapeInv' /\ Extant /\ [Next]_vars => Extant'
<1> SUFFICES ASSUME ShapeInv, ShapeInv', Extant, [Next]_vars PROVE Extant'
  OBVIOUS
<1> USE DEF Early, Undoing, Moving, Trying, Returning, Working, Steps
<1>1. TypeOK /\ Versions /\ Arranged /\ live \in Pairs /\ live' \in Pairs
  BY DEF ShapeInv, TypeOK
<1>2. CASE UNCHANGED vars
  BY <1>2, ExtantRewritten DEF vars
<1>3. CASE Replace
  BY <1>3, ExtantReplace
<1>4. CASE Returned
  BY <1>4, ForsakeKeeps DEF Returned, GoBack, End
<1>5. CASE Kill
  BY <1>5, ForsakeKeeps DEF Kill
<1>6. CASE Boot
  <2>1. /\ UNCHANGED <<aside, left, torn>> /\ pc' = "killed" /\ ~torn
        /\ live' = live \/ (Openable(live) /\ Started(Version(live)))
    BY <1>6 DEF Boot, Started
  <2>2. CASE live' = live
    BY <2>1, <2>2, ExtantRewritten
  <2>3. CASE Openable(live) /\ Started(Version(live))
    <3>1. PICK g \in Gens : IsPair(live, g)
      BY <2>1, <2>3, OpenableIsPair
    <3>2. live.data \in DataTrees /\ Rewritten(live')
      BY <1>1, <2>3, <3>1, StartKeeps DEF IsPair
    <3> QED
      BY <2>1, <3>2, ExtantRewritten
  <2> QED
    BY <2>1, <2>2, <2>3
<1>7. CASE Resync
  <2>1. UNCHANGED <<aside, left, torn, pc>> /\ (live' = live \/ PartSynced)
    BY <1>7 DEF Resync
  <2>2. PartSynced => live.data \in DataTrees /\ Rewritten(live')
    BY <1>1, PartSyncedKeeps DEF PartSynced, Whole
  <2> QED
    BY <2>1, <2>2, ExtantRewritten
<1>8. CASE Edit \/ Crash \/ Lock \/ Stop \/ CleanVpnGate \/ MakeArchive \/ CleanupFirewall \/ Recover
  <2>1. IsPair(live', "old") /\ pc' \in Early \cup {"close", "recover", "stage", "done"}
    <3>1. pc \in Early \cup {"close", "recover"}
      BY <1>8 DEF Edit, Crash, Lock, Stop, CleanVpnGate, MakeArchive, CleanupFirewall, Recover
    <3>2. pc' \in Early \cup {"close", "recover", "stage"} \/ (pc' = "done" /\ report' = "kept")
      BY <1>8 DEF Edit, Crash, Lock, Stop, CleanVpnGate, MakeArchive, CleanupFirewall, Recover, EndStarting, End
    <3>3. job' = "target"
      BY <1>1, <1>8, <3>1 DEF Versions, Edit, Crash, Lock, Stop, CleanVpnGate, MakeArchive,
         CleanupFirewall, Recover, EndStarting
    <3> QED
      BY <3>2, <3>3 DEF ShapeInv, Versions
  <2>2. (There("data") /\ There("config"))'
    BY <1>1, <2>1, PlacesAssumption DEF IsPair, GenOf, Pairs, There, Found, Gens
  <2> QED
    BY <2>1, <2>2 DEF Extant
<1>9. CASE Check \/ Verify \/ StopAgain \/ CleanupTarget \/ LoadRules \/ MergeRules \/ Restart
  <2>1. pc \in Trying \cup Returning /\ live.data \in DataTrees
    BY <1>1, <1>9 DEF Check, Verify, StopAgain, CleanupTarget, LoadRules, MergeRules, Restart, Versions, IsPair
  <2>2. /\ UNCHANGED <<aside, left, torn>>
        /\ pc' \in Trying \cup Returning \cup {"stage", "done"}
    BY <1>9 DEF Check, Verify, StopAgain, CleanupTarget, LoadRules, MergeRules, Restart, trees, End, GoBack
  <2>3. live' = live \/ Rewritten(live')
    <3>1. CASE Check \/ StopAgain \/ LoadRules
      BY <3>1 DEF Check, StopAgain, LoadRules, trees
    <3>2. CASE Verify
      <4>1. IsPair(live, "new")
        BY <1>1, <3>2 DEF Verify, Versions
      <4> QED
        BY <1>1, <3>2, <4>1, StartKeeps DEF Verify, Gens
    <3>3. CASE CleanupTarget
      BY <1>1, <2>1, <3>3, ClosedKeeps DEF CleanupTarget
    <3>4. CASE MergeRules
      <4>1. live' = live \/ live' = [live EXCEPT !.data.fw = live.data.fw \cup rescued]
        BY <3>4 DEF MergeRules
      <4>2. live.data.fw \cup rescued \in SUBSET Rules
        BY <1>1, <2>1 DEF TypeOK, DataTrees
      <4> QED
        BY <1>1, <2>1, <4>1, <4>2, RewriteRows
    <3>5. CASE Restart
      <4>1. IsPair(live, "old")
        BY <1>1, <3>5 DEF Restart, Versions
      <4> QED
        BY <1>1, <3>5, <4>1, StartKeeps DEF Restart, Gens
    <3> QED
      BY <1>9, <3>1, <3>2, <3>3, <3>4, <3>5
  <2> QED
    BY <2>1, <2>2, <2>3, ExtantRewritten
<1> QED
  BY <1>2, <1>3, <1>4, <1>5, <1>6, <1>7, <1>8, <1>9 DEF Next, Command

LEMMA OldIsThere ==
    ASSUME ShapeInv, IsPair(live, "old") \/ IsPair(archive, "old")
    PROVE  Survives("data", "old") /\ Survives("config", "old")
BY PairIsOld DEF Survives, ShapeInv, TypeOK

LEMMA AfterKillNext ==
    ShapeInv /\ ShapeInv' /\ Extant /\ Extant' /\ AfterKill /\ [Next]_vars => AfterKill'
<1> SUFFICES ASSUME ShapeInv, ShapeInv', Extant, Extant', AfterKill, [Next]_vars, pc' = "killed"
             PROVE  \A d \in {"data", "config"} :
                      (Survives(d, "old") \/ (archive = NoPair /\ Survives(d, "new")))'
  BY DEF AfterKill
<1> USE DEF Early, Undoing, Moving, Trying, Returning, Working, Steps
<1>1. pc = "killed" \/ Kill
  BY DEF Next, Command, vars, Edit, Crash, Lock, Boot, Resync, Stop, CleanVpnGate, MakeArchive, CleanupFirewall,
     Recover, Replace, Returned, Check, Verify, StopAgain, CleanupTarget, LoadRules, MergeRules, Restart,
     EndStarting, End, GoBack, Stage, AsideData, AsideConfig, PutData, PutConfig, UndoRemove,
     UndoData, UndoConfig, DropData, DropConfig, Aside, Put, Back, Drop, Fail, Step
<1>2. CASE Kill
  <2>1. /\ pc \notin {"idle", "done", "killed"} /\ live' = live /\ archive' = archive
    BY <1>2 DEF Kill
  <2>2. (IsPair(live, "old") \/ IsPair(archive, "old"))'
    BY <2>1 DEF ShapeInv, Versions, Judged, IsPair
  <2>3. live' \in Pairs /\ archive' \in Pairs
    BY DEF ShapeInv, TypeOK
  <2>4. \A d \in {"data", "config"} : Survives(d, "old")'
    BY <2>2, <2>3, PairIsOld DEF Survives
  <2> QED
    BY <2>4
<1>3. CASE pc = "killed" /\ ~Boot
  <2>1. UNCHANGED vars
    BY <1>3 DEF Next, Command, Kill, Edit, Crash, Lock, Resync, Watching, Unstopped, Stop, CleanVpnGate,
     MakeArchive, CleanupFirewall, Recover, Replace, Returned, Check, Verify, StopAgain, CleanupTarget,
     LoadRules, MergeRules, Restart, Stage, AsideData, AsideConfig, PutData, PutConfig, UndoRemove,
     UndoData, UndoConfig, DropData, DropConfig, Aside, Put, Back, Drop, Fail, Step
  <2> QED
    BY <1>3, <2>1 DEF vars, AfterKill, Survives
<1>4. CASE Boot
  <2>1. /\ pc = "killed" /\ torn' = torn /\ ~torn /\ UNCHANGED <<aside, left>>
        /\ archive' \in {archive, NoPair}
    BY <1>4 DEF Boot
  <2>2. \A d \in {"data", "config"} : There(d)'
    BY <2>1 DEF Extant
  <2>3. \A d \in {"data", "config"} : There(d)' => (Survives(d, "old") \/ Survives(d, "new"))'
    BY DEF There, Found, Survives
  <2>4. CASE archive' = NoPair
    BY <2>2, <2>3, <2>4
  <2>5. CASE archive' = archive
    <3>1. live \in Pairs /\ (live' = live \/ (live.data \in DataTrees /\ Rewritten(live')))
      <4>1. live \in Pairs /\ TypeOK
        BY DEF ShapeInv, TypeOK
      <4>2. CASE Openable(live) /\ Started(Version(live))
        <5>1. PICK g \in Gens : IsPair(live, g)
          BY <2>1, <4>2, OpenableIsPair
        <5> QED
          BY <4>1, <4>2, <5>1, StartKeeps DEF IsPair
      <4> QED
        BY <1>4, <4>1, <4>2 DEF Boot, Started
    <3>2. /\ GenOf("data", live'["data"]) = GenOf("data", live["data"])
          /\ GenOf("config", live'["config"]) = GenOf("config", live["config"])
      BY <3>1, RewrittenGens
    <3>3. \A d \in {"data", "config"} :
            (Survives(d, "old") => Survives(d, "old")') /\ (Survives(d, "new") => Survives(d, "new")')
      BY <2>1, <2>5, <3>2 DEF Survives
    <3> QED
      BY <2>1, <2>5, <3>3 DEF AfterKill
  <2> QED
    BY <2>1, <2>4, <2>5
<1> QED
  BY <1>1, <1>2, <1>3, <1>4

LEMMA ShapeSurvives == ShapeInv /\ AfterKill => OldSurvives
<1> USE DEF Early, Undoing, Moving, Trying, Returning, Working, Steps
<1> SUFFICES ASSUME ShapeInv, AfterKill, report \notin {"restored", "abandoned"}
             PROVE  \A d \in {"data", "config"} :
                      Survives(d, "old") \/ (report = "killed" /\ archive = NoPair /\ Survives(d, "new"))
  BY DEF OldSurvives
<1>1. CASE pc = "killed"
  BY <1>1 DEF AfterKill, ShapeInv, Judged
<1>2. CASE pc # "killed"
  <2>1. IsPair(live, "old") \/ IsPair(archive, "old")
    BY <1>2 DEF ShapeInv, Versions, Judged
  <2> QED
    BY <2>1, OldIsThere
<1> QED
  BY <1>1, <1>2

----------------------------------------------------------------------------
(* Every open rule has a row, is among those carried over, or was opened   *)
(* by a synchronisation that came too late.                                *)

Recorded ==
    /\ pc \in Early \cup {"close", "recover", "restop", "reclose", "load"} =>
        open \subseteq live.data.fw \cup astray
    /\ job = "target" /\ pc \in Working \cup {"check", "verify"} => open \subseteq astray
    /\ job = "rollback" /\ pc \in Working =>
        IF why = "start" THEN blind \/ open \subseteq rescued \cup astray ELSE open \subseteq astray
    /\ pc = "merge" =>
        why = "start" /\ (blind \/ open \subseteq rescued \cup live.data.fw \cup astray)
    /\ pc = "restart" => blind \/ open \subseteq live.data.fw \cup astray
    /\ NothingOrphaned

LEMMA RecordedInit == Init => Recorded
BY DEF Init, Recorded, NothingOrphaned, Early, Undoing, Moving, Working

LEMMA RecordedPreparing ==
    ASSUME ShapeInv, Recorded,
           Edit \/ Crash \/ Lock \/ Stop \/ CleanVpnGate \/ MakeArchive \/ CleanupFirewall \/ Recover
    PROVE  Recorded'
<1> USE DEF Early, Undoing, Moving, Trying, Returning, Working, Steps
<1>1. /\ pc \in Early \cup {"close", "recover"} /\ job = "target" /\ IsPair(live, "old")
      /\ TypeOK /\ live.data \in DataTrees /\ live \in Pairs /\ open \subseteq live.data.fw \cup astray
  BY DEF ShapeInv, TypeOK, IsPair, Versions, Recorded, Edit, Crash, Lock, Stop, CleanVpnGate,
         MakeArchive, CleanupFirewall, Recover
<1>2. astray' = astray
  BY DEF Edit, Crash, Lock, Stop, CleanVpnGate, MakeArchive, CleanupFirewall, Recover, EndStarting, plan
<1>3. CASE EndStarting("kept")
  <2>1. open' \subseteq live'.data.fw \cup (open \ live.data.fw)
    BY <1>1, <1>3, StartKeeps DEF EndStarting, Gens
  <2> QED
    BY <1>1, <1>2, <1>3, <2>1 DEF EndStarting, End, Recorded, NothingOrphaned
<1>4. CASE CleanupFirewall
  <2>1. open' \subseteq live'.data.fw \cup (open \ live.data.fw)
    BY <1>1, <1>4, ClosedKeeps DEF CleanupFirewall
  <2>2. pc' = "recover" \/ (pc' = "stage" /\ open' = open \ live.data.fw /\ job' = "target")
    BY <1>1, <1>4 DEF CleanupFirewall, Closed
  <2> QED
    BY <1>1, <1>2, <2>1, <2>2 DEF Recorded, NothingOrphaned
<1>5. CASE Edit \/ Crash \/ Lock \/ Stop
  <2>1. pc' \in {"idle", "stop", "vpngate", "done"} /\ open' = open /\ live'.data.fw = live.data.fw
    <3>1. live'.data.fw = live.data.fw
      BY <1>1, <1>5, RewriteLog DEF Edit, Crash, Lock, Stop, trees, Oddities
    <3> QED
      BY <3>1, <1>5 DEF Edit, Crash, Lock, Stop, host, End
  <2> QED
    BY <1>1, <1>2, <2>1 DEF Recorded, NothingOrphaned
<1>6. CASE (CleanVpnGate \/ MakeArchive) /\ ~EndStarting("kept")
  <2>1. pc' \in {"archive", "close"} /\ open' = open /\ live' = live
    BY <1>6 DEF CleanVpnGate, MakeArchive, host, trees
  <2> QED
    BY <1>1, <1>2, <2>1 DEF Recorded, NothingOrphaned
<1> QED
  BY <1>3, <1>4, <1>5, <1>6 DEF Recover

LEMMA RecordedWorking ==
    ASSUME ShapeInv, Recorded, Replace \/ Returned
    PROVE  Recorded'
<1> USE DEF Early, Undoing, Moving, Trying, Returning, Working, Steps
<1>1. /\ pc \in Working /\ job \in {"target", "rollback"} /\ open' = open /\ blind' = blind
      /\ rescued' = rescued /\ astray' = astray
  BY DEF ShapeInv, TypeOK, Returned, Replace, Stage, AsideData, AsideConfig, PutData, PutConfig, UndoRemove,
         UndoData, UndoConfig, DropData, DropConfig, Aside, Put, Back, Drop, Fail, Step, host, plan
<1>2. CASE Replace
  <2>1. pc' \in Working /\ job' = job /\ why' = why
    BY <1>2 DEF Replace, Stage, AsideData, AsideConfig, PutData, PutConfig, UndoRemove,
         UndoData, UndoConfig, DropData, DropConfig, Aside, Put, Back, Drop, Fail, Step, plan
  <2> QED
    BY <1>1, <2>1 DEF Recorded, NothingOrphaned
<1>3. CASE Returned
  <2>1. \/ /\ pc' = IF job = "target" THEN "check" ELSE IF why = "start" THEN "merge" ELSE "restart"
           /\ UNCHANGED <<job, why>>
        \/ job = "target" /\ job' = "rollback" /\ why' = "restore" /\ pc' = "stage"
        \/ pc' = "done" /\ report' = "abandoned"
    BY <1>3 DEF Returned, GoBack, End
  <2> QED
    BY <1>1, <2>1 DEF Recorded, NothingOrphaned
<1> QED
  BY <1>2, <1>3

LEMMA RecordedTrying ==
    ASSUME ShapeInv, Recorded, Check \/ Verify \/ StopAgain \/ CleanupTarget \/ LoadRules
    PROVE  Recorded'
<1> USE DEF Early, Undoing, Moving, Trying, Returning, Working, Steps
<1>1. /\ pc \in Trying /\ job = "target" /\ IsPair(live, "new")
      /\ TypeOK /\ live.data \in DataTrees /\ live \in Pairs
      /\ open \subseteq live.data.fw \cup astray
      /\ pc \in {"check", "verify"} => open \subseteq astray
  BY DEF ShapeInv, TypeOK, IsPair, Versions, Recorded, Check, Verify, StopAgain, CleanupTarget, LoadRules
<1>2. astray' = astray
  BY DEF Check, Verify, StopAgain, CleanupTarget, LoadRules, plan
<1>3. CASE Check
  <2>1. pc = "check" /\ open' = open /\ pc' \in {"verify", "stage"}
        /\ (pc' = "verify" => job' = job) /\ (pc' = "stage" => job' = "rollback" /\ why' = "foreign")
    BY <1>3 DEF Check, GoBack, host
  <2> QED
    BY <1>1, <1>2, <2>1 DEF Recorded, NothingOrphaned
<1>4. CASE Verify
  <2>1. open' \subseteq live'.data.fw \cup (open \ live.data.fw)
    BY <1>1, <1>4, StartKeeps DEF Verify, Gens
  <2> QED
    BY <1>1, <1>2, <1>4, <2>1 DEF Verify, End, Recorded, NothingOrphaned
<1>5. CASE StopAgain
  BY <1>1, <1>2, <1>5 DEF StopAgain, trees, Recorded, NothingOrphaned
<1>6. CASE CleanupTarget
  <2>1. open' \subseteq live'.data.fw \cup (open \ live.data.fw)
    <3>1. CASE Closed({}, {})
      BY <1>1, <3>1, ClosedKeeps
    <3> QED
      BY <1>1, <1>6, <3>1, ClosedKeeps DEF CleanupTarget
  <2> QED
    BY <1>1, <1>2, <1>6, <2>1 DEF CleanupTarget, Recorded, NothingOrphaned
<1>7. CASE LoadRules
  <2>1. /\ open' = open /\ pc' = "stage" /\ job' = "rollback" /\ why' = "start"
        /\ rescued' = live.data.fw \/ blind' = TRUE
    BY <1>7 DEF LoadRules, GoBack, host
  <2> QED
    BY <1>1, <1>2, <2>1 DEF Recorded, NothingOrphaned
<1> QED
  BY <1>3, <1>4, <1>5, <1>6, <1>7

LEMMA RecordedReturning ==
    ASSUME ShapeInv, Recorded, MergeRules \/ Restart
    PROVE  Recorded'
<1> USE DEF Early, Undoing, Moving, Trying, Returning, Working, Steps
<1>1. /\ pc \in Returning /\ job = "rollback" /\ IsPair(live, "old")
      /\ TypeOK /\ live.data \in DataTrees /\ live \in Pairs
      /\ live.data.fw \subseteq Rules /\ rescued \subseteq Rules
  BY DEF ShapeInv, TypeOK, IsPair, Versions, MergeRules, Restart, DataTrees
<1>2. astray' = astray
  BY DEF MergeRules, Restart, plan
<1>3. CASE MergeRules
  <2>1. /\ pc = "merge" /\ open' = open
        /\ \/ pc' = "done" /\ blind' = TRUE
           \/ /\ pc' = "restart" /\ blind' = blind
              /\ live' = [live EXCEPT !.data.fw = live.data.fw \cup rescued]
    BY <1>3 DEF MergeRules, End, host
  <2>2. pc' = "restart" => live'.data.fw = live.data.fw \cup rescued
    BY <1>1, <2>1, RewriteRows
  <2> QED
    BY <1>2, <2>1, <2>2 DEF Recorded, NothingOrphaned
<1>4. CASE Restart
  <2>1. open' \subseteq live'.data.fw \cup (open \ live.data.fw)
    BY <1>1, <1>4, StartKeeps DEF Restart, Gens
  <2>2. pc = "restart" /\ pc' = "done" /\ blind' = blind
    BY <1>4 DEF Restart, End, plan
  <2> QED
    BY <1>2, <2>1, <2>2 DEF Recorded, NothingOrphaned
<1> QED
  BY <1>3, <1>4

\* A synchronisation that nobody asked for leaves rows of what it opened where
\* the command will look, or its openings are among those that came too late.
LEMMA RecordedResync ==
    ASSUME ShapeInv, Recorded, Resync
    PROVE  Recorded'
<1> USE DEF Early, Undoing, Moving, Trying, Returning, Working, Steps
<1>1. UNCHANGED <<pc, job, why, rescued, report, blind>> /\ pc # "killed"
  BY DEF Resync, Watching, Unstopped
<1>2. astray \subseteq astray'
  BY DEF Resync, Strayed
<1>3. CASE PartSynced /\ pc \in Attended
  <2>1. open' \subseteq live'.data.fw \cup (open \ live.data.fw)
    BY <1>3, PartSyncedKeeps DEF ShapeInv, PartSynced, Whole
  <2> QED
    BY <1>1, <1>2, <1>3, <2>1 DEF Recorded, NothingOrphaned, Attended
<1>4. CASE PartSynced /\ Strayed
  <2>1. open' \subseteq live'.data.fw \cup (open \ live.data.fw) /\ open' \subseteq open \cup astray'
    BY <1>4, PartSyncedKeeps DEF ShapeInv, PartSynced, Whole, Strayed
  <2> QED
    BY <1>1, <1>2, <2>1 DEF Recorded, NothingOrphaned
<1>5. CASE Strayed /\ live' = live
  <2>1. open' \subseteq open \cup astray'
    BY <1>5 DEF Strayed
  <2> QED
    BY <1>1, <1>2, <1>5, <2>1 DEF Recorded, NothingOrphaned
<1> QED
  BY <1>3, <1>4, <1>5 DEF Resync

LEMMA RecordedNext == ShapeInv /\ Recorded /\ [Next]_vars => Recorded'
<1> SUFFICES ASSUME ShapeInv, Recorded, [Next]_vars PROVE Recorded'
  OBVIOUS
<1>1. CASE UNCHANGED vars
  BY <1>1 DEF vars, Recorded, NothingOrphaned
<1>2. CASE Kill \/ Boot
  BY <1>2 DEF Kill, Boot, Recorded, NothingOrphaned, Early, Undoing, Moving, Working
<1>3. CASE Command
  BY <1>3, RecordedPreparing, RecordedWorking, RecordedTrying, RecordedReturning DEF Command
<1> QED
  BY <1>1, <1>2, <1>3, RecordedPreparing, RecordedResync DEF Next

----------------------------------------------------------------------------
(* While the second stop of the services is not ignored, nothing runs      *)
(* between the first stop and the verdict but the backup on trial.         *)

Quiet ==
    /\ pc \in {"idle", "stop"} => up \in {"old", None}
    /\ pc = "restop" => up \in {"new", None}
    /\ pc \notin {"idle", "stop", "restop", "done", "killed"} => up = None

LEMMA QuietInit == Init => Quiet
BY DEF Init, Quiet

LEMMA QuietNext ==
    ASSUME "restop" \notin Faults
    PROVE  ShapeInv /\ Quiet /\ [Next]_vars => Quiet'
<1> SUFFICES ASSUME ShapeInv, Quiet, [Next]_vars PROVE Quiet'
  OBVIOUS
<1>1. CASE UNCHANGED vars
  BY <1>1 DEF vars, Quiet
<1>2. CASE Edit \/ Crash \/ Lock \/ Kill \/ Boot \/ Resync
  BY <1>2 DEF Edit, Crash, Lock, Kill, Boot, Resync, host, Quiet
<1>3. CASE Stop \/ CleanVpnGate \/ MakeArchive \/ CleanupFirewall \/ Recover
  BY <1>3 DEF Stop, CleanVpnGate, MakeArchive, CleanupFirewall, Recover, EndStarting, End, host, Quiet
<1>4. CASE Replace
  <2>1. pc \notin {"idle", "stop", "restop", "done", "killed"} /\ up' = up
        /\ pc' \notin {"idle", "stop", "restop", "done", "killed"}
    BY <1>4 DEF Replace, Stage, AsideData, AsideConfig, PutData, PutConfig, UndoRemove,
         UndoData, UndoConfig, DropData, DropConfig, Aside, Put, Back, Drop, Fail, Step, host
  <2> QED
    BY <2>1 DEF Quiet
<1>5. CASE Verify
  <2>1. IsPair(live, "new") /\ TypeOK /\ pc = "verify" /\ up = None
    BY <1>5 DEF Verify, ShapeInv, Versions, Trying, Quiet
  <2>2. up' \in {"new", None}
    BY <1>5, <2>1, StartKeeps DEF Verify, Gens
  <2> QED
    BY <1>5, <2>2 DEF Verify, End, Quiet
<1>6. CASE Returned \/ Check \/ CleanupTarget \/ LoadRules \/ MergeRules \/ Restart
  BY <1>6 DEF Returned, Check, CleanupTarget, LoadRules, MergeRules, Restart, GoBack, End, host, Quiet
<1>7. CASE StopAgain
  BY <1>7 DEF StopAgain, Fault, Quiet
<1> QED
  BY <1>1, <1>2, <1>3, <1>4, <1>5, <1>6, <1>7 DEF Next, Command

LEMMA ContractInit == Init => Contract!Init
BY PlacesAssumption DEF Init, Contract!Init, Keys, Gens

\* The steps of the contract, in the variables of the command.
LEMMA ContractSteps ==
    ASSUME ShapeInv, up' \in Gens \cup {None}
    PROVE  /\ up' = up /\ report' = report /\ (pc' = "idle" <=> pc = "idle")
                => UNCHANGED (Contract!vars)
           /\ pc = "idle" /\ pc' = "idle" /\ up' \in {"old", None} /\ report' = report
                => Contract!Services
           /\ pc = "killed" /\ pc' = "killed" /\ report' = report => Contract!Services
           /\ pc = "idle" /\ pc' = "stop" /\ up' = up /\ report' = report => Contract!Begin
           /\ (/\ pc \notin {"idle", "done", "killed"} /\ pc' # "idle" /\ report' = report
               /\ up' = None \/ (up' = "new" /\ up # "old"))
                => Contract!Swap
<1>1. None \notin {"old", "new"} /\ up \in Gens \cup {None}
  BY PlacesAssumption DEF Keys, Gens, ShapeInv, TypeOK
<1>2. /\ pc \notin {"done", "killed"} => report = "none"
      /\ pc = "killed" => report = "killed"
  BY DEF ShapeInv, Judged
<1>3. up' = up /\ report' = report /\ (pc' = "idle" <=> pc = "idle") => UNCHANGED (Contract!vars)
  BY DEF Contract!vars
<1>4. pc = "idle" /\ pc' = "idle" /\ up' \in {"old", None} /\ report' = report => Contract!Services
  BY <1>1 DEF Contract!Services, Contract!Versions
<1>5. pc = "killed" /\ pc' = "killed" /\ report' = report => Contract!Services
  BY <1>1, <1>2 DEF Contract!Services, Contract!Versions, Gens
<1>6. pc = "idle" /\ pc' = "stop" /\ up' = up /\ report' = report => Contract!Begin
  BY <1>2 DEF Contract!Begin
<1>7. (/\ pc \notin {"idle", "done", "killed"} /\ pc' # "idle" /\ report' = report
       /\ up' = None \/ (up' = "new" /\ up # "old"))
        => Contract!Swap
  BY <1>1, <1>2 DEF Contract!Swap
<1> QED
  BY <1>3, <1>4, <1>5, <1>6, <1>7

LEMMA ContractFinish ==
    ASSUME ShapeInv, pc \notin {"idle", "done", "killed"}, up' \in Gens \cup {None},
           pc' \in {"done", "killed"},
           \/ report' = "restored" /\ up' = "new"
           \/ report' = "previous" /\ up' = "old"
           \/ report' = "kept" /\ up' \in {"old", None}
           \/ report' = "abandoned" /\ up' = None
           \/ report' = "killed" /\ up' = up
    PROVE  Contract!Finish
<1>1. None \notin {"old", "new"}
  BY PlacesAssumption DEF Keys, Gens
<1>2. report = "none"
  BY DEF ShapeInv, Judged
<1> QED
  BY <1>1, <1>2 DEF Contract!Finish, Contract!Verdicts

LEMMA ContractNext ==
    ASSUME ShapeInv, ShapeInv', Quiet, Quiet', [Next]_vars
    PROVE  [Contract!Next]_(Contract!vars)
<1> USE DEF Early, Undoing, Moving, Trying, Returning, Working, Steps
<1>1. /\ TypeOK /\ Versions /\ Judged /\ up \in Gens \cup {None} /\ up' \in Gens \cup {None}
      /\ None \notin {"old", "new"}
  BY PlacesAssumption DEF ShapeInv, TypeOK, Keys, Gens
<1>2. CASE up' = up /\ report' = report /\ (pc' = "idle" <=> pc = "idle")
  BY <1>1, <1>2, ContractSteps
<1>3. CASE UNCHANGED vars
  BY <1>2, <1>3 DEF vars
<1>4. CASE Edit \/ CleanupFirewall \/ Check \/ CleanupTarget \/ LoadRules \/ Resync
  BY <1>2, <1>4 DEF Edit, Resync, CleanupFirewall, Check, CleanupTarget, LoadRules, GoBack, host
<1>5. CASE Crash
  BY <1>1, <1>5, ContractSteps DEF Crash, Contract!Next
<1>6. CASE Lock
  BY <1>1, <1>6, ContractSteps DEF Lock, host, Contract!Next
<1>7. CASE Stop
  BY <1>1, <1>7, ContractSteps, ContractFinish DEF Stop, End, Quiet, Contract!Next
<1>8. CASE CleanVpnGate \/ MakeArchive \/ Recover
  <2>1. /\ pc \in {"vpngate", "archive", "recover"} /\ up = None /\ IsPair(live, "old")
    BY <1>1, <1>8 DEF CleanVpnGate, MakeArchive, Recover, Quiet, Versions
  <2>2. CASE EndStarting("kept")
    <3>1. up' \in {"old", None}
      BY <1>1, <2>1, <2>2, StartKeeps DEF EndStarting, Gens
    <3> QED
      BY <1>1, <2>1, <2>2, <3>1, ContractFinish DEF EndStarting, End, Contract!Next
  <2>3. CASE ~EndStarting("kept")
    BY <1>2, <1>8, <2>1, <2>3 DEF CleanVpnGate, MakeArchive, Recover, host
  <2> QED
    BY <2>2, <2>3
<1>9. CASE Replace
  <2>1. pc # "idle" /\ pc' # "idle" /\ up' = up /\ report' = report
    BY <1>9 DEF Replace, Stage, AsideData, AsideConfig, PutData, PutConfig, UndoRemove,
         UndoData, UndoConfig, DropData, DropConfig, Aside, Put, Back, Drop, Fail, Step, host
  <2> QED
    BY <1>2, <2>1
<1>10. CASE Returned
  <2>1. /\ pc = "returned" /\ pc' # "idle" /\ up' = up /\ up = None
        /\ report' = report \/ (pc' = "done" /\ report' = "abandoned")
    BY <1>10 DEF Returned, GoBack, End, host, Quiet
  <2> QED
    BY <1>1, <1>2, <2>1, ContractFinish DEF Contract!Next
<1>11. CASE Verify
  <2>1. pc = "verify" /\ up = None /\ IsPair(live, "new")
    BY <1>1, <1>11 DEF Verify, Quiet, Versions
  <2>2. up' \in {"new", None}
    BY <1>1, <1>11, <2>1, StartKeeps DEF Verify, Gens
  <2>3. CASE pc' = "restop" /\ report' = report
    BY <1>1, <2>1, <2>2, <2>3, ContractSteps DEF Contract!Next
  <2>4. CASE Started(Version(live)) /\ End("restored")
    <3>1. up' = "new"
      <4>1. Version(live) = "new"
        BY <2>1 DEF IsPair, Version, Whole, Keys, Gens
      <4> QED
        BY <2>1, <2>4, <4>1 DEF Started
    <3> QED
      BY <1>1, <2>1, <2>4, <3>1, ContractFinish DEF End, Contract!Next
  <2> QED
    BY <1>11, <2>3, <2>4 DEF Verify
<1>12. CASE StopAgain
  <2>1. pc = "restop" /\ pc' = "reclose" /\ report' = report /\ up' = None
    BY <1>12 DEF StopAgain, Quiet
  <2> QED
    BY <1>1, <2>1, ContractSteps DEF Contract!Next
<1>13. CASE MergeRules
  <2>1. /\ pc = "merge" /\ pc' # "idle" /\ up' = up /\ up = None
        /\ report' = report \/ (pc' = "done" /\ report' = "kept")
    BY <1>13 DEF MergeRules, End, host, Quiet
  <2> QED
    BY <1>1, <1>2, <2>1, ContractFinish DEF Contract!Next
<1>14. CASE Restart
  <2>1. pc = "restart" /\ up = None /\ IsPair(live, "old")
    BY <1>1, <1>14 DEF Restart, Quiet, Versions
  <2>2. up' \in {"old", None}
    BY <1>1, <1>14, <2>1, StartKeeps DEF Restart, Gens
  <2>3. CASE End("kept")
    BY <1>1, <2>1, <2>2, <2>3, ContractFinish DEF End, Contract!Next
  <2>4. CASE Started(Version(live)) /\ End("previous")
    <3>1. up' = "old"
      <4>1. Version(live) = "old"
        BY <2>1 DEF IsPair, Version, Whole, Keys, Gens
      <4> QED
        BY <2>1, <2>4, <4>1 DEF Started
    <3> QED
      BY <1>1, <2>1, <2>4, <3>1, ContractFinish DEF End, Contract!Next
  <2> QED
    BY <1>14, <2>3, <2>4 DEF Restart
<1>15. CASE Kill
  BY <1>1, <1>15, ContractFinish DEF Kill, host, Contract!Next
<1>16. CASE Boot
  BY <1>1, <1>16, ContractSteps DEF Boot, Contract!Next
<1> QED
  BY <1>3, <1>4, <1>5, <1>6, <1>7, <1>8, <1>9, <1>10, <1>11, <1>12, <1>13, <1>14, <1>15, <1>16
  DEF Next, Command

----------------------------------------------------------------------------
(* The theorems.                                                           *)

\* The shape of the state, the versions in each place by step of the command,
\* and how the two directories may stand side by side while they are renamed.
THEOREM ShapeHolds == Spec => []ShapeInv
BY ShapeInit, ShapeNext, PTL DEF Spec

\* Whatever fails and whenever the command is killed, the directories that
\* replaceTreeWithOps has moved are never a database of one version beside the
\* key of another, unless a removal failed.
THEOREM NeverMixedHolds == Spec => []NeverMixed
BY ShapeHolds, ShapeMixed, PTL

\* The previous state can be found in place, aside or in the rollback archive
\* until the command reports success or that the way back failed; a reboot that
\* empties the temporary directory can take it only after a kill, and only where
\* the directory of the backup had replaced it.
THEOREM OldSurvivesHolds == Spec => []OldSurvives
<1>1. Init => Extant /\ AfterKill
  BY ExtantInit
<1>2. ShapeInv /\ ShapeInv' /\ Extant /\ [Next]_vars => Extant'
  BY ExtantNext
<1>3. ShapeInv /\ ShapeInv' /\ Extant /\ Extant' /\ AfterKill /\ [Next]_vars => AfterKill'
  BY AfterKillNext
<1> QED
  BY <1>1, <1>2, <1>3, ShapeHolds, ShapeSurvives, PTL DEF Spec

\* A rule that is open when the command ends is a row of the database in
\* place, unless the message says that the rules could not be carried over, or
\* the watcher of an application that the command opened, or a service that
\* ignored the second stop, opened it when its database had been dealt with.
THEOREM NothingOrphanedHolds == Spec => []NothingOrphaned
<1>1. Recorded => NothingOrphaned
  BY DEF Recorded
<1> QED
  BY <1>1, ShapeHolds, RecordedInit, RecordedNext, PTL DEF Spec

\* Every step of the command is a step of its contract, or none: what is
\* served and what the command reports agree, as long as the services do stop
\* when restoreCommand stops them for the second time.
THEOREM ContractSafety ==
    ASSUME "restop" \notin Faults
    PROVE  Spec => Contract!Init /\ [][Contract!Next]_(Contract!vars)
<1>1. ShapeInv /\ Quiet /\ [Next]_vars => Quiet'
  BY QuietNext
<1>2. ShapeInv /\ ShapeInv' /\ Quiet /\ Quiet' /\ [Next]_vars => [Contract!Next]_(Contract!vars)
  BY ContractNext
<1> QED
  BY <1>1, <1>2, ShapeHolds, QuietInit, ContractInit, PTL DEF Spec
=============================================================================
