------------------------- MODULE VpnGateExitsProofs -------------------------
(***************************************************************************)
(* Proofs about VpnGateExits, for any number of slots and candidates, with *)
(* every failure, stuck clean-up and kill that the model has.              *)
(*                                                                         *)
(* That a tunnel always has its row, and that a running row names its      *)
(* tunnel, depend on what the holder of the mutex is doing: Places says    *)
(* which row it works on, QueueHeld that no row behind it in the pass can  *)
(* disappear, and Connecting rows are not shown as running (Tunnels).      *)
(*                                                                         *)
(* That no two exits are connected to one candidate needs DInv, further    *)
(* down, which holds while clean-ups succeed and writes are made.          *)
(***************************************************************************)
EXTENDS VpnGateExits, TLAPS

Working == {"restore", "swap", "try", "provision", "persist", "fault", "block", "drop"}
Connecting == {"try", "provision", "persist", "fault"}

Places ==
    /\ pc \in Working => cur \in Used
    /\ pc \in {"free", "visit"} => kind = "none"
    /\ pc = "drop" => kind = "delete"

QueueHeld ==
    /\ queue \subseteq Used
    /\ (pc # "visit" /\ ~InPass) => queue = {}

Tunnels ==
    /\ pc \in Connecting => rows[cur].status # "running"
    /\ pc = "persist" => tunnel[cur] \in {Down, rows[cur].cand}
    /\ pc = "drop" => tunnel[cur] = Down

IInv == TypeOK /\ NoOrphanTunnel /\ RunningIsRecorded /\ Places /\ QueueHeld /\ Tunnels

----------------------------------------------------------------------------
(* Rows, and how an operation ends.                                        *)

\* The catalog is not empty, so the blank locals are well typed.
LEMMA AnyoneIsCand == Anyone \in Cands
BY ExitAssumption DEF Anyone

\* ... and there is a first slot.
LEMMA FirstSlot == 1 \in Slots
BY ExitAssumption DEF Slots

\* A slot in use holds an exit.
LEMMA UsedRow ==
    ASSUME TypeOK, NEW s \in Used
    PROVE  s \in Slots /\ rows[s] \in Exits
BY DEF TypeOK, Used

\* An edited row is a row, and only the edited columns differ.
LEMMA RowEdit ==
    ASSUME NEW e \in Exits, NEW st \in Statuses, NEW c \in Cands
    PROVE  /\ [e EXCEPT !.status = st] \in Exits
           /\ [e EXCEPT !.status = st].status = st
           /\ [e EXCEPT !.status = st].cand = e.cand
           /\ [e EXCEPT !.cand = c] \in Exits
           /\ [e EXCEPT !.cand = c].status = e.status
           /\ [e EXCEPT !.cand = c].cand = c
BY DEF Exits

LEMMA FaultedRow ==
    ASSUME NEW e \in Exits, NEW c \in Cands
    PROVE  /\ [e EXCEPT !.status = "faulted", !.cand = c] \in Exits
           /\ [e EXCEPT !.status = "faulted", !.cand = c].status = "faulted"
BY DEF Exits, Statuses

\* A write changes the one row and keeps the types.
LEMMA WriteRow ==
    ASSUME TypeOK, NEW s \in Slots, NEW e \in Exits \cup {NoExit}, Write(s, e)
    PROVE  /\ rows' \in [Slots -> Exits \cup {NoExit}]
           /\ health' \in [Slots -> {"none", "pending", "well", "ill"}]
           /\ rows'[s] = e
           /\ \A t \in Slots \ {s} : rows'[t] = rows[t]
BY DEF TypeOK, Write

\* A clean-up, complete or not, leaves each tunnel as it was or takes it down.
LEMMA StopTunnel ==
    ASSUME TypeOK, NEW s \in Slots, StopOK(s) \/ StopFails(s)
    PROVE  /\ tunnel' \in [Slots -> Cands \cup {Down}]
           /\ tunnel'[s] \in {Down, tunnel[s]}
           /\ \A t \in Slots \ {s} : tunnel'[t] = tunnel[t]
           /\ StopOK(s) => tunnel'[s] = Down
BY DEF TypeOK, StopOK, StopFails

\* What the parts of the state that describe the operation look like when it
\* goes on, returns, or makes way for the next one.
EndsWell ==
    /\ pc' \in {"free", "visit", "swap", "block"}
    /\ pc' \in {"swap", "block"} => cur' = cur
    /\ pc' \in {"free", "visit"} => kind' = "none"
    /\ kind' \in {"none", "create", "swap", "delete", "restore", "autoswap", "faultswap"}
    /\ cur' \in Slots
    /\ tries' \subseteq Cands
    /\ orig' \in Cands
    /\ queue' \subseteq queue
    /\ (pc' # "visit" /\ ~InPass') => queue' = {}

LEMMA DoneEnds ==
    ASSUME TypeOK, QueueHeld, pc # "visit", Done
    PROVE  EndsWell
<1>1. kind' = "none" /\ cur' = 1 /\ tries' = {} /\ orig' \in Cands
  BY AnyoneIsCand DEF Done, Blank
<1>2. pc' \in {"free", "visit"} /\ queue' \subseteq queue
  BY DEF Done, Advance
<1>3. pc' # "visit" => queue' = {}
  BY DEF Done, Advance, QueueHeld
<1> QED BY <1>1, <1>2, <1>3, FirstSlot DEF EndsWell

LEMMA FailEnds ==
    ASSUME TypeOK, QueueHeld, pc # "visit", Fail
    PROVE  EndsWell
<1>1. CASE kind \in {"create", "swap", "faultswap"} /\ Done
  BY <1>1, DoneEnds
<1>2. CASE ~(kind \in {"create", "swap", "faultswap"} /\ Done)
  BY <1>2 DEF Fail, TypeOK, QueueHeld, EndsWell, InPass, job
<1> QED BY <1>1, <1>2

----------------------------------------------------------------------------
(* Steps that change one slot.                                             *)

\* The change of one row and its tunnel keeps the two properties when it does
\* so in that slot.
LEMMA OneSlot ==
    ASSUME TypeOK, NoOrphanTunnel, RunningIsRecorded, NEW s \in Slots,
           \A t \in Slots \ {s} : rows'[t] = rows[t] /\ tunnel'[t] = tunnel[t],
           tunnel'[s] # Down => rows'[s] # NoExit,
           (rows'[s] # NoExit /\ rows'[s].status = "running")
               => tunnel'[s] \in {Down, rows'[s].cand}
    PROVE  /\ NoOrphanTunnel'
           /\ RunningIsRecorded'
           /\ \A t \in Slots \ {s} : t \in Used' <=> t \in Used
BY DEF NoOrphanTunnel, RunningIsRecorded, Used

\* An operation on an exit that ends, and leaves the exit its row.
LEMMA EndStep ==
    ASSUME IInv, cur \in Used, EndsWell,
           rows' \in [Slots -> Exits \cup {NoExit}],
           health' \in [Slots -> {"none", "pending", "well", "ill"}],
           tunnel' \in [Slots -> Cands \cup {Down}],
           UNCHANGED <<probing, fails>>,
           \A t \in Slots \ {cur} : rows'[t] = rows[t] /\ tunnel'[t] = tunnel[t],
           rows'[cur] # NoExit,
           rows'[cur].status = "running" => tunnel'[cur] \in {Down, rows'[cur].cand}
    PROVE  IInv'
<1>1. cur \in Slots
  BY DEF Used
<1>2. /\ NoOrphanTunnel' /\ RunningIsRecorded'
      /\ \A t \in Slots \ {cur} : t \in Used' <=> t \in Used
  BY <1>1, OneSlot DEF IInv
<1>3. cur \in Used' /\ Used \subseteq Used'
  BY <1>1, <1>2 DEF Used
<1>4. TypeOK'
  BY DEF IInv, TypeOK, EndsWell
<1>5. Places'
  BY <1>3 DEF Places, EndsWell, Working
<1>6. QueueHeld'
  BY <1>3 DEF IInv, QueueHeld, EndsWell
<1>7. Tunnels'
  BY DEF EndsWell, Tunnels, Connecting
<1> QED BY <1>2, <1>4, <1>5, <1>6, <1>7 DEF IInv

\* An operation on an exit that goes on to a next step.
LEMMA GoOnStep ==
    ASSUME IInv, cur \in Used, pc \in Working \ {"drop"},
           rows' \in [Slots -> Exits \cup {NoExit}],
           health' \in [Slots -> {"none", "pending", "well", "ill"}],
           tunnel' \in [Slots -> Cands \cup {Down}],
           UNCHANGED <<probing, fails, kind, cur, orig, queue>>,
           tries' \subseteq Cands,
           pc' \in Connecting,
           \A t \in Slots \ {cur} : rows'[t] = rows[t] /\ tunnel'[t] = tunnel[t],
           rows'[cur] # NoExit,
           rows'[cur].status # "running",
           pc' = "persist" => tunnel'[cur] \in {Down, rows'[cur].cand}
    PROVE  IInv'
<1>1. cur \in Slots
  BY DEF Used
<1>2. /\ NoOrphanTunnel' /\ RunningIsRecorded'
      /\ \A t \in Slots \ {cur} : t \in Used' <=> t \in Used
  BY <1>1, OneSlot DEF IInv
<1>3. cur \in Used' /\ Used \subseteq Used'
  BY <1>1, <1>2 DEF Used
<1>4. TypeOK'
  BY DEF IInv, TypeOK, Connecting
<1>5. Places'
  BY <1>3 DEF Places, Connecting
<1>6. QueueHeld'
  BY <1>3 DEF IInv, QueueHeld, Connecting, Working, InPass
<1>7. Tunnels'
  BY DEF Tunnels, Connecting
<1> QED BY <1>2, <1>4, <1>5, <1>6, <1>7 DEF IInv

\* An operation that fails and leaves its exit marked faulted, its tunnel
\* cleaned up or not.
LEMMA FaultedStep ==
    ASSUME IInv, cur \in Used, pc # "visit", Fail,
           NEW e \in Exits, e.status = "faulted", Write(cur, e),
           StopOK(cur) \/ StopFails(cur) \/ UNCHANGED tunnel,
           UNCHANGED <<probing, fails>>
    PROVE  IInv'
<1>1. TypeOK /\ QueueHeld /\ cur \in Slots /\ e # NoExit
  BY NoExitAssumption DEF IInv, Used
<1>2. /\ tunnel' \in [Slots -> Cands \cup {Down}]
      /\ \A t \in Slots \ {cur} : tunnel'[t] = tunnel[t]
  BY <1>1, StopTunnel DEF TypeOK
<1>3. /\ rows' \in [Slots -> Exits \cup {NoExit}]
      /\ health' \in [Slots -> {"none", "pending", "well", "ill"}]
      /\ rows'[cur] = e
      /\ \A t \in Slots \ {cur} : rows'[t] = rows[t]
  BY <1>1, WriteRow
<1>4. EndsWell
  BY <1>1, FailEnds
<1> QED BY <1>1, <1>2, <1>3, <1>4, EndStep

----------------------------------------------------------------------------
(* The steps of an operation.                                              *)

\* Restore, Block, Swap, Try, Provision, Persist, Fault and Drop, each with
\* its failures, keep the invariant.
LEMMA OperationStep ==
    ASSUME IInv, Operation
    PROVE  IInv'
<1> USE DEF Statuses
<1>a. TypeOK /\ NoOrphanTunnel /\ RunningIsRecorded /\ Places /\ QueueHeld /\ Tunnels
  BY DEF IInv
<1>b. pc \in Working
  BY DEF Operation, Restore, Block, Swap, Try, Provision, Persist, Fault, Drop, Working
<1>c. cur \in Used /\ cur \in Slots /\ rows[cur] \in Exits /\ orig \in Cands
  BY <1>a, <1>b, UsedRow DEF Places, TypeOK
<1>d. rows[cur] # NoExit /\ pc # "visit"
  BY <1>b, <1>c, NoExitAssumption DEF Working
<1>e. ASSUME NoWrite
      PROVE  /\ rows' \in [Slots -> Exits \cup {NoExit}]
             /\ health' \in [Slots -> {"none", "pending", "well", "ill"}]
             /\ \A t \in Slots : rows'[t] = rows[t]
  BY <1>a, <1>e DEF NoWrite, TypeOK
<1>f. ASSUME UNCHANGED tunnel
      PROVE  /\ tunnel' \in [Slots -> Cands \cup {Down}]
             /\ \A t \in Slots : tunnel'[t] = tunnel[t]
  BY <1>a, <1>f DEF TypeOK
<1>g. rows[cur].status = "running" => tunnel[cur] \in {Down, rows[cur].cand}
  BY <1>a, <1>c DEF RunningIsRecorded
<1>1. CASE Restore
  <2>1. CASE /\ Write(cur, [rows[cur] EXCEPT !.status = "provisioning"])
             /\ pc' = "provision"
             /\ UNCHANGED <<job, queue>>
    <3>1. UNCHANGED <<tunnel, probing, fails>> /\ pc # "drop"
      BY <1>1 DEF Restore
    <3>2. [rows[cur] EXCEPT !.status = "provisioning"] \in Exits
      BY <1>c, RowEdit
    <3>3. [rows[cur] EXCEPT !.status = "provisioning"].status = "provisioning"
      BY <1>c, RowEdit
    <3>4. tries' \subseteq Cands
      BY <1>a, <2>1 DEF TypeOK, job
    <3> QED BY <1>a, <1>b, <1>c, <1>f, <2>1, <3>1, <3>2, <3>3, <3>4, WriteRow, GoOnStep, NoExitAssumption
            DEF IInv, Connecting, job
  <2>2. CASE Fail /\ NoWrite
    BY <1>1, <1>a, <1>c, <1>d, <1>e, <1>f, <1>g, <2>2, FailEnds, EndStep DEF Restore
  <2> QED BY <1>1, <2>1, <2>2 DEF Restore

<1>2. CASE Block
  <2> DEFINE e == [rows[cur] EXCEPT !.status = "faulted", !.cand = orig]
  <2>1. e \in Exits /\ e.status = "faulted"
    BY <1>c, FaultedRow
  <2>2. /\ tunnel' \in [Slots -> Cands \cup {Down}]
        /\ tunnel'[cur] \in {Down, tunnel[cur]}
        /\ \A t \in Slots \ {cur} : tunnel'[t] = tunnel[t]
    BY <1>2, <1>a, <1>c, StopTunnel DEF Block
  <2>3. EndsWell /\ UNCHANGED <<probing, fails>>
    <3>1. kind' = "none" /\ cur' \in Slots /\ tries' \subseteq Cands /\ orig' \in Cands
      BY <1>2, AnyoneIsCand, FirstSlot DEF Block, Blank
    <3>2. \/ pc' = "visit" /\ queue' \subseteq queue
          \/ pc' = "free" /\ queue' = {}
      BY <1>2 DEF Block, Advance, Abort
    <3> QED BY <1>2, <3>1, <3>2 DEF EndsWell, Block
  <2> HIDE DEF e
  <2>4. CASE Write(cur, e)
    BY <1>a, <1>c, <2>1, <2>2, <2>3, <2>4, WriteRow, EndStep, NoExitAssumption
  <2>5. CASE NoWrite
    BY <1>c, <1>d, <1>e, <1>g, <2>2, <2>3, <2>5, EndStep
  <2> QED BY <1>2, <2>4, <2>5 DEF Block, e
<1>3. CASE Swap
  <2>1. UNCHANGED <<probing, fails>> /\ pc # "drop"
    BY <1>3 DEF Swap
  <2>2. CASE /\ StopOK(cur)
             /\ Write(cur, [rows[cur] EXCEPT !.status = "swapping"])
             /\ tries' = Cands \ (Taken(cur) \cup {rows[cur].cand})
             /\ pc' = "try"
             /\ UNCHANGED <<kind, cur, orig, queue>>
    <3>1. /\ [rows[cur] EXCEPT !.status = "swapping"] \in Exits
          /\ [rows[cur] EXCEPT !.status = "swapping"].status = "swapping"
      BY <1>c, RowEdit
    <3> DEFINE e == [rows[cur] EXCEPT !.status = "swapping"]
    <3> HIDE DEF e
    <3>2. e \in Exits /\ e.status = "swapping" /\ e # NoExit /\ Write(cur, e)
      BY <2>2, <3>1, NoExitAssumption DEF e
    <3>3. tries' \subseteq Cands /\ pc' \in Connecting /\ pc' # "persist"
      BY <2>2 DEF Connecting
    <3>4. /\ tunnel' \in [Slots -> Cands \cup {Down}]
          /\ \A t \in Slots \ {cur} : tunnel'[t] = tunnel[t]
      BY <1>a, <1>c, <2>2, StopTunnel
    <3>5. /\ rows' \in [Slots -> Exits \cup {NoExit}]
          /\ health' \in [Slots -> {"none", "pending", "well", "ill"}]
          /\ rows'[cur] = e
          /\ \A t \in Slots \ {cur} : rows'[t] = rows[t]
      BY <1>a, <1>c, <3>2, WriteRow
    <3> QED BY <1>b, <1>c, <2>1, <2>2, <3>2, <3>3, <3>4, <3>5, GoOnStep
  <2>3. CASE /\ StopOK(cur) \/ StopFails(cur) \/ UNCHANGED tunnel
             /\ NoWrite
             /\ Fail
    <3>1. /\ tunnel' \in [Slots -> Cands \cup {Down}]
          /\ tunnel'[cur] \in {Down, tunnel[cur]}
          /\ \A t \in Slots \ {cur} : tunnel'[t] = tunnel[t]
      BY <1>a, <1>c, <1>f, <2>3, StopTunnel
    <3> QED BY <1>a, <1>c, <1>d, <1>e, <1>g, <2>1, <2>3, <3>1, FailEnds, EndStep
  <2>4. CASE /\ StopFails(cur)
             /\ Write(cur, [rows[cur] EXCEPT !.status = "faulted"])
             /\ Fail
    <3>1. /\ [rows[cur] EXCEPT !.status = "faulted"] \in Exits
          /\ [rows[cur] EXCEPT !.status = "faulted"].status = "faulted"
      BY <1>c, RowEdit
    <3> QED BY <1>c, <1>d, <2>1, <2>4, <3>1, FaultedStep
  <2> QED BY <1>3, <2>2, <2>3, <2>4 DEF Swap, NoWrite
<1>4. CASE Try
  <2>1. UNCHANGED <<tunnel, probing, fails>> /\ pc = "try"
    BY <1>4 DEF Try
  <2>2. rows[cur].status # "running"
    BY <1>a, <2>1 DEF Tunnels, Connecting
  <2>3. ASSUME NEW c \in tries, Write(cur, [rows[cur] EXCEPT !.cand = c]),
               tries' = tries \ {c}, pc' = "provision", UNCHANGED <<kind, cur, orig, queue>>
        PROVE  IInv'
    <3>1. c \in Cands
      BY <1>a DEF TypeOK
    <3>2. /\ [rows[cur] EXCEPT !.cand = c] \in Exits
          /\ [rows[cur] EXCEPT !.cand = c].status # "running"
      BY <1>c, <2>2, <3>1, RowEdit
    <3>3. tries' \subseteq Cands
      BY <1>a, <2>3 DEF TypeOK
    <3> QED BY <1>a, <1>b, <1>c, <1>f, <2>1, <2>3, <3>2, <3>3, WriteRow, GoOnStep, NoExitAssumption
            DEF IInv, Connecting
  <2>4. ASSUME NEW c \in tries, tries' = tries \ {c}, NoWrite, UNCHANGED <<pc, kind, cur, orig, queue>>
        PROVE  IInv'
    <3>1. tries' \subseteq Cands
      BY <1>a, <2>4 DEF TypeOK
    <3> QED BY <1>b, <1>c, <1>d, <1>e, <1>f, <2>1, <2>2, <2>4, <3>1, GoOnStep DEF Connecting
  <2>5. CASE NoWrite /\ Fail
    BY <1>a, <1>c, <1>d, <1>e, <1>f, <1>g, <2>1, <2>5, FailEnds, EndStep
  <2>6. ASSUME NEW c \in tries,
               Write(cur, [rows[cur] EXCEPT !.status = "faulted", !.cand = c]), Fail
        PROVE  IInv'
    <3>1. c \in Cands
      BY <1>a DEF TypeOK
    <3>2. /\ [rows[cur] EXCEPT !.status = "faulted", !.cand = c] \in Exits
          /\ [rows[cur] EXCEPT !.status = "faulted", !.cand = c].status = "faulted"
      BY <1>c, <3>1, FaultedRow
    <3> QED BY <1>c, <1>d, <2>1, <2>6, <3>2, FaultedStep
  <2>7. CASE pc' = "fault" /\ NoWrite /\ UNCHANGED <<job, queue>>
    <3>1. UNCHANGED <<kind, cur, tries, orig, queue>> /\ tries' \subseteq Cands
      BY <1>a, <2>7 DEF TypeOK, job
    <3> QED BY <1>b, <1>c, <1>d, <1>e, <1>f, <2>1, <2>2, <2>7, <3>1, GoOnStep DEF Connecting
  <2> QED BY <1>4, <2>3, <2>4, <2>5, <2>6, <2>7 DEF Try
<1>5. CASE Provision
  <2>1. UNCHANGED <<rows, health, probing, fails>> /\ pc = "provision"
    BY <1>5 DEF Provision
  <2>2. rows[cur].status # "running" /\ NoWrite /\ rows[cur].cand \in Cands
    BY <1>a, <1>c, <2>1 DEF Tunnels, Connecting, NoWrite, Exits
  <2>3. /\ tunnel' \in [Slots -> Cands \cup {Down}]
        /\ \A t \in Slots \ {cur} : tunnel'[t] = tunnel[t]
    <3>1. CASE tunnel' = [tunnel EXCEPT ![cur] = rows[cur].cand]
      BY <1>a, <1>c, <2>2, <3>1 DEF TypeOK
    <3>2. CASE StopOK(cur) \/ StopFails(cur)
      BY <1>a, <1>c, <3>2, StopTunnel
    <3> QED BY <1>5, <3>1, <3>2 DEF Provision
  <2>4. CASE Fail
    BY <1>a, <1>c, <1>d, <1>e, <2>1, <2>2, <2>3, <2>4, FailEnds, EndStep
  <2>5. CASE pc' \in {"try", "persist"} /\ UNCHANGED <<job, queue>>
             /\ (pc' = "persist" => tunnel' = [tunnel EXCEPT ![cur] = rows[cur].cand])
    <3>1. UNCHANGED <<kind, cur, tries, orig, queue>> /\ tries' \subseteq Cands
      BY <1>a, <2>5 DEF TypeOK, job
    <3>2. pc' = "persist" => tunnel'[cur] = rows'[cur].cand
      BY <1>a, <1>c, <2>1, <2>5 DEF TypeOK
    <3> QED BY <1>b, <1>c, <1>d, <1>e, <2>1, <2>2, <2>3, <2>5, <3>1, <3>2, GoOnStep DEF Connecting
  <2> QED BY <1>5, <2>4, <2>5 DEF Provision
<1>6. CASE Persist
  <2>1. UNCHANGED <<probing, fails>> /\ pc = "persist"
    BY <1>6 DEF Persist
  <2>2. CASE Write(cur, Connected(rows[cur])) /\ Done /\ UNCHANGED tunnel
    <3>1. /\ Connected(rows[cur]) \in Exits
          /\ Connected(rows[cur]).cand = rows[cur].cand
      BY <1>c, RowEdit DEF Connected
    <3>2. tunnel[cur] \in {Down, rows[cur].cand}
      BY <1>a, <2>1 DEF Tunnels
    <3> QED BY <1>a, <1>c, <1>d, <1>f, <2>1, <2>2, <3>1, <3>2, WriteRow, DoneEnds, EndStep, NoExitAssumption
  <2>3. CASE (StopOK(cur) \/ StopFails(cur)) /\ NoWrite /\ Fail
    BY <1>a, <1>c, <1>d, <1>e, <1>g, <2>1, <2>3, StopTunnel, FailEnds, EndStep
  <2>4. CASE /\ StopOK(cur) \/ StopFails(cur)
             /\ Write(cur, [rows[cur] EXCEPT !.status = "faulted"])
             /\ Fail
    <3>1. /\ [rows[cur] EXCEPT !.status = "faulted"] \in Exits
          /\ [rows[cur] EXCEPT !.status = "faulted"].status = "faulted"
      BY <1>c, RowEdit
    <3> QED BY <1>c, <1>d, <2>1, <2>4, <3>1, FaultedStep
  <2> QED BY <1>6, <2>2, <2>3, <2>4 DEF Persist
<1>7. CASE Fault
  <2>1. UNCHANGED <<tunnel, probing, fails>> /\ Fail
    BY <1>7 DEF Fault
  <2>2. CASE NoWrite
    BY <1>a, <1>c, <1>d, <1>e, <1>f, <1>g, <2>1, <2>2, FailEnds, EndStep
  <2>3. CASE Write(cur, [rows[cur] EXCEPT !.status = "faulted"])
    <3>1. /\ [rows[cur] EXCEPT !.status = "faulted"] \in Exits
          /\ [rows[cur] EXCEPT !.status = "faulted"].status = "faulted"
      BY <1>c, RowEdit
    <3> QED BY <1>c, <1>d, <2>1, <2>3, <3>1, FaultedStep
  <2> QED BY <1>7, <2>2, <2>3 DEF Fault
<1>8. CASE Drop
  <2>1. UNCHANGED <<tunnel, probing, queue>> /\ pc = "drop" /\ pc' = "free"
    BY <1>8 DEF Drop
  <2>2. kind' = "none" /\ cur' \in Slots /\ tries' \subseteq Cands /\ orig' \in Cands
    BY <1>8, AnyoneIsCand, FirstSlot DEF Drop, Blank
  <2>3. queue' = {} /\ tunnel'[cur] = Down
    BY <1>a, <2>1 DEF QueueHeld, Places, InPass, Tunnels
  <2>4. fails' \in [Slots -> 0..1]
    BY <1>8, <1>a, <1>c DEF Drop, TypeOK
  <2>5. /\ rows' \in [Slots -> Exits \cup {NoExit}]
        /\ health' \in [Slots -> {"none", "pending", "well", "ill"}]
        /\ \A t \in Slots \ {cur} : rows'[t] = rows[t]
        /\ rows'[cur] \in {rows[cur], NoExit}
    BY <1>8, <1>a, <1>c, <1>e, WriteRow DEF Drop
  <2>6. NoOrphanTunnel' /\ RunningIsRecorded'
    BY <1>a, <1>c, <1>f, <2>1, <2>3, <2>5, OneSlot
  <2>7. TypeOK'
    BY <1>a, <1>f, <2>1, <2>2, <2>3, <2>4, <2>5 DEF TypeOK
  <2>8. Places' /\ QueueHeld' /\ Tunnels'
    BY <2>1, <2>2, <2>3 DEF Places, QueueHeld, Tunnels, Working, Connecting
  <2> QED BY <2>6, <2>7, <2>8 DEF IInv
<1> QED BY <1>1, <1>2, <1>3, <1>4, <1>5, <1>6, <1>7, <1>8 DEF Operation

----------------------------------------------------------------------------
(* The reconcile pass.                                                     *)

\* Listing and probing, which happen without the mutex, touch neither rows nor
\* tunnels; the mutex taken, the pass starts from the rows that are there.
LEMMA ProbeStep ==
    ASSUME IInv, Snapshot \/ (\E s \in Slots : Probe(s)) \/ BeginPass \/ EndPass
    PROVE  IInv'
<1> USE DEF IInv, Places, QueueHeld, Tunnels, NoOrphanTunnel, RunningIsRecorded, Used, InPass, job
<1>1. CASE Snapshot
  BY <1>1 DEF Snapshot, TypeOK
<1>2. ASSUME NEW s \in Slots, Probe(s) PROVE IInv'
  BY <1>2 DEF Probe, TypeOK
<1>3. CASE BeginPass
  BY <1>3 DEF BeginPass, TypeOK, Working, Connecting
<1>4. CASE EndPass
  BY <1>4 DEF EndPass, TypeOK, Working, Connecting
<1> QED BY <1>1, <1>2, <1>3, <1>4

\* Each way in which the pass deals with the exit it has come to.
LEMMA VisitStep ==
    ASSUME IInv, NEW s \in Slots, Expire(s) \/ Skip(s) \/ BeginRepair(s)
    PROVE  IInv'
<1>a. TypeOK /\ NoOrphanTunnel /\ RunningIsRecorded /\ Places /\ QueueHeld /\ Tunnels
  BY DEF IInv
<1>b. pc = "visit" /\ kind = "none" /\ s \in queue /\ s \in Used
  BY <1>a DEF Expire, Skip, BeginRepair, First, Places, QueueHeld
<1>c. rows[s] \in Exits /\ rows[s] # NoExit
  BY <1>a, <1>b, UsedRow, NoExitAssumption
<1>1. CASE Expire(s)
  <2> DEFINE e == [rows[s] EXCEPT !.status = "expired"]
  <2>1. e \in Exits /\ e.status = "expired" /\ e # NoExit
    <3>1. e \in Exits /\ e.status = "expired"
      BY <1>c, RowEdit, AnyoneIsCand DEF Statuses
    <3> QED BY <3>1, NoExitAssumption
  <2>2. /\ tunnel' \in [Slots -> Cands \cup {Down}]
        /\ tunnel'[s] \in {Down, tunnel[s]}
        /\ \A t \in Slots \ {s} : tunnel'[t] = tunnel[t]
    BY <1>1, <1>a, StopTunnel DEF Expire
  <2>3. UNCHANGED <<probing, kind, cur, tries, orig>>
    BY <1>1 DEF Expire, job
  <2>4. fails' \in [Slots -> 0..1]
    BY <1>1, <1>a DEF Expire, TypeOK
  <2>5. \/ pc' = "visit" /\ queue' = queue \ {s}
        \/ pc' = "free" /\ queue' = {}
    BY <1>1 DEF Expire, Advance, Abort
  <2> HIDE DEF e
  <2>6. \/ Write(s, NoExit) /\ StopOK(s) /\ pc' = "visit"
        \/ Write(s, e)
        \/ NoWrite
    BY <1>1 DEF Expire, Advance, e
  <2>7. /\ rows' \in [Slots -> Exits \cup {NoExit}]
        /\ health' \in [Slots -> {"none", "pending", "well", "ill"}]
        /\ \A t \in Slots \ {s} : rows'[t] = rows[t]
        /\ rows'[s] \in {rows[s], e, NoExit}
        /\ rows'[s] = NoExit => tunnel'[s] = Down
    <3>1. CASE Write(s, NoExit) /\ StopOK(s)
      BY <1>a, <3>1, WriteRow, StopTunnel
    <3>2. CASE Write(s, e)
      BY <1>a, <2>1, <3>2, WriteRow
    <3>3. CASE NoWrite
      BY <1>a, <1>c, <3>3 DEF NoWrite, TypeOK
    <3> QED BY <2>6, <3>1, <3>2, <3>3
  <2>8. rows[s].status = "running" => tunnel[s] \in {Down, rows[s].cand}
    BY <1>a, <1>b DEF RunningIsRecorded
  <2>9. /\ NoOrphanTunnel' /\ RunningIsRecorded'
        /\ \A t \in Slots \ {s} : t \in Used' <=> t \in Used
    BY <1>a, <2>1, <2>2, <2>7, <2>8, OneSlot
  <2>10. queue' \subseteq Used' /\ queue' \subseteq Slots
    BY <1>a, <2>5, <2>9 DEF QueueHeld, TypeOK
  <2>11. TypeOK'
    BY <1>a, <2>2, <2>3, <2>4, <2>5, <2>7, <2>10 DEF TypeOK
  <2>12. Places' /\ QueueHeld' /\ Tunnels'
    BY <1>b, <2>3, <2>5, <2>10 DEF Places, QueueHeld, Tunnels, Working, Connecting
  <2> QED BY <2>9, <2>11, <2>12 DEF IInv
<1>2. CASE Skip(s)
  <2>1. UNCHANGED <<rows, tunnel, health, probing, kind, cur, tries, orig>>
        /\ pc' = "visit" /\ queue' = queue \ {s}
    BY <1>2 DEF Skip, Advance, job
  <2>2. fails' \in [Slots -> 0..1]
    BY <1>2, <1>a DEF Skip, Tolerated, TypeOK
  <2>3. TypeOK'
    BY <1>a, <2>1, <2>2 DEF TypeOK
  <2>4. NoOrphanTunnel' /\ RunningIsRecorded' /\ Used' = Used
    BY <1>a, <2>1 DEF NoOrphanTunnel, RunningIsRecorded, Used
  <2>5. Places' /\ QueueHeld' /\ Tunnels'
    BY <1>a, <1>b, <2>1, <2>4 DEF Places, QueueHeld, Tunnels, Working, Connecting
  <2> QED BY <2>3, <2>4, <2>5 DEF IInv
<1>3. CASE BeginRepair(s)
  <2>1. /\ UNCHANGED <<rows, tunnel, health, probing, queue>>
        /\ cur' = s /\ tries' = {} /\ orig' = rows[s].cand
        /\ fails' = [fails EXCEPT ![s] = 0]
    BY <1>3 DEF BeginRepair
  <2>2. kind' \in {"restore", "faultswap"} /\ pc' \in {"restore", "swap"}
    BY <1>3 DEF BeginRepair, Repair
  <2>3. orig' \in Cands
    BY <1>c, <2>1 DEF Exits
  <2>4. TypeOK'
    BY <1>a, <2>1, <2>2, <2>3 DEF TypeOK
  <2>5. NoOrphanTunnel' /\ RunningIsRecorded' /\ Used' = Used
    BY <1>a, <2>1 DEF NoOrphanTunnel, RunningIsRecorded, Used
  <2>6. Places' /\ QueueHeld' /\ Tunnels'
    BY <1>a, <1>b, <2>1, <2>2, <2>5 DEF Places, QueueHeld, Tunnels, Connecting, InPass
  <2> QED BY <2>4, <2>5, <2>6 DEF IInv
<1> QED BY <1>1, <1>2, <1>3

----------------------------------------------------------------------------
(* The API and the surroundings.                                           *)

LEMMA ApiStep ==
    ASSUME IInv, Create \/ SwapRequest \/ Extend \/ Delete
    PROVE  IInv'
<1>a. TypeOK /\ NoOrphanTunnel /\ RunningIsRecorded /\ Places /\ QueueHeld /\ Tunnels
  BY DEF IInv
<1>b. pc = "free" /\ kind = "none" /\ queue = {}
  BY <1>a DEF Create, SwapRequest, Extend, Delete, Take, Places, QueueHeld, InPass
<1>1. CASE Create
  <2>1. PICK s \in Slots \ Used, policy \in Policies, exp \in Lives, c \in Cands,
             ranked \in SUBSET Cands :
             /\ Take("create", s, "try")
             /\ Write(s, [cand |-> c, status |-> "provisioning", policy |-> policy,
                          exp |-> exp, bound |-> FALSE])
             /\ tries' = ranked \cup {c}
    BY <1>1 DEF Create, First
  <2> DEFINE e == [cand |-> c, status |-> "provisioning", policy |-> policy,
                   exp |-> exp, bound |-> FALSE]
  <2>2. e \in Exits /\ e.status = "provisioning" /\ e # NoExit
    <3>1. exp \in {"never", "ahead", "past"}
      BY ExitAssumption
    <3>2. e \in Exits /\ e.status = "provisioning"
      BY <3>1 DEF Exits, Statuses
    <3> QED BY <3>2, NoExitAssumption
  <2> HIDE DEF e
  <2>3. /\ UNCHANGED <<tunnel, probing, fails, queue>>
        /\ kind' = "create" /\ cur' = s /\ pc' = "try" /\ orig' \in Cands
    BY <2>1, AnyoneIsCand DEF Take
  <2>4. /\ rows' \in [Slots -> Exits \cup {NoExit}]
        /\ health' \in [Slots -> {"none", "pending", "well", "ill"}]
        /\ rows'[s] = e
        /\ \A t \in Slots \ {s} : rows'[t] = rows[t]
    BY <1>a, <2>1, <2>2, WriteRow DEF e
  <2>5. TypeOK'
    BY <1>a, <2>1, <2>3, <2>4 DEF TypeOK
  <2>6. NoOrphanTunnel' /\ RunningIsRecorded'
    BY <1>a, <2>2, <2>3, <2>4, OneSlot
  <2>7. Places' /\ QueueHeld' /\ Tunnels'
    BY <1>b, <2>2, <2>3, <2>4 DEF Places, QueueHeld, Tunnels, Working, Connecting, Used
  <2> QED BY <2>5, <2>6, <2>7 DEF IInv
<1>2. CASE SwapRequest
  <2>1. PICK s \in Used : Take("swap", s, "swap")
    BY <1>2 DEF SwapRequest
  <2>2. /\ UNCHANGED <<rows, health, tunnel, probing, fails, queue>>
        /\ kind' = "swap" /\ cur' = s /\ pc' = "swap" /\ tries' = {} /\ orig' = rows[s].cand
    BY <1>2, <2>1 DEF SwapRequest, NoWrite, Take
  <2>3. s \in Slots /\ orig' \in Cands
    BY <1>a, <2>2, UsedRow DEF Exits
  <2>4. TypeOK'
    BY <1>a, <2>2, <2>3 DEF TypeOK
  <2>5. NoOrphanTunnel' /\ RunningIsRecorded' /\ Used' = Used
    BY <1>a, <2>2 DEF NoOrphanTunnel, RunningIsRecorded, Used
  <2>6. Places' /\ QueueHeld' /\ Tunnels'
    BY <1>b, <2>2, <2>5 DEF Places, QueueHeld, Tunnels, Connecting
  <2> QED BY <2>4, <2>5, <2>6 DEF IInv
<1>3. CASE Extend
  <2>1. PICK s \in Used, exp \in Lives :
             /\ rows' = [rows EXCEPT ![s].exp = exp]
             /\ \E r \in {"none", health[s]} : health' = [health EXCEPT ![s] = r]
    BY <1>3 DEF Extend
  <2>2. UNCHANGED <<tunnel, probing, fails, pc, kind, cur, tries, orig, queue>>
    BY <1>3 DEF Extend, job
  <2>3. s \in Slots /\ rows[s] \in Exits
    BY <1>a, UsedRow
  <2> DEFINE e == [rows[s] EXCEPT !.exp = exp]
  <2>4. e \in Exits /\ e.status = rows[s].status /\ e.cand = rows[s].cand /\ e # NoExit
    BY <2>3, ExitAssumption, NoExitAssumption DEF Exits
  <2>5. rows' = [rows EXCEPT ![s] = e]
    BY <2>1
  <2> HIDE DEF e
  <2>6. /\ rows' \in [Slots -> Exits \cup {NoExit}]
        /\ rows'[s] = e
        /\ \A t \in Slots \ {s} : rows'[t] = rows[t]
    BY <1>a, <2>3, <2>4, <2>5 DEF TypeOK
  <2>7. TypeOK'
    BY <1>a, <2>1, <2>2, <2>3, <2>6 DEF TypeOK
  <2>8. rows[s].status = "running" => tunnel[s] \in {Down, rows[s].cand}
    BY <1>a DEF RunningIsRecorded
  <2>9. NoOrphanTunnel' /\ RunningIsRecorded'
    BY <1>a, <2>2, <2>3, <2>4, <2>6, <2>8, OneSlot
  <2>10. Places' /\ QueueHeld' /\ Tunnels'
    BY <1>b, <2>2 DEF Places, QueueHeld, Tunnels, Working, Connecting
  <2> QED BY <2>7, <2>9, <2>10 DEF IInv
<1>4. CASE Delete
  <2>1. PICK s \in Used :
             \/ StopOK(s) /\ kind' = "delete" /\ cur' = s /\ pc' = "drop"
             \/ StopFails(s) /\ UNCHANGED <<kind, cur, pc>>
    BY <1>4 DEF Delete
  <2>2. UNCHANGED <<rows, health, probing, fails, tries, orig, queue>>
    BY <1>4 DEF Delete
  <2>3. s \in Slots /\ rows[s] # NoExit
    BY DEF Used
  <2>4. /\ tunnel' \in [Slots -> Cands \cup {Down}]
        /\ tunnel'[s] \in {Down, tunnel[s]}
        /\ \A t \in Slots \ {s} : tunnel'[t] = tunnel[t]
        /\ StopOK(s) => tunnel'[s] = Down
    BY <1>a, <2>1, <2>3, StopTunnel
  <2>5. TypeOK'
    BY <1>a, <2>1, <2>2, <2>3, <2>4 DEF TypeOK
  <2>6. rows[s].status = "running" => tunnel[s] \in {Down, rows[s].cand}
    BY <1>a DEF RunningIsRecorded
  <2>7. NoOrphanTunnel' /\ RunningIsRecorded' /\ Used' = Used
    BY <1>a, <2>2, <2>3, <2>4, <2>6, OneSlot DEF Used
  <2>8. Places' /\ QueueHeld' /\ Tunnels'
    BY <1>b, <2>1, <2>2, <2>4, <2>7 DEF Places, QueueHeld, Tunnels, Working, Connecting
  <2> QED BY <2>5, <2>7, <2>8 DEF IInv
<1> QED BY <1>1, <1>2, <1>3, <1>4

\* A lost tunnel, the clock, the node service's bindings and a kill.
LEMMA OutsideStep ==
    ASSUME IInv, Surroundings \/ Crash
    PROVE  IInv'
<1>a. TypeOK /\ NoOrphanTunnel /\ RunningIsRecorded /\ Places /\ QueueHeld /\ Tunnels
  BY DEF IInv
<1>1. ASSUME NEW s \in Slots, Lose(s) PROVE IInv'
  <2>1. UNCHANGED <<rows, health, probing, fails, pc, kind, cur, tries, orig, queue>>
    BY <1>1 DEF Lose, job
  <2>2. /\ tunnel' \in [Slots -> Cands \cup {Down}]
        /\ tunnel'[s] = Down
        /\ \A t \in Slots \ {s} : tunnel'[t] = tunnel[t]
    BY <1>1, <1>a DEF Lose, TypeOK
  <2>3. TypeOK'
    BY <1>a, <2>1, <2>2 DEF TypeOK
  <2>4. NoOrphanTunnel' /\ RunningIsRecorded' /\ Used' = Used
    BY <1>a, <2>1, <2>2, OneSlot DEF Used
  <2>5. Places' /\ QueueHeld'
    BY <1>a, <2>1, <2>4 DEF Places, QueueHeld, InPass
  <2>6. Tunnels'
    BY <1>a, <2>1, <2>2 DEF Tunnels, TypeOK
  <2> QED BY <2>3, <2>4, <2>5, <2>6 DEF IInv
<1>2. ASSUME NEW s \in Slots, Lapse(s) \/ Bind(s) PROVE IInv'
  <2>1. UNCHANGED <<tunnel, health, probing, fails, pc, kind, cur, tries, orig, queue>>
    BY <1>2 DEF Lapse, Bind, job
  <2>2. s \in Used /\ rows[s] \in Exits
    BY <1>2, <1>a, UsedRow DEF Lapse, Bind
  <2>3. PICK e \in Exits :
             /\ rows' = [rows EXCEPT ![s] = e]
             /\ e.status = rows[s].status /\ e.cand = rows[s].cand
    <3>1. CASE Lapse(s)
      <4>1. [rows[s] EXCEPT !.exp = "past"] \in Exits
        BY <2>2 DEF Exits
      <4> QED BY <2>2, <3>1, <4>1 DEF Lapse, Exits
    <3>2. CASE Bind(s)
      <4>1. [rows[s] EXCEPT !.bound = ~@] \in Exits
        BY <2>2 DEF Exits
      <4> QED BY <2>2, <3>2, <4>1 DEF Bind, Exits
    <3> QED BY <1>2, <3>1, <3>2
  <2>4. /\ rows' \in [Slots -> Exits \cup {NoExit}]
        /\ rows'[s] = e /\ e # NoExit
        /\ \A t \in Slots \ {s} : rows'[t] = rows[t]
    BY <1>a, <2>3, NoExitAssumption DEF TypeOK
  <2>5. TypeOK'
    BY <1>a, <2>1, <2>4 DEF TypeOK
  <2>6. rows[s].status = "running" => tunnel[s] \in {Down, rows[s].cand}
    BY <1>a, <2>2 DEF RunningIsRecorded
  <2>7. NoOrphanTunnel' /\ RunningIsRecorded'
    BY <1>a, <2>1, <2>3, <2>4, <2>6, OneSlot
  <2>8. Used' = Used
    BY <2>2, <2>4 DEF Used
  <2>9. Places' /\ QueueHeld'
    BY <1>a, <2>1, <2>8 DEF Places, QueueHeld, InPass
  <2>10. Tunnels'
    BY <1>a, <2>1, <2>3, <2>4 DEF Tunnels, TypeOK
  <2> QED BY <2>5, <2>7, <2>9, <2>10 DEF IInv
<1>3. CASE Crash
  <2>1. UNCHANGED <<rows, tunnel>> /\ pc' = "free" /\ queue' = {} /\ kind' = "none"
    BY <1>3 DEF Crash, Blank
  <2>2. TypeOK'
    <3>1. cur' \in Slots /\ orig' \in Cands /\ tries' = {}
      BY <1>3, AnyoneIsCand, FirstSlot DEF Crash, Blank
    <3>2. health' \in [Slots -> {"none", "pending", "well", "ill"}]
      BY <1>3 DEF Crash
    <3>3. fails' \in [Slots -> 0..1]
      BY <1>3 DEF Crash
    <3>4. probing' \in BOOLEAN
      BY <1>3 DEF Crash
    <3> QED BY <1>a, <2>1, <3>1, <3>2, <3>3, <3>4 DEF TypeOK
  <2>3. NoOrphanTunnel' /\ RunningIsRecorded'
    BY <1>a, <2>1 DEF NoOrphanTunnel, RunningIsRecorded, Used
  <2>4. Places' /\ QueueHeld' /\ Tunnels'
    BY <2>1 DEF Places, QueueHeld, Tunnels, Working, Connecting
  <2> QED BY <2>2, <2>3, <2>4 DEF IInv
<1> QED BY <1>1, <1>2, <1>3 DEF Surroundings

----------------------------------------------------------------------------

\* The invariant holds at first and every step keeps it.
THEOREM Invariance == Spec => []IInv
<1>1. Init => IInv
  <2> SUFFICES ASSUME Init PROVE IInv
    OBVIOUS
  <2>1. /\ rows \in [Slots -> Exits \cup {NoExit}]
        /\ tunnel \in [Slots -> Cands \cup {Down}]
        /\ health \in [Slots -> {"none", "pending", "well", "ill"}]
        /\ fails \in [Slots -> 0..1]
    BY DEF Init
  <2>2. cur \in Slots /\ orig \in Cands
    BY AnyoneIsCand, FirstSlot DEF Init
  <2>3. TypeOK
    BY <2>1, <2>2 DEF Init, TypeOK
  <2>4. Used = {} /\ NoOrphanTunnel
    BY DEF Init, Used, NoOrphanTunnel
  <2>5. RunningIsRecorded /\ Places /\ QueueHeld /\ Tunnels
    BY <2>4 DEF Init, RunningIsRecorded, Places, QueueHeld, Tunnels, Working, Connecting
  <2> QED BY <2>3, <2>4, <2>5 DEF IInv
<1>2. IInv /\ [Next]_vars => IInv'
  <2> SUFFICES ASSUME IInv, [Next]_vars PROVE IInv'
    OBVIOUS
  <2>1. CASE Next
    BY <2>1, ApiStep, ProbeStep, VisitStep, OperationStep, OutsideStep DEF Next, Visit
  <2>2. CASE UNCHANGED vars
    BY <2>2 DEF vars, job, IInv, TypeOK, NoOrphanTunnel, RunningIsRecorded, Places,
       QueueHeld, Tunnels, Used, InPass
  <2> QED BY <2>1, <2>2
<1> QED BY <1>1, <1>2, PTL DEF Spec

\* Every reachable state is well typed.
THEOREM TypeCorrect == Spec => []TypeOK
<1>1. IInv => TypeOK
  BY DEF IInv
<1> QED BY <1>1, Invariance, PTL

\* For any number of slots, whatever fails and whenever J-UI is killed, no
\* tunnel is up in a slot without a row (service.go:442-470, 704-732).
THEOREM TunnelsHaveRows == Spec => []NoOrphanTunnel
<1>1. IInv => NoOrphanTunnel
  BY DEF IInv
<1> QED BY <1>1, Invariance, PTL

\* For any number of slots, whatever fails and whenever J-UI is killed, an exit
\* shown as running is never connected to a server other than the one its row
\* names (service.go:335-413, 615-642, 686-702).
THEOREM RowsNameTunnels == Spec => []RunningIsRecorded
<1>1. IInv => RunningIsRecorded
  BY DEF IInv
<1> QED BY <1>1, Invariance, PTL

----------------------------------------------------------------------------
(* No two exits connected to one candidate.  A slot claims the candidate    *)
(* its row names while its tunnel is up, while it is shown as running, and  *)
(* while the holder of the mutex is bringing its tunnel up.  Where kills    *)
(* leave rows half way, a row that the pass may still repair claims its     *)
(* candidate too: without extensions that is every row that has neither     *)
(* expired nor passed its expiry.                                           *)

\* Clean-ups succeed, writes are made, and kills do not meet extensions.
Mild == ~Failures /\ Stuck = {} /\ (~Crashes \/ "extend" \notin Requests)

Half == {"provisioning", "swapping"}

Lasting(s) ==
    "extend" \notin Requests /\ rows[s].status # "expired" /\ rows[s].exp # "past"

Claims(s) ==
    /\ s \in Used
    /\ \/ tunnel[s] # Down
       \/ rows[s].status = "running"
       \/ s = cur /\ pc \in {"restore", "provision", "persist"}
       \/ Lasting(s)

UpIsRecorded ==
    \A s \in Slots : tunnel[s] # Down =>
        (s \in Used /\ tunnel[s] = rows[s].cand /\ rows[s].status # "expired")

ClaimsDiffer ==
    \A s, t \in Slots : (s # t /\ Claims(s) /\ Claims(t)) => rows[s].cand # rows[t].cand

HalfIsHeld ==
    ~Crashes => \A s \in Used : rows[s].status \in Half =>
        /\ pc \in Connecting \cup {"swap", "block"}
        /\ s = cur
        /\ pc = "swap" => kind = "autoswap"

ExpiredLapsed ==
    "extend" \notin Requests =>
        \A s \in Used : rows[s].status = "expired" => rows[s].exp = "past"

TriesFree ==
    pc \in Connecting =>
        /\ \A s \in Slots \ {cur} : Claims(s) => rows[s].cand \notin tries
        /\ rows[cur].status \in Half
        /\ pc \in {"try", "fault"} => tunnel[cur] = Down

InPlace ==
    pc = "restore" =>
        rows[cur].status \in Half \cup {"running"} /\ tries = {} /\ kind = "restore"

BlockInPass == pc = "block" => InPass

OrigFree ==
    ("extend" \notin Requests /\ InPass /\ rows[cur].exp # "past") =>
        \A s \in Slots \ {cur} : Claims(s) => rows[s].cand # orig

DInv ==
    /\ UpIsRecorded /\ ClaimsDiffer /\ HalfIsHeld /\ ExpiredLapsed
    /\ TriesFree /\ InPlace /\ BlockInPass /\ OrigFree

\* A claim shows in the row, so that Taken holds every other slot's claim.
LEMMA ClaimIsTaken ==
    ASSUME DInv, NEW s \in Slots, NEW t \in Slots \ {s}, Claims(t)
    PROVE  rows[t].status # "expired" /\ rows[t].cand \in Taken(s)
<1>1. t \in Used
  BY DEF Claims
<1>2. rows[t].status # "expired"
  BY DEF DInv, UpIsRecorded, TriesFree, InPlace, Claims, Lasting, Connecting, Half
<1> QED BY <1>1, <1>2 DEF Taken

\* A step at one slot adds no claim at another.
LEMMA OthersKeep ==
    ASSUME NEW s \in Slots,
           \A t \in Slots \ {s} : rows'[t] = rows[t] /\ tunnel'[t] = tunnel[t],
           pc' \in Working => cur' = s
    PROVE  \A t \in Slots \ {s} : Claims(t)' => (Claims(t) /\ rows'[t].cand = rows[t].cand)
BY DEF Claims, Lasting, Used, Working

\* What a step at one slot has to see to.
LEMMA StepAt ==
    ASSUME Mild, DInv, IInv', NEW s \in Slots,
           \A t \in Slots \ {s} : rows'[t] = rows[t] /\ tunnel'[t] = tunnel[t],
           pc' \in Working => cur' = s,
           s = cur \/ pc \in {"free", "visit"},
           tunnel'[s] # Down => (rows'[s] # NoExit /\ tunnel'[s] = rows'[s].cand
                                 /\ rows'[s].status # "expired"),
           Claims(s)' => \/ Claims(s) /\ rows'[s].cand = rows[s].cand
                         \/ \A t \in Slots \ {s} : Claims(t) => rows[t].cand # rows'[s].cand,
           (rows'[s] # NoExit /\ rows'[s].status \in Half /\ ~Crashes) =>
               /\ pc' \in Connecting \cup {"swap", "block"}
               /\ cur' = s
               /\ pc' = "swap" => kind' = "autoswap",
           ("extend" \notin Requests /\ rows'[s] # NoExit /\ rows'[s].status = "expired")
               => rows'[s].exp = "past",
           pc' \in Connecting =>
               /\ \A t \in Slots \ {s} : Claims(t) => rows[t].cand \notin tries'
               /\ rows'[s].status \in Half
               /\ pc' \in {"try", "fault"} => tunnel'[s] = Down,
           pc' = "restore" =>
               rows'[s].status \in Half \cup {"running"} /\ tries' = {} /\ kind' = "restore",
           pc' = "block" => InPass',
           ("extend" \notin Requests /\ InPass' /\ rows'[s].exp # "past") =>
               \A t \in Slots \ {s} : Claims(t) => rows[t].cand # orig'
    PROVE  DInv'
<1>1. \A t \in Slots \ {s} : Claims(t)' => (Claims(t) /\ rows'[t].cand = rows[t].cand)
  BY OthersKeep
<1>2. UpIsRecorded'
  BY DEF DInv, UpIsRecorded, Used
<1>3. ClaimsDiffer'
  BY <1>1 DEF DInv, ClaimsDiffer
<1>4. HalfIsHeld'
  BY DEF DInv, HalfIsHeld, Used, Connecting
<1>5. ExpiredLapsed'
  BY DEF DInv, ExpiredLapsed, Used
<1>6. TriesFree'
  BY <1>1 DEF TriesFree, Connecting, Working
<1>7. InPlace'
  BY DEF InPlace, Working
<1>8. OrigFree'
  <2>1. InPass' => pc' \in Working
    BY DEF IInv, Places, TypeOK, Working, InPass
  <2> QED BY <1>1, <2>1 DEF OrigFree
<1> QED BY <1>2, <1>3, <1>4, <1>5, <1>6, <1>7, <1>8 DEF DInv, BlockInPass

\* Without failures and stuck slots a clean-up always takes the tunnel down.
LEMMA CleanUp ==
    ASSUME Mild, TypeOK, NEW s \in Slots, StopOK(s) \/ StopFails(s)
    PROVE  tunnel'[s] = Down /\ \A t \in Slots \ {s} : tunnel'[t] = tunnel[t]
BY DEF Mild, TypeOK, StopOK, StopFails

\* How an operation that ends looks to StepAt.
LEMMA EndAt ==
    ASSUME Mild, IInv, DInv, IInv', NEW s \in Slots, s = cur, EndsWell,
           \A t \in Slots \ {s} : rows'[t] = rows[t] /\ tunnel'[t] = tunnel[t],
           tunnel'[s] # Down => (rows'[s] # NoExit /\ tunnel'[s] = rows'[s].cand
                                 /\ rows'[s].status # "expired"),
           Claims(s)' => \/ Claims(s) /\ rows'[s].cand = rows[s].cand
                         \/ \A t \in Slots \ {s} : Claims(t) => rows[t].cand # rows'[s].cand,
           (rows'[s] # NoExit /\ rows'[s].status \in Half /\ ~Crashes) =>
               /\ pc' \in {"swap", "block"}
               /\ pc' = "swap" => kind' = "autoswap",
           ("extend" \notin Requests /\ rows'[s] # NoExit /\ rows'[s].status = "expired")
               => rows'[s].exp = "past",
           rows'[s] # NoExit => rows'[s].exp = rows[s].exp,
           (rows'[s] = NoExit) => pc' \in {"free", "visit"},
           pc' = "block" => InPass',
           InPass' => (InPass /\ orig' = orig)
    PROVE  DInv'
<1>1. pc' \in Working => cur' = s
  BY DEF EndsWell, Working
<1>2. pc' \notin Connecting \cup {"restore"}
  BY DEF EndsWell, Connecting
<1>3. (rows'[s] # NoExit /\ rows'[s].status \in Half /\ ~Crashes) =>
               /\ pc' \in Connecting \cup {"swap", "block"}
               /\ cur' = s
               /\ pc' = "swap" => kind' = "autoswap"
  BY <1>1 DEF Working
<1>4. ("extend" \notin Requests /\ InPass' /\ rows'[s].exp # "past") =>
               \A t \in Slots \ {s} : Claims(t) => rows[t].cand # orig'
  <2>1. InPass' => pc' \in {"swap", "block"}
    BY DEF EndsWell, InPass
  <2> QED BY <2>1 DEF DInv, OrigFree
<1> QED BY <1>1, <1>2, <1>3, <1>4, StepAt

\* A failure during the pass keeps the exit's candidate of before, and goes on
\* to the swap as the pass's fall-back.
LEMMA FailKeeps ==
    ASSUME TypeOK, cur \in Used, pc # "visit", Fail
    PROVE  /\ InPass' => (InPass /\ orig' = orig)
           /\ pc' \in {"free", "visit", "swap", "block"}
           /\ pc' = "swap" => kind' = "autoswap"
           /\ pc' = "block" => InPass'
           /\ kind \in {"restore", "autoswap"} => pc' \in {"swap", "block"}
<1>1. CASE kind \in {"create", "swap", "faultswap"} /\ Done
  BY <1>1 DEF Done, Blank, Advance, InPass
<1>2. CASE ~(kind \in {"create", "swap", "faultswap"} /\ Done)
  BY <1>2 DEF Fail, InPass, job
<1> QED BY <1>1, <1>2

LEMMA DistinctOperation ==
    ASSUME Mild, IInv, DInv, IInv', Operation
    PROVE  DInv'
<1>a. TypeOK /\ QueueHeld /\ Places /\ Tunnels /\ RunningIsRecorded
  BY DEF IInv
<1>b. pc \in Working
  BY DEF Operation, Restore, Block, Swap, Try, Provision, Persist, Fault, Drop, Working
<1>c. cur \in Used /\ cur \in Slots /\ rows[cur] \in Exits /\ rows[cur] # NoExit /\ orig \in Cands
  BY <1>a, <1>b, UsedRow, NoExitAssumption DEF Places, TypeOK
<1>s. PICK s \in Slots : s = cur
  BY <1>c
<1>d. /\ \A t \in Slots : tunnel[t] # Down =>
             (t \in Used /\ tunnel[t] = rows[t].cand /\ rows[t].status # "expired")
      /\ "extend" \notin Requests /\ rows[cur].status = "expired" => rows[cur].exp = "past"
      /\ ~Failures /\ pc # "visit"
  BY <1>b, <1>c DEF DInv, UpIsRecorded, ExpiredLapsed, Mild, Working
<1>e. ASSUME NEW e \in Exits, Write(cur, e)
      PROVE  rows'[cur] = e /\ e # NoExit /\ \A t \in Slots \ {cur} : rows'[t] = rows[t]
  BY <1>a, <1>c, <1>e, WriteRow, NoExitAssumption
<1>f. ASSUME NoWrite
      PROVE  rows' = rows
  BY <1>f DEF NoWrite
<1>g. ASSUME StopOK(cur) \/ StopFails(cur)
      PROVE  tunnel'[cur] = Down /\ \A t \in Slots \ {cur} : tunnel'[t] = tunnel[t]
  BY <1>a, <1>c, <1>g, CleanUp
<1>1. CASE Restore
  <2>1. /\ UNCHANGED tunnel /\ pc = "restore" /\ kind = "restore"
        /\ rows[cur].status \in Half \cup {"running"} /\ tries = {}
    BY <1>1 DEF Restore, DInv, InPlace
  <2>2. Claims(s)
    BY <1>c, <1>s, <2>1 DEF Claims
  <2>3. CASE Write(cur, [rows[cur] EXCEPT !.status = "provisioning"]) /\ pc' = "provision"
             /\ UNCHANGED <<job, queue>>
    <3> DEFINE e == [rows[cur] EXCEPT !.status = "provisioning"]
    <3>1. e \in Exits /\ e.status = "provisioning" /\ e.cand = rows[cur].cand /\ e.exp = rows[cur].exp
      BY <1>c DEF Exits, Statuses
    <3>2. Write(cur, e)
      BY <2>3
    <3> HIDE DEF e
    <3>3. rows'[cur] = e /\ e # NoExit /\ \A t \in Slots \ {cur} : rows'[t] = rows[t]
      BY <1>e, <3>1, <3>2
    <3>4. cur' = cur /\ tries' = {} /\ orig' = orig /\ kind' = kind /\ tunnel' = tunnel
      BY <2>1, <2>3 DEF job
    <3>5. ("extend" \notin Requests /\ InPass' /\ rows'[cur].exp # "past") =>
               \A t \in Slots \ {cur} : Claims(t) => rows[t].cand # orig'
      BY <3>1, <3>3, <3>4 DEF DInv, OrigFree, InPass
    <3> QED BY <1>c, <1>s, <1>d, <2>2, <2>3, <3>1, <3>3, <3>4, <3>5, StepAt DEF Connecting, Half
  <2>4. CASE Fail /\ NoWrite
    <3>1. EndsWell /\ rows' = rows /\ tunnel' = tunnel
      BY <1>a, <1>d, <1>f, <2>1, <2>4, FailEnds
    <3>2. (InPass' => (InPass /\ orig' = orig)) /\ (pc' = "block" => InPass')
      BY <1>a, <1>c, <1>d, <2>4, FailKeeps
    <3>3. pc' \in {"swap", "block"} /\ (pc' = "swap" => kind' = "autoswap")
      BY <1>a, <1>c, <1>d, <2>1, <2>4, FailKeeps
    <3> QED BY <1>c, <1>s, <1>d, <2>2, <3>1, <3>2, <3>3, EndAt
  <2> QED BY <1>1, <2>3, <2>4 DEF Restore
<1>2. CASE Block
  <2> DEFINE e == [rows[cur] EXCEPT !.status = "faulted", !.cand = orig]
  <2>1. e \in Exits /\ e.status = "faulted" /\ e.cand = orig /\ e.exp = rows[cur].exp
    BY <1>c DEF Exits, Statuses
  <2>2. Write(cur, e) /\ Advance(cur) /\ Blank /\ (StopOK(cur) \/ StopFails(cur)) /\ pc = "block"
    BY <1>2, <1>d DEF Block
  <2> HIDE DEF e
  <2>3. rows'[cur] = e /\ e # NoExit /\ \A t \in Slots \ {cur} : rows'[t] = rows[t]
    BY <1>e, <2>1, <2>2
  <2>4. tunnel'[cur] = Down /\ \A t \in Slots \ {cur} : tunnel'[t] = tunnel[t]
    BY <1>g, <2>2
  <2>5. pc' = "visit" /\ kind' = "none"
    BY <2>2 DEF Advance, Blank
  <2>6. Claims(s)' => \A t \in Slots \ {s} : Claims(t) => rows[t].cand # rows'[s].cand
    <3>1. InPass
      BY <2>2 DEF DInv, BlockInPass
    <3>2. Claims(s)' => ("extend" \notin Requests /\ rows[s].exp # "past")
      BY <1>s, <2>1, <2>3, <2>4, <2>5 DEF Claims, Lasting
    <3> QED BY <1>s, <2>1, <2>3, <3>1, <3>2 DEF DInv, OrigFree
  <2> QED BY <1>s, <2>1, <2>3, <2>4, <2>5, <2>6, StepAt DEF Working, Connecting, Half, InPass
<1>3. CASE Swap
  <2>1. pc = "swap" /\ UNCHANGED <<probing, fails>>
    BY <1>3 DEF Swap
  <2>2. CASE /\ StopOK(cur)
             /\ Write(cur, [rows[cur] EXCEPT !.status = "swapping"])
             /\ tries' = Cands \ (Taken(cur) \cup {rows[cur].cand})
             /\ pc' = "try"
             /\ UNCHANGED <<kind, cur, orig, queue>>
    <3> DEFINE e == [rows[cur] EXCEPT !.status = "swapping"]
    <3>1. e \in Exits /\ e.status = "swapping" /\ e.cand = rows[cur].cand /\ e.exp = rows[cur].exp
      BY <1>c DEF Exits, Statuses
    <3>2. Write(cur, e)
      BY <2>2
    <3> HIDE DEF e
    <3>3. rows'[cur] = e /\ e # NoExit /\ \A t \in Slots \ {cur} : rows'[t] = rows[t]
      BY <1>e, <3>1, <3>2
    <3>4. tunnel'[cur] = Down /\ \A t \in Slots \ {cur} : tunnel'[t] = tunnel[t]
      BY <1>g, <2>2
    <3>5. \A t \in Slots \ {s} : Claims(t) => rows[t].cand \notin tries'
      BY <1>s, <2>2, ClaimIsTaken
    <3>6. Claims(s)' => Claims(s) /\ rows'[s].cand = rows[s].cand
      BY <1>c, <1>d, <1>s, <2>2, <3>1, <3>3, <3>4 DEF Claims, Lasting
    <3>7. ("extend" \notin Requests /\ InPass' /\ rows'[s].exp # "past") =>
               \A t \in Slots \ {s} : Claims(t) => rows[t].cand # orig'
      BY <1>s, <2>2, <3>1, <3>3 DEF DInv, OrigFree, InPass
    <3> QED BY <1>s, <2>2, <3>1, <3>3, <3>4, <3>5, <3>6, <3>7, StepAt DEF Connecting, Half
  <2>3. CASE Fail /\ UNCHANGED <<rows, health, tunnel>>
    <3>1. EndsWell
      BY <1>a, <1>d, <2>3, FailEnds
    <3>2. /\ InPass' => (InPass /\ orig' = orig)
          /\ pc' = "block" => InPass'
          /\ pc' = "swap" => kind' = "autoswap"
          /\ kind = "autoswap" => pc' \in {"swap", "block"}
          /\ pc' \in {"free", "visit", "swap", "block"}
      BY <1>a, <1>c, <1>d, <2>3, FailKeeps
    <3>3. rows[s].status \in Half /\ ~Crashes => kind = "autoswap"
      BY <1>c, <1>s, <2>1 DEF DInv, HalfIsHeld
    <3>4. Claims(s)' => Claims(s) /\ rows'[s].cand = rows[s].cand
      BY <1>c, <1>s, <2>3, <3>2 DEF Claims, Lasting, Used
    <3> QED BY <1>c, <1>d, <1>s, <2>3, <3>1, <3>2, <3>3, <3>4, EndAt
  <2> QED BY <1>3, <1>d, <2>2, <2>3 DEF Swap, StopFails, Mild
<1>4. CASE Try
  <2>1. /\ UNCHANGED tunnel /\ pc = "try" /\ tunnel[s] = Down /\ rows[s].status \in Half
        /\ \A t \in Slots \ {s} : Claims(t) => rows[t].cand \notin tries
    BY <1>4, <1>s DEF Try, DInv, TriesFree, Connecting
  <2>2. ASSUME NEW c \in tries, Write(cur, [rows[cur] EXCEPT !.cand = c]),
               tries' = tries \ {c}, pc' = "provision", UNCHANGED <<kind, cur, orig, queue>>
        PROVE  DInv'
    <3> DEFINE e == [rows[cur] EXCEPT !.cand = c]
    <3>1. e \in Exits /\ e.status = rows[cur].status /\ e.cand = c /\ e.exp = rows[cur].exp
      <4>1. c \in Cands
        BY <1>a DEF TypeOK
      <4> QED BY <1>c, <4>1 DEF Exits
    <3>2. Write(cur, e)
      BY <2>2
    <3> HIDE DEF e
    <3>3. rows'[cur] = e /\ e # NoExit /\ \A t \in Slots \ {cur} : rows'[t] = rows[t]
      BY <1>e, <3>1, <3>2
    <3>4. ("extend" \notin Requests /\ InPass' /\ rows'[s].exp # "past") =>
               \A t \in Slots \ {s} : Claims(t) => rows[t].cand # orig'
      BY <1>s, <2>2, <3>1, <3>3 DEF DInv, OrigFree, InPass
    <3> QED BY <1>s, <2>1, <2>2, <3>1, <3>3, <3>4, StepAt DEF Connecting, Half
  <2>3. CASE /\ tries' \subseteq tries /\ NoWrite
             /\ pc' \in {"try", "fault"} /\ UNCHANGED <<kind, cur, orig, queue>>
    <3>1. rows' = rows /\ tunnel' = tunnel
      BY <1>f, <2>1, <2>3
    <3>2. Claims(s)' => Claims(s) /\ rows'[s].cand = rows[s].cand
      BY <1>s, <2>1, <2>3, <3>1 DEF Claims, Lasting, Used
    <3>3. ("extend" \notin Requests /\ InPass' /\ rows'[s].exp # "past") =>
               \A t \in Slots \ {s} : Claims(t) => rows[t].cand # orig'
      BY <1>s, <2>3, <3>1 DEF DInv, OrigFree, InPass
    <3> QED BY <1>s, <2>1, <2>3, <3>1, <3>2, <3>3, StepAt DEF Connecting, Half
  <2> QED BY <1>4, <1>d, <2>2, <2>3 DEF Try, job
<1>5. CASE Provision
  <2>1. /\ pc = "provision" /\ rows' = rows /\ rows[s].status \in Half
        /\ \A t \in Slots \ {s} : Claims(t) => rows[t].cand \notin tries
        /\ Claims(s)
    BY <1>5, <1>c, <1>s DEF Provision, DInv, TriesFree, Connecting, Claims
  <2>2. ("extend" \notin Requests /\ InPass /\ rows[s].exp # "past") =>
             \A t \in Slots \ {s} : Claims(t) => rows[t].cand # orig
    BY <1>s DEF DInv, OrigFree
  <2>3. CASE /\ tunnel' = [tunnel EXCEPT ![cur] = rows[cur].cand]
             /\ pc' = "persist" /\ UNCHANGED <<job, queue>>
    <3>1. tunnel'[s] = rows[s].cand /\ \A t \in Slots \ {s} : tunnel'[t] = tunnel[t]
      BY <1>a, <1>c, <1>s, <2>3 DEF TypeOK
    <3> QED BY <1>c, <1>s, <2>1, <2>2, <2>3, <3>1, StepAt DEF Connecting, Half, InPass, job
  <2>4. CASE /\ StopOK(cur) \/ StopFails(cur)
             /\ IF kind = "restore" THEN Fail ELSE pc' = "try" /\ UNCHANGED <<job, queue>>
    <3>1. tunnel'[s] = Down /\ \A t \in Slots \ {s} : tunnel'[t] = tunnel[t]
      BY <1>g, <1>s, <2>4
    <3>2. CASE kind = "restore" /\ Fail
      <4>1. EndsWell
        BY <1>a, <1>d, <3>2, FailEnds
      <4>2. /\ InPass' => (InPass /\ orig' = orig)
            /\ pc' = "block" => InPass'
            /\ pc' \in {"swap", "block"}
            /\ pc' = "swap" => kind' = "autoswap"
        BY <1>a, <1>c, <1>d, <3>2, FailKeeps
      <4> QED BY <1>c, <1>d, <1>s, <2>1, <3>1, <4>1, <4>2, EndAt
    <3>3. CASE kind # "restore" /\ pc' = "try" /\ UNCHANGED <<job, queue>>
      BY <1>c, <1>s, <2>1, <2>2, <3>1, <3>3, StepAt DEF Connecting, Half, InPass, job
    <3> QED BY <2>4, <3>2, <3>3
  <2> QED BY <1>5, <1>d, <2>3, <2>4 DEF Provision
<1>6. CASE Persist
  <2> DEFINE e == [rows[cur] EXCEPT !.status = "running"]
  <2>1. e \in Exits /\ e.status = "running" /\ e.cand = rows[cur].cand /\ e.exp = rows[cur].exp
    BY <1>c DEF Exits, Statuses
  <2>2. Write(cur, e) /\ Done /\ UNCHANGED tunnel /\ pc = "persist"
    BY <1>6, <1>d DEF Persist, Connected
  <2> HIDE DEF e
  <2>3. rows'[cur] = e /\ e # NoExit /\ \A t \in Slots \ {cur} : rows'[t] = rows[t]
    BY <1>e, <2>1, <2>2
  <2>4. EndsWell
    BY <1>a, <1>d, <2>2, DoneEnds
  <2>5. Claims(s) /\ tunnel[s] \in {Down, rows[s].cand}
    BY <1>a, <1>c, <1>s, <2>2 DEF Claims, Tunnels
  <2>6. ~InPass' /\ pc' \in {"free", "visit"}
    BY <2>2 DEF Done, Blank, InPass, Advance
  <2> QED BY <1>s, <2>1, <2>2, <2>3, <2>4, <2>5, <2>6, EndAt DEF Half
<1>7. CASE Fault
  <2> DEFINE e == [rows[cur] EXCEPT !.status = "faulted"]
  <2>1. e \in Exits /\ e.status = "faulted" /\ e.cand = rows[cur].cand /\ e.exp = rows[cur].exp
    BY <1>c DEF Exits, Statuses
  <2>2. Write(cur, e) /\ Fail /\ UNCHANGED tunnel /\ pc = "fault"
    BY <1>7, <1>d DEF Fault
  <2> HIDE DEF e
  <2>3. rows'[cur] = e /\ e # NoExit /\ \A t \in Slots \ {cur} : rows'[t] = rows[t]
    BY <1>e, <2>1, <2>2
  <2>4. EndsWell
    BY <1>a, <1>d, <2>2, FailEnds
  <2>5. tunnel[s] = Down /\ rows[s].status \in Half
    BY <1>s, <2>2 DEF DInv, TriesFree, Connecting
  <2>6. /\ InPass' => (InPass /\ orig' = orig)
        /\ pc' = "block" => InPass'
        /\ pc' \in {"free", "visit", "swap", "block"}
    BY <1>a, <1>c, <1>d, <2>2, FailKeeps
  <2>7. Claims(s)' => Claims(s)
    BY <1>c, <1>s, <2>1, <2>2, <2>3, <2>5, <2>6 DEF Claims, Lasting, Half
  <2> QED BY <1>s, <2>1, <2>2, <2>3, <2>4, <2>5, <2>6, <2>7, EndAt DEF Half
<1>8. CASE Drop
  <2>1. /\ pc = "drop" /\ pc' = "free" /\ tunnel' = tunnel /\ kind' = "none" /\ tunnel[s] = Down
    BY <1>8, <1>a, <1>s DEF Drop, Blank, Tunnels
  <2>2. Write(cur, NoExit) \/ NoWrite
    BY <1>8 DEF Drop
  <2>3. /\ rows'[s] \in {rows[s], NoExit}
        /\ \A t \in Slots \ {s} : rows'[t] = rows[t]
    BY <1>a, <1>c, <1>f, <1>s, <2>2, WriteRow
  <2>4. Claims(s)' => Claims(s) /\ rows'[s].cand = rows[s].cand
    BY <2>1, <2>3 DEF Claims, Lasting, Used
  <2>5. ~(rows'[s] # NoExit /\ rows'[s].status \in Half /\ ~Crashes)
    BY <1>c, <1>s, <2>1, <2>3 DEF DInv, HalfIsHeld, Connecting
  <2> QED BY <1>d, <1>s, <2>1, <2>3, <2>4, <2>5, StepAt DEF Working, Connecting, InPass
<1> QED BY <1>1, <1>2, <1>3, <1>4, <1>5, <1>6, <1>7, <1>8 DEF Operation

\* Tunnels that die and lifetimes that end take claims away and add none.
LEMMA DistinctQuiet ==
    ASSUME DInv,
           \A t \in Slots : /\ t \in Used' <=> t \in Used
                            /\ t \in Used => /\ rows'[t].status = rows[t].status
                                             /\ rows'[t].cand = rows[t].cand
                                             /\ rows'[t].exp \in {rows[t].exp, "past"}
                            /\ tunnel'[t] \in {tunnel[t], Down},
           cur \in Slots, pc \in Working => cur \in Used,
           InPass => pc \in Working,
           UNCHANGED <<pc, kind, cur, tries, orig>>
    PROVE  DInv'
<1>1. \A t \in Slots : Claims(t)' => Claims(t) /\ t \in Used
  BY DEF Claims, Lasting
<1>2. UpIsRecorded'
  BY DEF DInv, UpIsRecorded
<1>3. ClaimsDiffer'
  BY <1>1 DEF DInv, ClaimsDiffer
<1>4. HalfIsHeld' /\ ExpiredLapsed'
  BY DEF DInv, HalfIsHeld, ExpiredLapsed, Used
<1>5. TriesFree'
  BY <1>1 DEF DInv, TriesFree, Connecting, Working
<1>6. InPlace' /\ BlockInPass'
  BY DEF DInv, InPlace, BlockInPass, InPass, Working
<1>7. OrigFree'
  BY <1>1 DEF DInv, OrigFree, InPass
<1> QED BY <1>2, <1>3, <1>4, <1>5, <1>6, <1>7 DEF DInv

LEMMA DistinctOutside ==
    ASSUME Mild, IInv, DInv, Surroundings \/ Crash
    PROVE  DInv'
<1>a. /\ TypeOK /\ cur \in Slots
      /\ pc \in Working => cur \in Used
      /\ InPass => pc \in Working
  BY DEF IInv, TypeOK, Places, InPass, Working
<1>1. ASSUME NEW s \in Slots, Lose(s) PROVE DInv'
  <2>1. UNCHANGED <<rows, pc, kind, cur, tries, orig>> /\ Used' = Used
    BY <1>1 DEF Lose, job, Used
  <2>2. \A t \in Slots : tunnel'[t] \in {tunnel[t], Down}
    BY <1>1, <1>a DEF Lose, TypeOK
  <2> QED BY <1>a, <2>1, <2>2, DistinctQuiet
<1>2. ASSUME NEW s \in Slots, Lapse(s) \/ Bind(s) PROVE DInv'
  <2>1. UNCHANGED <<tunnel, pc, kind, cur, tries, orig>>
    BY <1>2 DEF Lapse, Bind, job
  <2>2. s \in Used /\ rows[s] \in Exits
    BY <1>2, <1>a, UsedRow DEF Lapse, Bind
  <2>3. PICK e \in Exits :
             /\ rows' = [rows EXCEPT ![s] = e]
             /\ e.status = rows[s].status /\ e.cand = rows[s].cand
             /\ e.exp \in {rows[s].exp, "past"}
    <3>1. CASE Lapse(s)
      <4>1. [rows[s] EXCEPT !.exp = "past"] \in Exits
        BY <2>2 DEF Exits
      <4> QED BY <2>2, <3>1, <4>1 DEF Lapse, Exits
    <3>2. CASE Bind(s)
      <4>1. [rows[s] EXCEPT !.bound = ~@] \in Exits
        BY <2>2 DEF Exits
      <4> QED BY <2>2, <3>2, <4>1 DEF Bind, Exits
    <3> QED BY <1>2, <3>1, <3>2
  <2>4. rows'[s] = e /\ e # NoExit /\ \A t \in Slots \ {s} : rows'[t] = rows[t]
    BY <1>a, <2>3, NoExitAssumption DEF TypeOK
  <2>5. \A t \in Slots : /\ t \in Used' <=> t \in Used
                         /\ t \in Used => /\ rows'[t].status = rows[t].status
                                          /\ rows'[t].cand = rows[t].cand
                                          /\ rows'[t].exp \in {rows[t].exp, "past"}
    BY <2>2, <2>3, <2>4 DEF Used
  <2> QED BY <1>a, <2>1, <2>5, DistinctQuiet
<1>3. CASE Crash
  <2>1. UNCHANGED <<rows, tunnel>> /\ pc' = "free" /\ kind' = "none" /\ Crashes
    BY <1>3 DEF Crash, Blank
  <2>2. \A t \in Slots : Claims(t)' => Claims(t)
    BY <2>1 DEF Claims, Lasting, Used
  <2> QED BY <2>1, <2>2 DEF DInv, UpIsRecorded, ClaimsDiffer, HalfIsHeld, ExpiredLapsed,
             TriesFree, InPlace, BlockInPass, OrigFree, InPass, Connecting, Used
<1> QED BY <1>1, <1>2, <1>3 DEF Surroundings

LEMMA DistinctPass ==
    ASSUME Mild, IInv, DInv, IInv',
           Snapshot \/ (\E s \in Slots : Probe(s)) \/ BeginPass \/ Visit \/ EndPass
    PROVE  DInv'
<1>a. /\ TypeOK /\ cur \in Slots
      /\ pc \in Working => cur \in Used
      /\ InPass => pc \in Working
      /\ pc \in {"free", "visit"} => kind = "none"
  BY DEF IInv, TypeOK, Places, InPass, Working
<1>1. CASE Snapshot \/ (\E s \in Slots : Probe(s))
  <2>1. UNCHANGED <<rows, tunnel, pc, kind, cur, tries, orig>> /\ Used' = Used
    BY <1>1 DEF Snapshot, Probe, job, Used
  <2>2. \A t \in Used : rows'[t] = rows[t]
    BY <2>1
  <2> QED BY <1>a, <2>1, <2>2, DistinctQuiet
<1>2. ASSUME UNCHANGED <<rows, tunnel, kind>>, pc \in {"free", "visit"}, pc' \in {"free", "visit"}
      PROVE  DInv'
  <2>1. \A t \in Slots : Claims(t)' => Claims(t)
    BY <1>2 DEF Claims, Lasting, Used
  <2> QED BY <1>2, <1>a, <2>1 DEF DInv, UpIsRecorded, ClaimsDiffer, HalfIsHeld, ExpiredLapsed,
             TriesFree, InPlace, BlockInPass, OrigFree, InPass, Connecting, Used
<1>3. CASE BeginPass \/ EndPass \/ \E s \in Slots : Skip(s)
  <2>1. UNCHANGED <<rows, tunnel, kind>> /\ pc \in {"free", "visit"} /\ pc' \in {"free", "visit"}
    BY <1>3 DEF BeginPass, EndPass, Skip, Advance, job
  <2> QED BY <1>2, <2>1
<1>4. ASSUME NEW s \in Slots, Expire(s) PROVE DInv'
  <2> DEFINE e == [rows[s] EXCEPT !.status = "expired"]
  <2>1. pc = "visit" /\ s \in Used /\ rows[s] \in Exits /\ rows[s].exp = "past" /\ kind' = "none"
    BY <1>4, <1>a, UsedRow DEF IInv, QueueHeld, Expire, Lapsed, First, job
  <2>2. e \in Exits /\ e.status = "expired" /\ e.exp = "past" /\ e # NoExit
    <3>1. e \in Exits /\ e.status = "expired" /\ e.exp = "past"
      BY <2>1 DEF Exits, Statuses
    <3> QED BY <3>1, NoExitAssumption
  <2>3. StopOK(s) /\ pc' = "visit" /\ (Write(s, NoExit) \/ Write(s, e))
    BY <1>4 DEF Expire, Mild, StopFails, Advance
  <2> HIDE DEF e
  <2>4. tunnel'[s] = Down /\ \A t \in Slots \ {s} : tunnel'[t] = tunnel[t]
    BY <1>a, <2>3, CleanUp
  <2>5. rows'[s] \in {NoExit, e} /\ \A t \in Slots \ {s} : rows'[t] = rows[t]
    BY <1>a, <2>2, <2>3, WriteRow
  <2>6. ~Claims(s)'
    BY <2>2, <2>3, <2>4, <2>5 DEF Claims, Lasting, Used
  <2> QED BY <2>1, <2>2, <2>3, <2>4, <2>5, <2>6, StepAt DEF Working, Connecting, Half, InPass
<1>5. ASSUME NEW s \in Slots, BeginRepair(s) PROVE DInv'
  <2>1. /\ pc = "visit" /\ s \in Used /\ rows[s] \in Exits /\ rows[s] # NoExit
        /\ rows[s].exp # "past"
        /\ UNCHANGED <<rows, tunnel>> /\ cur' = s /\ tries' = {} /\ orig' = rows[s].cand
    BY <1>5, <1>a, UsedRow, NoExitAssumption DEF IInv, QueueHeld, BeginRepair, Lapsed, First
  <2>2. \/ /\ kind' = "restore" /\ pc' = "restore"
           /\ rows[s].status \in Half \cup {"running"}
        \/ kind' = "faultswap" /\ pc' = "swap" /\ rows[s].status = "faulted"
    <3>1. Repair(s) = "restore" => rows[s].status \in Half \cup {"running"}
      BY DEF Repair, Half
    <3>2. Repair(s) = "faultswap" => rows[s].status = "faulted"
      BY DEF Repair
    <3>3. Repair(s) \in {"restore", "faultswap", "nothing"}
      BY DEF Repair
    <3> QED BY <1>5, <3>1, <3>2, <3>3 DEF BeginRepair
  <2>3. ~Crashes => rows[s].status \notin Half
    BY <2>1 DEF DInv, HalfIsHeld, Connecting
  <2>4. "extend" \notin Requests => Claims(s)
    BY <2>1, <2>2 DEF Claims, Lasting, Half
  <2>5. Claims(s)' => Claims(s)
    <3>1. CASE "extend" \in Requests
      BY <2>1, <2>2, <2>3, <3>1 DEF Mild, Claims, Lasting, Used
    <3> QED BY <2>4, <3>1
  <2>6. "extend" \notin Requests => \A t \in Slots \ {s} : Claims(t) => rows[t].cand # orig'
    BY <2>1, <2>4 DEF DInv, ClaimsDiffer
  <2>7. /\ tunnel[s] # Down => tunnel[s] = rows[s].cand /\ rows[s].status # "expired"
        /\ pc' \notin Connecting /\ pc' # "block"
    BY <2>2 DEF DInv, UpIsRecorded, Connecting
  <2> QED BY <2>1, <2>2, <2>3, <2>5, <2>6, <2>7, StepAt DEF Half
<1> QED BY <1>1, <1>3, <1>4, <1>5 DEF Visit

LEMMA DistinctApi ==
    ASSUME Mild, IInv, DInv, IInv', Create \/ SwapRequest \/ Extend \/ Delete
    PROVE  DInv'
<1>a. TypeOK /\ pc = "free" /\ kind = "none"
  BY DEF IInv, TypeOK, Places, Create, SwapRequest, Extend, Delete, Take
<1>b. \A t \in Used : t \in Slots /\ rows[t] \in Exits /\ rows[t] # NoExit
                      /\ (~Crashes => rows[t].status \notin Half)
  BY <1>a, UsedRow, NoExitAssumption DEF DInv, HalfIsHeld, Connecting
<1>c. \A t \in Slots : tunnel[t] # Down =>
             (t \in Used /\ tunnel[t] = rows[t].cand /\ rows[t].status # "expired")
  BY DEF DInv, UpIsRecorded
<1>1. CASE Create
  <2>1. PICK s \in Slots \ Used, policy \in Policies, exp \in Lives, c \in Cands,
             ranked \in SUBSET Cands :
             /\ c \notin Taken(s) /\ ranked \subseteq Cands \ Taken(s)
             /\ Take("create", s, "try")
             /\ Write(s, [cand |-> c, status |-> "provisioning", policy |-> policy,
                          exp |-> exp, bound |-> FALSE])
             /\ tries' = ranked \cup {c}
    BY <1>1 DEF Create, First
  <2> DEFINE e == [cand |-> c, status |-> "provisioning", policy |-> policy,
                   exp |-> exp, bound |-> FALSE]
  <2>2. e \in Exits /\ e.status = "provisioning" /\ e.cand = c /\ e # NoExit
    <3>1. exp \in {"never", "ahead", "past"}
      BY ExitAssumption
    <3>2. e \in Exits /\ e.status = "provisioning" /\ e.cand = c
      BY <3>1, ExitAssumption DEF Exits, Statuses
    <3> QED BY <3>2, NoExitAssumption
  <2>3. Write(s, e)
    BY <2>1
  <2> HIDE DEF e
  <2>4. rows'[s] = e /\ \A t \in Slots \ {s} : rows'[t] = rows[t]
    BY <1>a, <2>1, <2>2, <2>3, WriteRow
  <2>5. tunnel' = tunnel /\ tunnel[s] = Down /\ pc' = "try" /\ cur' = s /\ kind' = "create"
    BY <1>c, <2>1 DEF Take
  <2>6. \A t \in Slots \ {s} : Claims(t) => (rows[t].cand # c /\ rows[t].cand \notin tries')
    BY <2>1, ClaimIsTaken
  <2> QED BY <1>a, <2>1, <2>2, <2>4, <2>5, <2>6, StepAt DEF Connecting, Half, InPass
<1>2. CASE SwapRequest
  <2>1. PICK s \in Used : Take("swap", s, "swap")
    BY <1>2 DEF SwapRequest
  <2>2. /\ UNCHANGED <<rows, tunnel>> /\ s \in Slots
        /\ kind' = "swap" /\ cur' = s /\ pc' = "swap"
    BY <1>2, <1>b, <2>1 DEF SwapRequest, NoWrite, Take
  <2>3. Claims(s)' => Claims(s)
    BY <2>2 DEF Claims, Lasting, Used
  <2>4. "extend" \notin Requests /\ rows[s].status = "expired" => rows[s].exp = "past"
    BY <2>1 DEF DInv, ExpiredLapsed
  <2> QED BY <1>a, <1>b, <1>c, <2>1, <2>2, <2>3, <2>4, StepAt DEF Connecting, InPass
<1>3. CASE Extend
  <2>1. PICK s \in Used, exp \in Lives : rows' = [rows EXCEPT ![s].exp = exp]
    BY <1>3 DEF Extend
  <2>2. UNCHANGED <<tunnel, pc, kind>> /\ "extend" \in Requests /\ s \in Slots
    BY <1>3, <1>b DEF Extend, job
  <2> DEFINE e == [rows[s] EXCEPT !.exp = exp]
  <2>3. e \in Exits /\ e.status = rows[s].status /\ e.cand = rows[s].cand /\ e # NoExit
    BY <1>b, ExitAssumption, NoExitAssumption DEF Exits
  <2>4. rows' = [rows EXCEPT ![s] = e]
    BY <2>1
  <2> HIDE DEF e
  <2>5. rows'[s] = e /\ \A t \in Slots \ {s} : rows'[t] = rows[t]
    BY <1>a, <2>2, <2>4 DEF TypeOK
  <2>6. Claims(s)' => Claims(s)
    BY <1>a, <2>2, <2>3, <2>5 DEF Claims, Lasting, Used
  <2> QED BY <1>a, <1>b, <1>c, <2>2, <2>3, <2>5, <2>6, StepAt DEF Working, Connecting, InPass, Mild
<1>4. CASE Delete
  <2>1. PICK s \in Used : StopOK(s) /\ kind' = "delete" /\ cur' = s /\ pc' = "drop"
    BY <1>4 DEF Delete, StopFails, Mild
  <2>2. rows' = rows /\ s \in Slots
    BY <1>4, <1>b DEF Delete
  <2>3. tunnel'[s] = Down /\ \A t \in Slots \ {s} : tunnel'[t] = tunnel[t]
    BY <1>a, <2>1, <2>2, CleanUp
  <2>4. Claims(s)' => Claims(s)
    BY <2>1, <2>2, <2>3 DEF Claims, Lasting, Used
  <2>5. "extend" \notin Requests /\ rows[s].status = "expired" => rows[s].exp = "past"
    BY <2>1 DEF DInv, ExpiredLapsed
  <2> QED BY <1>a, <1>b, <2>1, <2>2, <2>3, <2>4, <2>5, StepAt DEF Connecting, InPass
<1> QED BY <1>1, <1>2, <1>3, <1>4

----------------------------------------------------------------------------

\* For any number of slots and candidates: while clean-ups succeed and writes
\* are made, no two exits are connected to one candidate, unless kills and
\* extensions may both happen.  They may not: another exit takes an expired
\* row's candidate, a kill cuts a swap of the expired row short, an extension
\* revives it, and the pass restores it with the candidate the row still names
\* (service.go:442-470, 568-613, 816-825).
THEOREM NoSharedCandidate ==
    ASSUME ~Failures, Stuck = {}, ~Crashes \/ "extend" \notin Requests
    PROVE  Spec => []DistinctTunnels
<1>1. Mild
  BY DEF Mild
<1>2. Init => DInv
  <2> SUFFICES ASSUME Init PROVE DInv
    OBVIOUS
  <2>1. Used = {} /\ pc = "free" /\ ~InPass /\ \A s \in Slots : tunnel[s] = Down
    BY DEF Init, Used, InPass
  <2> QED BY <2>1 DEF DInv, UpIsRecorded, ClaimsDiffer, Claims, HalfIsHeld, ExpiredLapsed,
             TriesFree, InPlace, BlockInPass, OrigFree, Connecting
<1>3. IInv /\ IInv' /\ DInv /\ [Next]_vars => DInv'
  <2> SUFFICES ASSUME IInv, IInv', DInv, [Next]_vars PROVE DInv'
    OBVIOUS
  <2>1. CASE Next
    BY <1>1, <2>1, DistinctApi, DistinctPass, DistinctOperation, DistinctOutside DEF Next
  <2>2. CASE UNCHANGED vars
    BY <2>2 DEF vars, job, DInv, UpIsRecorded, ClaimsDiffer, HalfIsHeld, ExpiredLapsed,
       TriesFree, InPlace, BlockInPass, OrigFree, Claims, Lasting, Used, InPass
  <2> QED BY <2>1, <2>2
<1>4. DInv => DistinctTunnels
  BY DEF DInv, UpIsRecorded, ClaimsDiffer, Claims, DistinctTunnels
<1> QED BY <1>2, <1>3, <1>4, Invariance, PTL DEF Spec

=============================================================================
