----------------------------- MODULE ClusterProofs -----------------------------
(***************************************************************************)
(* The control loop, while the operator only scales, adds and removes      *)
(* apps, implements Cluster: each handler moves every slot in one of the   *)
(* ways Cluster allows, or leaves it.                                      *)
(*                                                                         *)
(* A slot's cell is that of its only instance (SInv), what is launched is  *)
(* launched in a wanted slot (TInv), and a stop never loses its signal     *)
(* (IInv), so the three invariants together carry the mapping.             *)
(***************************************************************************)
EXTENDS ReconcilerScaleProofs

RInv == SInv /\ TInv

\* The mapping, slot by slot.
Cells == [s \in Slot |-> CellAt(s)]
Open == pc \notin {"teardown", "down"}
CellsFollow ==
    /\ \A i \in DOMAIN inst : SlotOf(i) \in Slot /\ CellAt(SlotOf(i)) = CellOf(inst[i])
    /\ \A s \in Slot : OfSlot(s) = {} => CellAt(s) = "empty"

\* The ways a handler changes the cell of an instance it only stops.
SameOrHalted(c, d) == d = c \/ (c = "live" /\ d = "stopping")

-----------------------------------------------------------------------------
\* A slot shows what its instance is.
LEMMA CellsAreThose == SInv => CellsFollow
<1> SUFFICES ASSUME SInv PROVE CellsFollow
  OBVIOUS
<1>1. ASSUME NEW i \in DOMAIN inst
      PROVE  SlotOf(i) \in Slot /\ CellAt(SlotOf(i)) = CellOf(inst[i])
  <2>1. SlotOf(i) \in Slot
    BY DEF SInv, IInv, InstancesOK, Id, SlotOf
  <2>2. OfSlot(SlotOf(i)) = {i}
    BY DEF SInv, OfSlot
  <2>3. (CHOOSE j \in {i} : TRUE) = i
    OBVIOUS
  <2> QED
    BY <2>1, <2>2, <2>3 DEF CellAt
<1> QED
  BY <1>1 DEF CellsFollow, CellAt

\* A cluster always wants some slot.
LEMMA SomethingIsWanted == IInv => Desired \in (SUBSET Slot) \ {{}}
<1> SUFFICES ASSUME IInv PROVE \E s \in Slot : s \in Desired
  BY DEF Desired
<1>1. PICK a \in selected : a \in manifest.apps
  BY DEF IInv, LoopTypeOK
<1>2. a \in App /\ manifest.cfg[a].replicas \in 0 .. MaxReplicas
  BY <1>1, ManifestsAssumption DEF IInv, LoopTypeOK, Manifest, AppConfig
<1>3. manifest.cfg[a].replicas > 0
  BY <1>1 DEF IInv, LoopTypeOK, Loadable
<1>4. <<a, 0>> \in Slot /\ <<a, 0>> \in Desired
  BY <1>1, <1>2, <1>3, ConstantsAssumption DEF Slot, Desired
<1> QED
  BY <1>4

\* What the changes the handlers make to an instance mean for its cell.
LEMMA StopCell ==
    ASSUME NEW r \in Instance, NEW b
    PROVE  SameOrHalted(CellOf(r), CellOf(Stop(r, b)))
BY DEF SameOrHalted, CellOf, Stop, Running, Instance

LEMMA EscalatedCell ==
    ASSUME NEW r, Coherent(r) PROVE CellOf(Escalated(r)) = CellOf(r)
<1>1. CASE r.phase = "Terminating" /\ r.timer = "due"
  BY <1>1 DEF Coherent, CellOf, Escalated, Alive, Instance
<1>2. CASE ~(r.phase = "Terminating" /\ r.timer = "due")
  BY <1>2 DEF Escalated
<1> QED
  BY <1>1, <1>2

LEMMA HarvestCell ==
    ASSUME NEW r, Coherent(r), r.proc = "exited"
    PROVE  /\ CellOf(r) = "dead" /\ CellOf(BackedOff(r)) = "waiting"
           /\ CellOf(Harvested(r)) = "waiting"
BY DEF Coherent, CellOf, BackedOff, Harvested, Instance

LEMMA LaunchCell ==
    ASSUME NEW i, NEW r \in Instance, ~Running(r)
    PROVE  /\ CellOf(r) = "waiting" /\ CellOf(SpawnFailed(r)) = "waiting"
           /\ CellOf(Spawned(i, r)) = "live"
BY DEF CellOf, Running, SpawnFailed, Spawned, Instance

LEMMA AnswerCell ==
    ASSUME NEW r \in Instance, NEW ok
    PROVE  /\ SameOrHalted(CellOf(r), CellOf(ReadyAnswer(r, ok)))
           /\ SameOrHalted(CellOf(r), CellOf(LiveAnswer(r, ok)))
<1>1. SameOrHalted(CellOf(r), CellOf(ReadyAnswer(r, ok)))
  <2>1. /\ CellOf([r EXCEPT !.phase = "Ready", !.everReady = TRUE, !.timer = "off"])
              = CellOf(r)
        /\ CellOf([r EXCEPT !.phase = "Unready"]) = CellOf(r)
    BY DEF CellOf, Instance
  <2> QED
    BY <2>1, StopCell DEF ReadyAnswer, SameOrHalted
<1>2. SameOrHalted(CellOf(r), CellOf(LiveAnswer(r, ok)))
  <2>1. /\ [r EXCEPT !.liveFails = @ + 1] \in Instance
        /\ CellOf([r EXCEPT !.liveFails = @ + 1]) = CellOf(r)
        /\ CellOf([r EXCEPT !.liveFails = 0]) = CellOf(r)
    BY DEF CellOf, Instance
  <2>2. SameOrHalted(CellOf(r), CellOf(Stop([r EXCEPT !.liveFails = @ + 1], TRUE)))
    BY <2>1, StopCell
  <2> QED
    BY <2>1, <2>2 DEF LiveAnswer, SameOrHalted
<1> QED
  BY <1>1, <1>2

-----------------------------------------------------------------------------
\* The ways an instance may move.
Moved(i) ==
    \/ SameOrHalted(CellOf(inst[i]), CellOf(inst'[i]))
    \/ CellOf(inst[i]) \in {"live", "stopping"} /\ CellOf(inst'[i]) = "dead"
    \/ CellOf(inst[i]) = "dead" /\ CellOf(inst'[i]) = "waiting"
    \/ /\ Open /\ SlotOf(i) \in Desired
       /\ CellOf(inst[i]) = "waiting" /\ CellOf(inst'[i]) = "live"
Removed(i) ==
    \/ CellOf(inst[i]) = "dead"
    \/ CellOf(inst[i]) = "waiting" /\ SlotOf(i) \notin Desired
Created(i) ==
    /\ Open /\ SlotOf(i) \in Desired /\ OfSlot(SlotOf(i)) = {}
    /\ CellOf(inst'[i]) \in {"waiting", "live"}

\* A handler that moves instances so moves the slots as Cluster does.
LEMMA MoveOfInstances ==
    ASSUME RInv, RInv', UNCHANGED <<manifest, selected>>, Open' = Open,
           \A i \in DOMAIN inst \intersect DOMAIN inst' : Moved(i),
           \A i \in DOMAIN inst \ DOMAIN inst' : Removed(i),
           \A i \in DOMAIN inst' \ DOMAIN inst : Created(i)
    PROVE  Slots!Next
<1>1. CellsFollow
  BY CellsAreThose DEF RInv
<1>2. CellsFollow'
  <2>1. SInv'
    BY DEF RInv
  <2> QED
    BY <2>1, CellsAreThose, PTL
<1>3. Desired' = Desired
  BY DEF Desired
<1>4. Cells' = [s \in Slot |-> Cells'[s]]
  BY DEF Cells
<1>5. ASSUME NEW s \in Slot
      PROVE  \/ Cells'[s] = Cells[s]
             \/ Slots!Launch(s) \/ Slots!Await(s) \/ Slots!Halt(s) \/ Slots!Exit(s)
             \/ Slots!Harvest(s) \/ Slots!Vacate(s)
  <2> USE DEF Slots!Launch, Slots!Await, Slots!Halt, Slots!Exit, Slots!Harvest,
              Slots!Vacate
  <2>1. Cells[s] = CellAt(s) /\ Cells'[s] = CellAt(s)'
    BY DEF Cells
  <2>2. CASE \E i \in DOMAIN inst : SlotOf(i) = s
    <3> PICK i \in DOMAIN inst : SlotOf(i) = s
      BY <2>2
    <3>1. CellAt(s) = CellOf(inst[i])
      BY <1>1 DEF CellsFollow
    <3>2. CASE i \in DOMAIN inst'
      <4>1. CellAt(s)' = CellOf(inst'[i])
        BY <1>2, <3>2 DEF CellsFollow, SlotOf, CellOf
      <4> QED
        BY <2>1, <3>1, <3>2, <4>1 DEF Moved, SameOrHalted, Open
    <3>3. CASE i \notin DOMAIN inst'
      <4>1. \A j \in DOMAIN inst' : SlotOf(j) # s
        <5> SUFFICES ASSUME NEW j \in DOMAIN inst', SlotOf(j) = s PROVE FALSE
          OBVIOUS
        <5>1. j \notin DOMAIN inst
          BY <3>3 DEF RInv, SInv
        <5>2. OfSlot(s) = {}
          BY <5>1 DEF Created
        <5> QED
          BY <5>2 DEF OfSlot
      <4>2. OfSlot(s)' = {}
        BY <4>1 DEF OfSlot, SlotOf
      <4>3. CellAt(s)' = "empty"
        BY <1>2, <4>2 DEF CellsFollow
      <4> QED
        BY <2>1, <3>1, <3>3, <4>3 DEF Removed
    <3> QED
      BY <3>2, <3>3
  <2>3. CASE ~ \E i \in DOMAIN inst : SlotOf(i) = s
    <3>1. CellAt(s) = "empty"
      BY <1>1, <2>3 DEF CellsFollow, OfSlot
    <3>2. CASE \E i \in DOMAIN inst' : SlotOf(i) = s
      <4> PICK i \in DOMAIN inst' : SlotOf(i) = s
        BY <3>2
      <4>1. CellAt(s)' = CellOf(inst'[i])
        BY <1>2 DEF CellsFollow, SlotOf, CellOf
      <4>2. Created(i)
        BY <2>3
      <4> QED
        BY <2>1, <3>1, <4>1, <4>2 DEF Created, Open
    <3>3. CASE ~ \E i \in DOMAIN inst' : SlotOf(i) = s
      <4>1. OfSlot(s)' = {}
        BY <3>3 DEF OfSlot, SlotOf
      <4> QED
        BY <1>2, <2>1, <3>1, <4>1 DEF CellsFollow
    <3> QED
      BY <3>2, <3>3
  <2> QED
    BY <2>2, <2>3
<1> QED
  BY <1>3, <1>4, <1>5 DEF Slots!Next, Slots!Move, Cells, Open

-----------------------------------------------------------------------------
(***************************************************************************)
(* The actions.                                                            *)
(***************************************************************************)

\* The handlers that keep every instance, and only stop some.
LEMMA StopsAreMoves ==
    ASSUME RInv, RInv', UNCHANGED <<manifest, selected>>, Open' = Open,
           DOMAIN inst' = DOMAIN inst,
           \A i \in DOMAIN inst : \E b : inst'[i] \in {inst[i], Stop(inst[i], b)}
    PROVE  Slots!Next
<1>1. ASSUME NEW i \in DOMAIN inst PROVE Moved(i)
  <2>1. inst[i] \in Instance
    BY DEF RInv, SInv, IInv, InstancesOK, Coherent
  <2> QED
    BY <2>1, StopCell DEF Moved, SameOrHalted
<1> QED
  BY <1>1, MoveOfInstances

\* reap notices exits, and drops the slot of what was not to be restarted.
LEMMA ReapMoves == RInv /\ RInv' /\ Reap => Slots!Next
<1> SUFFICES ASSUME RInv, RInv', Reap PROVE Slots!Next
  OBVIOUS
<1> DEFINE gone == {SlotOf(i) : i \in {j \in DOMAIN inst : GoneForGood(j)}}
<1>1. inst' = [i \in Remaining(gone) |-> Reaped(i)]
  BY DEF Reap
<1>2. \A i \in DOMAIN inst : Coherent(inst[i])
  BY DEF RInv, SInv, IInv, InstancesOK
<1>3. ASSUME NEW i \in DOMAIN inst \intersect DOMAIN inst' PROVE Moved(i)
  <2>1. inst'[i] = Reaped(i) /\ Coherent(inst[i])
    BY <1>1, <1>2
  <2>2. CASE inst[i].proc = "none"
    BY <2>1, <2>2 DEF Reaped, Moved, SameOrHalted
  <2>3. CASE inst[i].proc = "exited"
    BY <2>1, <2>3, HarvestCell DEF Reaped, Moved
  <2>4. CASE inst[i].proc \notin {"none", "exited"}
    BY <2>1, <2>4, EscalatedCell DEF Reaped, Moved, SameOrHalted
  <2> QED
    BY <2>2, <2>3, <2>4
<1>4. ASSUME NEW i \in DOMAIN inst \ DOMAIN inst' PROVE Removed(i)
  <2>1. PICK j \in DOMAIN inst : GoneForGood(j) /\ SlotOf(j) = SlotOf(i)
    BY <1>1, <1>4 DEF Remaining
  <2>2. i = j
    BY <2>1 DEF RInv, SInv
  <2> QED
    BY <1>2, <2>1, <2>2, HarvestCell DEF GoneForGood, Removed
<1>5. /\ DOMAIN inst' \subseteq DOMAIN inst
      /\ UNCHANGED <<manifest, selected>> /\ Open' = Open
  BY <1>1 DEF Reap, Remaining, Goto, Open, loopVars
<1> QED
  BY <1>3, <1>4, <1>5, MoveOfInstances

\* terminate_undesired stops what is not wanted, and forgets what has no child.
LEMMA TerminateMoves == RInv /\ RInv' /\ TerminateUndesired => Slots!Next
<1> SUFFICES ASSUME RInv, RInv', TerminateUndesired PROVE Slots!Next
  OBVIOUS
<1> DEFINE idle == {SlotOf(i) : i \in {j \in DOMAIN inst :
                                        Undesired(j) /\ ~Running(inst[j])}}
<1>1. inst' = [i \in Remaining(idle) |-> IF Undesired(i)
                                          THEN StopUndesired(inst[i]) ELSE inst[i]]
  BY DEF TerminateUndesired
<1>2. \A i \in DOMAIN inst : inst[i] \in Instance
  BY DEF RInv, SInv, IInv, InstancesOK, Coherent
<1>3. ASSUME NEW i \in DOMAIN inst \intersect DOMAIN inst' PROVE Moved(i)
  <2>1. inst'[i] \in {inst[i], Stop(inst[i], FALSE)} /\ inst[i] \in Instance
    BY <1>1, <1>2 DEF StopUndesired
  <2> QED
    BY <2>1, StopCell DEF Moved, SameOrHalted
<1>4. ASSUME NEW i \in DOMAIN inst \ DOMAIN inst' PROVE Removed(i)
  <2>1. PICK j \in DOMAIN inst :
          Undesired(j) /\ ~Running(inst[j]) /\ SlotOf(j) = SlotOf(i)
    BY <1>1, <1>4 DEF Remaining
  <2>2. i = j
    BY <2>1 DEF RInv, SInv
  <2> QED
    BY <2>1, <2>2 DEF Undesired, Running, CellOf, Removed
<1>5. /\ DOMAIN inst' \subseteq DOMAIN inst
      /\ UNCHANGED <<manifest, selected>> /\ Open' = Open
  BY <1>1 DEF TerminateUndesired, Remaining, Goto, Open, loopVars
<1> QED
  BY <1>3, <1>4, <1>5, MoveOfInstances

\* Nothing is stale, so roll_stale moves nothing.
LEMMA RollMoves == RInv /\ RInv' /\ RollStale => Slots!Next
<1> SUFFICES ASSUME RInv, RInv', RollStale PROVE Slots!Next
  OBVIOUS
<1>1. \A i \in DOMAIN inst : inst'[i] \in {inst[i], Stop(inst[i], FALSE)}
  BY DEF RollStale
<1>2. /\ DOMAIN inst' = DOMAIN inst
      /\ UNCHANGED <<manifest, selected>> /\ Open' = Open
  BY DEF RollStale, Goto, Open, loopVars
<1> QED
  BY <1>1, <1>2, StopsAreMoves

\* spawn_missing fills wanted slots that are empty or wait, and no others.
LEMMA SpawnMoves == RInv /\ RInv' /\ SpawnMissing => Slots!Next
<1> SUFFICES ASSUME RInv, RInv', SpawnMissing PROVE Slots!Next
  OBVIOUS
<1> PICK failing :
      inst' = [i \in DOMAIN WithPending |->
                 IF ~Startable(i, WithPending[i]) THEN WithPending[i]
                 ELSE IF i \in failing THEN SpawnFailed(WithPending[i])
                 ELSE Spawned(i, WithPending[i])]
  BY DEF SpawnMissing
<1>1. /\ pc = "spawn" /\ Open /\ Open' = Open
      /\ UNCHANGED <<manifest, selected>>
  BY DEF SpawnMissing, Goto, Open, loopVars
<1>2. ASSUME NEW i \in DOMAIN inst \intersect DOMAIN inst' PROVE Moved(i)
  <2>1. WithPending[i] = inst[i] /\ inst[i] \in Instance
    BY DEF WithPending, RInv, SInv, IInv, InstancesOK, Coherent
  <2>2. CASE Startable(i, inst[i])
    <3>1. ~Running(inst[i]) /\ SlotOf(i) \in Desired
      BY <1>1, <2>2 DEF Startable, RInv, TInv
    <3>2. inst'[i] \in {SpawnFailed(inst[i]), Spawned(i, inst[i])}
      BY <2>1, <2>2
    <3> QED
      BY <1>1, <2>1, <3>1, <3>2, LaunchCell DEF Moved, SameOrHalted
  <2>3. CASE ~Startable(i, inst[i])
    BY <2>1, <2>3 DEF Moved, SameOrHalted
  <2> QED
    BY <2>2, <2>3
<1>3. ASSUME NEW i \in DOMAIN inst' \ DOMAIN inst PROVE Created(i)
  <2>1. PICK s \in Missing : i = NewId(s)
    BY <1>3 DEF WithPending
  <2>2. SlotOf(i) = s /\ s \in Desired /\ OfSlot(s) = {}
    BY <2>1, MissingIsEmpty DEF NewId, SlotOf, OfSlot, RInv
  <2>3. WithPending[i] = PendingFor(s) /\ i \in DOMAIN WithPending
    BY <1>3, <2>2 DEF WithPending
  <2>4. /\ CellOf(PendingFor(s)) = "waiting"
        /\ CellOf(SpawnFailed(PendingFor(s))) = "waiting"
        /\ CellOf(Spawned(i, PendingFor(s))) = "live"
    BY DEF CellOf, PendingFor, SpawnFailed, Spawned
  <2>5. inst'[i] \in {PendingFor(s), SpawnFailed(PendingFor(s)),
                      Spawned(i, PendingFor(s))}
    BY <2>3
  <2> QED
    BY <1>1, <2>2, <2>4, <2>5 DEF Created
<1>4. DOMAIN inst \subseteq DOMAIN inst'
  BY DEF WithPending
<1> QED
  BY <1>1, <1>2, <1>3, <1>4, MoveOfInstances

\* A probe leaves its instance or stops it, once.
LEMMA ProbeMoves ==
    ASSUME NEW i \in todo, NEW readyDue \in BOOLEAN, NEW liveDue \in BOOLEAN
    PROVE  RInv /\ RInv' /\ Probe(i, readyDue, liveDue) => Slots!Next
<1> SUFFICES ASSUME RInv, RInv', Probe(i, readyDue, liveDue) PROVE Slots!Next
  OBVIOUS
<1>1. PICK r \in AfterReady(i, inst[i], readyDue) :
        \E s \in AfterLive(i, r, liveDue) : inst' = [inst EXCEPT ![i] = s]
  BY DEF Probe
<1>2. PICK s \in AfterLive(i, r, liveDue) : inst' = [inst EXCEPT ![i] = s]
  BY <1>1
<1>3. i \in DOMAIN inst /\ \A j \in DOMAIN inst : Coherent(inst[j])
  BY DEF RInv, SInv, IInv, InstancesOK
<1>4. Coherent(r)
  BY <1>1, <1>3, AnswersType, ReadyAnswerCoherent DEF AfterReady, Probed
<1>5. SameOrHalted(CellOf(inst[i]), CellOf(r))
  BY <1>1, <1>3, AnswerCell DEF AfterReady, SameOrHalted, Coherent
<1>6. SameOrHalted(CellOf(r), CellOf(s))
  BY <1>2, <1>4, AnswerCell DEF AfterLive, SameOrHalted, Coherent
<1>7. \A j \in DOMAIN inst : Moved(j)
  BY <1>2, <1>3, <1>5, <1>6 DEF Moved, SameOrHalted
<1>8. /\ DOMAIN inst' = DOMAIN inst
      /\ UNCHANGED <<manifest, selected>> /\ Open' = Open
  BY <1>2 DEF Probe, Open, loopVars
<1> QED
  BY <1>7, <1>8, MoveOfInstances

\* A child runs and exits by itself.
LEMMA ChildMoves ==
    ASSUME NEW i \in DOMAIN inst
    PROVE  RInv /\ RInv' /\ Child(i) => Slots!Next
<1> SUFFICES ASSUME RInv, RInv', Child(i) PROVE Slots!Next
  OBVIOUS
<1>1. inst[i] \in Instance
  BY DEF RInv, SInv, IInv, InstancesOK, Coherent
<1>2. \/ /\ Alive(inst[i])
         /\ \E p \in {"up", "exited"} : inst' = [inst EXCEPT ![i].proc = p]
      \/ inst' = [inst EXCEPT ![i].timer = "due"]
  BY DEF Child, Boot, Crash, ObeySigterm, Killed, Elapse, ChildIs, Alive
<1>3. Moved(i)
  <2>1. CASE inst' = [inst EXCEPT ![i].timer = "due"]
    BY <1>1, <2>1 DEF Moved, SameOrHalted, CellOf, Instance
  <2>2. ASSUME Alive(inst[i]), NEW p \in {"up", "exited"},
               inst' = [inst EXCEPT ![i].proc = p]
        PROVE  Moved(i)
    BY <1>1, <2>2 DEF Moved, SameOrHalted, CellOf, Alive, Instance
  <2> QED
    BY <1>2, <2>1, <2>2
<1>4. \A j \in DOMAIN inst : j # i => inst'[j] = inst[j]
  BY <1>2
<1>5. /\ DOMAIN inst' = DOMAIN inst
      /\ UNCHANGED <<manifest, selected>> /\ Open' = Open
  BY <1>2 DEF Child, Boot, Crash, ObeySigterm, Killed, Elapse, ChildIs, Open, loopVars
<1> QED
  BY <1>3, <1>4, <1>5, MoveOfInstances DEF Moved, SameOrHalted

\* teardown halts every live child at once.
LEMMA ShutdownCloses == RInv /\ RInv' /\ Shutdown => Slots!Next
<1> SUFFICES ASSUME RInv, RInv', Shutdown PROVE Slots!Next
  OBVIOUS
<1>1. CellsFollow
  BY CellsAreThose DEF RInv
<1>2. CellsFollow'
  <2>1. SInv'
    BY DEF RInv
  <2> QED
    BY <2>1, CellsAreThose, PTL
<1>3. /\ DOMAIN inst' = DOMAIN inst /\ Desired' = Desired
      /\ Open = TRUE /\ Open' = FALSE
  BY DEF Shutdown, Desired, Open, loopVars
<1>4. ASSUME NEW i \in DOMAIN inst
      PROVE  CellOf(inst'[i]) = IF CellOf(inst[i]) = "live" THEN "stopping"
                                ELSE CellOf(inst[i])
  <2> DEFINE stop == Stop(inst[i], inst[i].respawn)
             sig == IF inst[i].sig = "kill" THEN "kill" ELSE "term"
  <2>1. Coherent(inst[i]) /\ inst[i] \in Instance /\ inst[i].respawn \in BOOLEAN
    BY DEF RInv, SInv, IInv, InstancesOK, Coherent, Instance
  <2>2. CASE Running(inst[i])
    <3>1. inst'[i] = [stop EXCEPT !.sig = sig]
      BY <2>2 DEF Shutdown
    <3>2. stop \in Instance /\ stop.proc = inst[i].proc
      <4>1. stop \in Instance
        BY <2>1, StopCoherent DEF Coherent
      <4>2. stop.proc = inst[i].proc
        BY <2>1 DEF Stop, Instance
      <4> QED
        BY <4>1, <4>2
    <3>3. sig # "none"
      OBVIOUS
    <3> HIDE DEF stop, sig
    <3> QED
      BY <2>1, <2>2, <3>1, <3>2, <3>3 DEF CellOf, Running, Instance
  <2>3. CASE ~Running(inst[i])
    BY <2>3 DEF Shutdown, CellOf, Running
  <2> QED
    BY <2>2, <2>3
<1>5. ASSUME NEW s \in Slot
      PROVE  CellAt(s)' = IF CellAt(s) = "live" THEN "stopping" ELSE CellAt(s)
  <2>1. CASE \E i \in DOMAIN inst : SlotOf(i) = s
    <3> PICK i \in DOMAIN inst : SlotOf(i) = s
      BY <2>1
    <3>1. CellAt(s) = CellOf(inst[i]) /\ CellAt(s)' = CellOf(inst'[i])
      BY <1>1, <1>2, <1>3 DEF CellsFollow, SlotOf, CellOf
    <3> QED
      BY <1>4, <3>1
  <2>2. CASE ~ \E i \in DOMAIN inst : SlotOf(i) = s
    <3>1. OfSlot(s) = {} /\ OfSlot(s)' = {}
      BY <1>3, <2>2 DEF OfSlot, SlotOf
    <3> QED
      BY <1>1, <1>2, <3>1 DEF CellsFollow
  <2> QED
    BY <2>1, <2>2
<1> QED
  BY <1>3, <1>5 DEF Slots!Next, Slots!Close, Open

\* teardown then waits for them.
LEMMA PollMoves == RInv /\ RInv' /\ TeardownPoll => Slots!Next
<1> SUFFICES ASSUME RInv, RInv', TeardownPoll PROVE Slots!Next
  OBVIOUS
<1>1. ASSUME NEW i \in DOMAIN inst PROVE Moved(i)
  <2>1. Coherent(inst[i]) /\ inst'[i] = Harvested(inst[i])
    BY DEF TeardownPoll, RInv, SInv, IInv, InstancesOK
  <2>2. CASE inst[i].proc = "exited"
    BY <2>1, <2>2, HarvestCell DEF Moved
  <2>3. CASE inst[i].proc # "exited"
    BY <2>1, <2>3, EscalatedCell DEF Harvested, Moved, SameOrHalted
  <2> QED
    BY <2>2, <2>3
<1>2. /\ DOMAIN inst' = DOMAIN inst
      /\ UNCHANGED <<manifest, selected>> /\ Open' = Open
  BY DEF TeardownPoll, Open, loopVars
<1> QED
  BY <1>1, <1>2, MoveOfInstances

\* What leaves the instances alone, a reload included, is at most an edit.
LEMMA EditOfCluster ==
    ASSUME RInv, RInv', inst' = inst, Open' = Open
    PROVE  Slots!Next
<1>1. (Desired \in (SUBSET Slot) \ {{}})'
  <2>1. IInv'
    BY DEF RInv, SInv
  <2> QED
    BY <2>1, SomethingIsWanted, PTL
<1>2. \A s \in Slot : CellAt(s)' = CellAt(s)
  BY DEF CellAt, OfSlot, SlotOf, CellOf
<1> QED
  BY <1>1, <1>2 DEF Slots!Next, Slots!Edit, Open

-----------------------------------------------------------------------------
\* Every step of the loop, of a child, of the clock and of the operator is one
\* step of the cluster, or none.
LEMMA StepsMap == RInv /\ RInv' /\ [Next]_vars => [Slots!Next]_(Slots!vars)
<1> SUFFICES ASSUME RInv, RInv', [Next]_vars PROVE Slots!Next \/ UNCHANGED Slots!vars
  OBVIOUS
<1>1. CASE MaybeReload \/ ReverifyChecks \/ EndTick
  BY <1>1, EditOfCluster DEF MaybeReload, ReverifyChecks, EndTick, Goto, Open
<1>2. CASE StopCheckBlocked
  <2>1. /\ DOMAIN inst' = DOMAIN inst
        /\ \A i \in DOMAIN inst : inst'[i] \in {inst[i], Stop(inst[i], TRUE)}
    BY <1>2 DEF StopCheckBlocked
  <2>2. UNCHANGED <<manifest, selected>> /\ Open' = Open
    BY <1>2 DEF StopCheckBlocked, Goto, Open, loopVars
  <2> QED
    BY <2>1, <2>2, StopsAreMoves
<1>3. CASE RetireStaleSurplus
  <2>1. /\ DOMAIN inst' = DOMAIN inst
        /\ \A i \in DOMAIN inst : inst'[i] \in {inst[i], Stop(inst[i], FALSE)}
    BY <1>3 DEF RetireStaleSurplus
  <2>2. UNCHANGED <<manifest, selected>> /\ Open' = Open
    BY <1>3 DEF RetireStaleSurplus, Goto, Open, loopVars
  <2> QED
    BY <2>1, <2>2, StopsAreMoves
<1>4. CASE \E i \in DOMAIN inst : Child(i)
  BY <1>4, ChildMoves
<1>5. CASE \/ \E p \in doomed : Released(p)
           \/ \E m \in Manifests : Save(m)
           \/ Delete \/ UNCHANGED vars
  BY <1>5, EditOfCluster DEF Released, Save, Delete, vars, Open
<1> QED
  BY <1>1, <1>2, <1>3, <1>4, <1>5, ReapMoves, TerminateMoves, RollMoves, SpawnMoves,
     ProbeMoves, ShutdownCloses, PollMoves DEF Next, Tick

\* A cluster starts empty, and wanting something.
LEMMA InitMaps == Init => Slots!Init
<1> SUFFICES ASSUME Init PROVE Slots!Init
  OBVIOUS
<1>1. Desired \in (SUBSET Slot) \ {{}}
  BY InitInv, SomethingIsWanted
<1>2. \A s \in Slot : CellAt(s) = "empty"
  BY DEF Init, CellAt, OfSlot
<1> QED
  BY <1>1, <1>2 DEF Slots!Init, Init

\* However the operator scales, and whatever fails, the loop keeps the promise
\* that Cluster states.
THEOREM LoopImplementsCluster == Spec => ImplementsCluster
<1>1. Spec => []RInv
  BY SInvariance, TInvariance, PTL DEF RInv
<1> QED
  BY <1>1, InitMaps, StepsMap, PTL DEF Spec, ImplementsCluster, Slots!Spec

=============================================================================
