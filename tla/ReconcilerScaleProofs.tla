------------------------- MODULE ReconcilerScaleProofs -------------------------
(***************************************************************************)
(* While the operator only scales, adds and removes apps, a slot never has *)
(* two instances and no two children share a port.                         *)
(*                                                                         *)
(* Neither fact is inductive.  It holds because no instance is ever stale: *)
(* the port and the hash of each one are those some manifest gives to its  *)
(* slot, hence those every manifest that wants the slot gives to it.  So   *)
(* nothing is rolled, no surge port is given away, a slot is refilled only *)
(* when it is empty, and no handle is dropped with its child alive.        *)
(***************************************************************************)
EXTENDS ReconcilerScale, ReconcilerProofs

\* What the port and the hash of an instance in slot s are under manifest m.
Granted(m, s) == s[1] \in m.apps /\ s[2] \in 0 .. m.cfg[s[1]].replicas - 1
Fits(m, s, r) == /\ Granted(m, s)
                 /\ r.port = PortOf(m, s[1], s[2])
                 /\ r.hash = [spec |-> m.cfg[s[1]].spec, port |-> r.port]
FitsSome(s, r) == \E m \in Manifests : Fits(m, s, r)

SInv ==
    /\ IInv
    /\ DOMAIN slotPorts = {}
    /\ doomed = {}
    /\ \A i \in DOMAIN inst : FitsSome(SlotOf(i), inst[i])
    /\ \A i, j \in DOMAIN inst : SlotOf(i) = SlotOf(j) => i = j

SameLaunch(r, q) == q.port = r.port /\ q.hash = r.hash

-----------------------------------------------------------------------------
\* Only a launch sets the hash of an instance, and nothing its port.
LEMMA SameLaunchOfChanges ==
    ASSUME NEW r \in Instance, NEW b
    PROVE  /\ SameLaunch(r, Stop(r, b)) /\ SameLaunch(r, StopUndesired(r))
           /\ SameLaunch(r, BackedOff(r)) /\ SameLaunch(r, Escalated(r))
           /\ SameLaunch(r, Harvested(r)) /\ SameLaunch(r, SpawnFailed(r))
           /\ SameLaunch(r, ReadyAnswer(r, b)) /\ SameLaunch(r, LiveAnswer(r, b))
<1>1. \A c : SameLaunch(r, Stop(r, c))
  BY DEF Instance, SameLaunch, Stop
<1>2. SameLaunch(r, StopUndesired(r))
  BY <1>1 DEF StopUndesired, SameLaunch
<1>3. SameLaunch(r, BackedOff(r)) /\ SameLaunch(r, SpawnFailed(r))
  BY DEF Instance, SameLaunch, BackedOff, SpawnFailed
<1>4. SameLaunch(r, Escalated(r))
  BY DEF Instance, SameLaunch, Escalated
<1>5. SameLaunch(r, Harvested(r))
  BY <1>4 DEF Instance, SameLaunch, Harvested
<1>6. SameLaunch(r, ReadyAnswer(r, b))
  BY <1>1 DEF Instance, SameLaunch, ReadyAnswer
<1>7. SameLaunch(r, LiveAnswer(r, b))
  <2>1. SameLaunch(r, Stop([r EXCEPT !.liveFails = @ + 1], TRUE))
    BY DEF Instance, SameLaunch, Stop
  <2>2. /\ SameLaunch(r, [r EXCEPT !.liveFails = 0])
        /\ SameLaunch(r, [r EXCEPT !.liveFails = @ + 1])
    BY DEF Instance, SameLaunch
  <2> QED
    BY <2>1, <2>2 DEF LiveAnswer
<1> QED
  BY <1>1, <1>2, <1>3, <1>4, <1>5, <1>6, <1>7

\* Under the invariant every instance in a wanted slot is current.
LEMMA NothingStale ==
    ASSUME SInv, NEW i \in DOMAIN inst
    PROVE  /\ ~Stale(i)
           /\ SlotOf(i) \in Desired => inst[i].hash = DesiredHash(SlotOf(i))
<1> DEFINE s == SlotOf(i)
<1> SUFFICES ASSUME s \in Desired PROVE inst[i].hash = DesiredHash(s)
  BY DEF Stale
<1>1. PICK m \in Manifests : Fits(m, s, inst[i])
  BY DEF SInv, FitsSome
<1>2. s[1] \in m.apps \intersect manifest.apps /\ manifest \in Manifests
  BY <1>1 DEF Fits, Granted, Desired, SInv, IInv, LoopTypeOK
<1>3. /\ m.cfg[s[1]].spec = manifest.cfg[s[1]].spec
      /\ m.cfg[s[1]].port = manifest.cfg[s[1]].port
  BY <1>2, SameApps
<1>4. DesiredPort(s) = PortOf(manifest, s[1], s[2])
  BY DEF SInv, DesiredPort
<1> HIDE DEF s
<1> QED
  BY <1>1, <1>3, <1>4 DEF Fits, DesiredHash, PortOf

\* A slot is refilled only when it is empty.
LEMMA MissingIsEmpty ==
    ASSUME SInv, NEW s \in Missing
    PROVE  /\ s \in Desired
           /\ \A i \in DOMAIN inst : SlotOf(i) # s
BY NothingStale DEF Missing, HasCurrent, OfSlot

\* A handler that keeps or removes instances, and no port and hash of those it
\* keeps, preserves the invariant.
LEMMA KeepInv ==
    ASSUME SInv, IInv', slotPorts' = slotPorts, doomed' = {},
           DOMAIN inst' \subseteq DOMAIN inst,
           \A i \in DOMAIN inst' : SameLaunch(inst[i], inst'[i])
    PROVE  SInv'
<1>1. ASSUME NEW i \in DOMAIN inst' PROVE FitsSome(SlotOf(i), inst'[i])
  BY DEF SInv, FitsSome, Fits, SameLaunch
<1>2. \A i \in DOMAIN inst' : FitsSome(SlotOf(i), inst[i])'
  BY <1>1 DEF FitsSome, Fits, Granted, PortOf, SlotOf
<1>3. \A i, j \in DOMAIN inst' : SlotOf(i) = SlotOf(j) => i = j
  BY DEF SInv
<1> QED
  BY <1>2, <1>3 DEF SInv, FitsSome, Fits, Granted, PortOf, SlotOf

\* Slots are removed with the only instance they have, whose child has exited.
LEMMA NoneDropped ==
    ASSUME SInv, NEW slots,
           \A s \in slots : \E i \in DOMAIN inst :
              SlotOf(i) = s /\ inst[i].proc \in {"none", "exited"}
    PROVE  PortsOfDropped(slots) = {}
BY DEF SInv, PortsOfDropped, Bound

-----------------------------------------------------------------------------
(***************************************************************************)
(* The actions.                                                            *)
(***************************************************************************)

\* The loop starts without an instance.
LEMMA SInitInv == Init => SInv
BY InitInv DEF Init, SInv

\* reap drops the slot of an instance that is gone, and no other instance.
LEMMA SReapInv == SInv /\ IInv' /\ Reap => SInv'
<1> SUFFICES ASSUME SInv, IInv', Reap PROVE SInv'
  OBVIOUS
<1> DEFINE gone == {SlotOf(i) : i \in {j \in DOMAIN inst : GoneForGood(j)}}
<1>1. /\ inst' = [i \in Remaining(gone) |-> Reaped(i)]
      /\ doomed' = doomed \union PortsOfDropped(gone)
      /\ slotPorts' = slotPorts
  BY DEF Reap
<1>2. \A s \in gone : \E i \in DOMAIN inst :
         SlotOf(i) = s /\ inst[i].proc \in {"none", "exited"}
  BY DEF GoneForGood
<1> HIDE DEF gone
<1>3. doomed' = {}
  BY <1>1, <1>2, NoneDropped DEF SInv
<1>4. ASSUME NEW i \in DOMAIN inst' PROVE SameLaunch(inst[i], inst'[i])
  <2>1. inst'[i] = Reaped(i) /\ i \in DOMAIN inst
    BY <1>1, <1>4 DEF Remaining
  <2>2. inst[i] \in Instance
    BY <2>1 DEF SInv, IInv, InstancesOK, Coherent
  <2> QED
    BY <2>1, <2>2, SameLaunchOfChanges DEF Reaped, SameLaunch
<1> QED
  BY <1>1, <1>3, <1>4, KeepInv DEF Remaining

\* terminate_undesired drops slots whose instance has no child.
LEMMA STerminateInv == SInv /\ IInv' /\ TerminateUndesired => SInv'
<1> SUFFICES ASSUME SInv, IInv', TerminateUndesired PROVE SInv'
  OBVIOUS
<1> DEFINE idle == {SlotOf(i) : i \in {j \in DOMAIN inst :
                                        Undesired(j) /\ ~Running(inst[j])}}
<1>1. /\ inst' = [i \in Remaining(idle) |-> IF Undesired(i)
                                             THEN StopUndesired(inst[i]) ELSE inst[i]]
      /\ doomed' = doomed \union PortsOfDropped(idle)
      /\ slotPorts' = slotPorts
  BY DEF TerminateUndesired
<1>2. \A s \in idle : \E i \in DOMAIN inst :
         SlotOf(i) = s /\ inst[i].proc \in {"none", "exited"}
  BY DEF Running
<1> HIDE DEF idle
<1>3. doomed' = {}
  BY <1>1, <1>2, NoneDropped DEF SInv
<1>4. ASSUME NEW i \in DOMAIN inst' PROVE SameLaunch(inst[i], inst'[i])
  <2>1. /\ inst'[i] \in {StopUndesired(inst[i]), inst[i]}
        /\ i \in DOMAIN inst
    BY <1>1, <1>4 DEF Remaining
  <2>2. inst[i] \in Instance
    BY <2>1 DEF SInv, IInv, InstancesOK, Coherent
  <2> QED
    BY <2>1, <2>2, SameLaunchOfChanges DEF SameLaunch
<1> QED
  BY <1>1, <1>3, <1>4, KeepInv DEF Remaining

\* Handlers that stop some instances and touch no other.
LEMMA SStopInv ==
    ASSUME SInv, IInv', UNCHANGED <<slotPorts, doomed>>,
           DOMAIN inst' = DOMAIN inst,
           \A i \in DOMAIN inst : \E b : inst'[i] \in {inst[i], Stop(inst[i], b)}
    PROVE  SInv'
<1>1. ASSUME NEW i \in DOMAIN inst' PROVE SameLaunch(inst[i], inst'[i])
  <2>1. inst[i] \in Instance
    BY <1>1 DEF SInv, IInv, InstancesOK, Coherent
  <2> QED
    BY <1>1, <2>1, SameLaunchOfChanges DEF SameLaunch
<1> QED
  BY <1>1, KeepInv DEF SInv

\* Nothing is stale, so nothing is rolled and no surge port is given away.
LEMMA SRollInv == SInv /\ IInv' /\ RollStale => SInv'
<1> SUFFICES ASSUME SInv, IInv', RollStale PROVE SInv'
  OBVIOUS
<1>1. \A a : Rollable(a) = {}
  BY NothingStale DEF Rollable, StaleUnready, StaleReady, OfApp
<1>2. \A T \in Picks : T = {}
  BY <1>1 DEF Picks
<1>3. /\ inst' = [i \in DOMAIN inst |-> inst[i]]
      /\ DOMAIN slotPorts' = {}
      /\ slotPorts' = [s \in DOMAIN slotPorts' |-> slotPorts'[s]]
  <2>1. PICK picked \in Picks :
          LET surging == {i \in picked : /\ manifest.surge > 0
                                         /\ inst[i].phase = "Ready"}
              moved == {SlotOf(i) : i \in {j \in surging : MaySurge(j)}}
          IN  /\ inst' = [i \in DOMAIN inst |-> IF i \in picked \ surging
                                                THEN Stop(inst[i], FALSE)
                                                ELSE inst[i]]
              /\ slotPorts' = [s \in DOMAIN slotPorts \union moved |->
                                 IF s \in moved THEN SurgePort(s[1])
                                                ELSE slotPorts[s]]
    BY DEF RollStale
  <2>2. picked = {}
    BY <1>2
  <2> DEFINE moved == {SlotOf(i) : i \in {j \in {k \in picked :
                          manifest.surge > 0 /\ inst[k].phase = "Ready"} : MaySurge(j)}}
  <2>3. moved = {}
    BY <2>2
  <2>4. /\ DOMAIN slotPorts' = DOMAIN slotPorts \union moved
        /\ slotPorts' = [s \in DOMAIN slotPorts' |-> slotPorts'[s]]
    BY <2>1
  <2> QED
    BY <2>1, <2>2, <2>3, <2>4 DEF SInv
<1>4. slotPorts' = slotPorts
  <2>1. DOMAIN slotPorts = {} /\ slotPorts = [s \in DOMAIN slotPorts |-> slotPorts[s]]
    BY DEF SInv, IInv, LoopTypeOK
  <2> QED
    BY <1>3, <2>1
<1>5. doomed' = doomed
  BY DEF RollStale
<1>6. DOMAIN inst' = DOMAIN inst /\ \A i \in DOMAIN inst : inst'[i] = inst[i]
  BY <1>3
<1> QED
  BY <1>4, <1>5, <1>6, SStopInv

\* spawn_missing fills only empty slots, each with one instance.
LEMMA SSpawnInv == SInv /\ IInv' /\ SpawnMissing => SInv'
<1> SUFFICES ASSUME SInv, IInv', SpawnMissing PROVE SInv'
  OBVIOUS
<1> PICK failing :
      inst' = [i \in DOMAIN WithPending |->
                 IF ~Startable(i, WithPending[i]) THEN WithPending[i]
                 ELSE IF i \in failing THEN SpawnFailed(WithPending[i])
                 ELSE Spawned(i, WithPending[i])]
  BY DEF SpawnMissing
<1>1. ASSUME NEW s \in Missing
      PROVE  NewId(s) \in Id \ DOMAIN inst /\ SlotOf(NewId(s)) = s
  BY <1>1, NewIdIsFresh DEF SpawnMissing, Missing, Desired
<1>2. /\ DOMAIN WithPending = DOMAIN inst \union {NewId(s) : s \in Missing}
      /\ \A i \in DOMAIN inst : WithPending[i] = inst[i]
  BY DEF WithPending
<1>3. ASSUME NEW i \in DOMAIN WithPending
      PROVE  /\ WithPending[i] \in Instance
             /\ FitsSome(SlotOf(i), WithPending[i])
             /\ i \in Id
  <2>1. CASE i \in DOMAIN inst
    BY <2>1, <1>2 DEF SInv, IInv, InstancesOK, Coherent
  <2>2. CASE i \notin DOMAIN inst
    <3>1. PICK s \in Missing : i = NewId(s)
      BY <1>2, <2>2
    <3>2. SlotOf(i) = s /\ s \in Desired /\ i \in Id
      BY <1>1, <3>1 DEF Missing
    <3>3. WithPending[i] = PendingFor(s)
      BY <1>2, <2>2, <3>2 DEF WithPending
    <3>4. PendingFor(s) \in Instance
      BY <3>2, PendingCoherent DEF SInv, IInv, Coherent
    <3>5. DesiredPort(s) = PortOf(manifest, s[1], s[2])
      BY DEF SInv, DesiredPort
    <3>6. Granted(manifest, s) /\ manifest \in Manifests
      <4>1. s[2] \in 0 .. MaxReplicas - 1 /\ s[1] \in App
        BY <3>2 DEF Desired, Slot
      <4>2. manifest \in Manifests /\ manifest.cfg[s[1]] \in AppConfig
        BY <4>1, ManifestsAssumption DEF SInv, IInv, LoopTypeOK, Manifest
      <4>3. manifest.cfg[s[1]].replicas \in Nat
        BY <4>2, ConstantsAssumption DEF AppConfig
      <4> QED
        BY <3>2, <4>1, <4>2, <4>3, ConstantsAssumption DEF Granted, Desired
    <3>7. Fits(manifest, s, PendingFor(s))
      BY <3>5, <3>6 DEF Fits, PendingFor, DesiredHash
    <3> QED
      BY <3>2, <3>3, <3>4, <3>6, <3>7 DEF FitsSome
  <2> QED
    BY <2>1, <2>2
<1>4. ASSUME NEW i \in DOMAIN WithPending, NEW r, r = WithPending[i], Startable(i, r)
      PROVE  FitsSome(SlotOf(i), Spawned(i, r))
  <2>1. PICK m \in Manifests : Fits(m, SlotOf(i), r)
    BY <1>3, <1>4 DEF FitsSome
  <2>2. AppOf(i) \in m.apps \intersect manifest.apps /\ manifest \in Manifests
    BY <1>4, <2>1 DEF Fits, Granted, Startable, DepsOk, SlotOf, AppOf, SInv, IInv, LoopTypeOK
  <2>3. m.cfg[AppOf(i)].spec = manifest.cfg[AppOf(i)].spec
    BY <2>2, SameApps
  <2> DEFINE q == Spawned(i, r)
  <2>4. /\ q.port = r.port
        /\ q.hash = [spec |-> manifest.cfg[AppOf(i)].spec, port |-> r.port]
    BY <1>3, <1>4 DEF Spawned, Instance
  <2> HIDE DEF q
  <2>5. Fits(m, SlotOf(i), q)
    BY <2>1, <2>3, <2>4 DEF Fits, SlotOf, AppOf
  <2> QED
    BY <2>5 DEF FitsSome, q
<1>5. ASSUME NEW i \in DOMAIN inst' PROVE FitsSome(SlotOf(i), inst'[i])
  <2> DEFINE r == WithPending[i]
  <2>1. i \in DOMAIN WithPending
    BY <1>5
  <2>2. r \in Instance /\ FitsSome(SlotOf(i), r)
    BY <1>3, <2>1
  <2>3. inst'[i] = IF ~Startable(i, r) THEN r
                   ELSE IF i \in failing THEN SpawnFailed(r) ELSE Spawned(i, r)
    BY <2>1
  <2> HIDE DEF r
  <2>4. FitsSome(SlotOf(i), SpawnFailed(r))
    BY <2>2, SameLaunchOfChanges DEF SameLaunch, FitsSome, Fits
  <2>5. Startable(i, r) => FitsSome(SlotOf(i), Spawned(i, r))
    BY <1>4, <2>1 DEF r
  <2> QED
    BY <2>2, <2>3, <2>4, <2>5
<1>6. ASSUME NEW i \in DOMAIN inst', NEW j \in DOMAIN inst', SlotOf(i) = SlotOf(j)
      PROVE  i = j
  <2>1. ASSUME NEW s \in Missing, NEW k \in DOMAIN inst PROVE SlotOf(k) # s
    BY MissingIsEmpty
  <2> QED
    BY <1>1, <1>2, <1>6, <2>1 DEF SInv
<1> QED
  BY <1>5, <1>6 DEF SInv, SpawnMissing, FitsSome, Fits, Granted, PortOf, SlotOf

\* A probe changes one instance, and neither its port nor its hash.
LEMMA SProbeInv ==
    ASSUME NEW i \in todo, NEW readyDue \in BOOLEAN, NEW liveDue \in BOOLEAN
    PROVE  SInv /\ IInv' /\ Probe(i, readyDue, liveDue) => SInv'
<1> SUFFICES ASSUME SInv, IInv', Probe(i, readyDue, liveDue) PROVE SInv'
  OBVIOUS
<1>1. PICK r \in AfterReady(i, inst[i], readyDue) :
        \E s \in AfterLive(i, r, liveDue) : inst' = [inst EXCEPT ![i] = s]
  BY DEF Probe
<1>2. PICK s \in AfterLive(i, r, liveDue) : inst' = [inst EXCEPT ![i] = s]
  BY <1>1
<1>3. i \in DOMAIN inst /\ Coherent(inst[i])
  BY DEF SInv, IInv, InstancesOK
<1>4. r \in Instance /\ SameLaunch(inst[i], r)
  <2>1. Coherent(r)
    BY <1>1, <1>3, AnswersType, ReadyAnswerCoherent DEF AfterReady, Probed
  <2>2. SameLaunch(inst[i], r)
    BY <1>1, <1>3, SameLaunchOfChanges DEF AfterReady, SameLaunch, Coherent
  <2> QED
    BY <2>1, <2>2 DEF Coherent
<1>5. SameLaunch(r, s)
  BY <1>2, <1>4, SameLaunchOfChanges DEF AfterLive, SameLaunch
<1>6. DOMAIN inst' = DOMAIN inst
  BY <1>2
<1>7. \A j \in DOMAIN inst' : SameLaunch(inst[j], inst'[j])
  BY <1>2, <1>3, <1>4, <1>5 DEF SameLaunch
<1>8. slotPorts' = slotPorts /\ doomed' = {}
  BY DEF Probe, SInv
<1> QED
  BY <1>6, <1>7, <1>8, KeepInv

\* Nor does teardown change any port or hash.
LEMMA STeardownInv == SInv /\ IInv' /\ (Shutdown \/ TeardownPoll) => SInv'
<1> SUFFICES ASSUME SInv, IInv', Shutdown \/ TeardownPoll PROVE SInv'
  OBVIOUS
<1>1. DOMAIN inst' = DOMAIN inst /\ slotPorts' = slotPorts /\ doomed' = {}
  BY DEF Shutdown, TeardownPoll, SInv
<1>2. ASSUME NEW i \in DOMAIN inst PROVE SameLaunch(inst[i], inst'[i])
  <2>1. inst[i] \in Instance
    BY DEF SInv, IInv, InstancesOK, Coherent
  <2>2. CASE Shutdown
    <3> DEFINE stop == Stop(inst[i], inst[i].respawn)
               sig == IF inst[i].sig = "kill" THEN "kill" ELSE "term"
    <3>1. inst'[i] \in {inst[i], [stop EXCEPT !.sig = sig]}
      BY <2>2 DEF Shutdown
    <3>2. stop \in Instance
      <4>1. Coherent(inst[i]) /\ inst[i].respawn \in BOOLEAN
        BY <2>1 DEF SInv, IInv, InstancesOK, Instance
      <4> QED
        BY <4>1, StopCoherent DEF Coherent
    <3>3. SameLaunch(inst[i], stop)
      BY <2>1, SameLaunchOfChanges
    <3> HIDE DEF stop, sig
    <3>4. SameLaunch(stop, [stop EXCEPT !.sig = sig])
      BY <3>2 DEF SameLaunch, Instance
    <3> QED
      BY <3>1, <3>3, <3>4 DEF SameLaunch
  <2>3. CASE TeardownPoll
    <3>1. inst'[i] = Harvested(inst[i])
      BY <2>3 DEF TeardownPoll
    <3> QED
      BY <2>1, <3>1, SameLaunchOfChanges
  <2> QED
    BY <2>2, <2>3
<1> QED
  BY <1>1, <1>2, KeepInv

\* A child or a clock changes neither port nor hash.
LEMMA SChildInv ==
    ASSUME NEW i \in DOMAIN inst
    PROVE  SInv /\ IInv' /\ Child(i) => SInv'
<1> SUFFICES ASSUME SInv, IInv', Child(i) PROVE SInv'
  OBVIOUS
<1>1. inst[i] \in Instance
  BY DEF SInv, IInv, InstancesOK, Coherent
<1>2. /\ slotPorts' = slotPorts /\ doomed' = {}
      /\ (\E p : inst' = [inst EXCEPT ![i].proc = p])
            \/ inst' = [inst EXCEPT ![i].timer = "due"]
  BY DEF Child, Boot, Crash, ObeySigterm, Killed, Elapse, ChildIs, SInv
<1>3. DOMAIN inst' = DOMAIN inst
  BY <1>2
<1>4. ASSUME NEW j \in DOMAIN inst PROVE SameLaunch(inst[j], inst'[j])
  BY <1>1, <1>2 DEF SameLaunch, Instance
<1> QED
  BY <1>2, <1>3, <1>4, KeepInv

\* Steps that leave the instances alone.
LEMMA SIdleInv ==
    ASSUME SInv, IInv', UNCHANGED <<inst, slotPorts, doomed>>
    PROVE  SInv'
BY KeepInv DEF SInv, SameLaunch

\* The invariant is inductive.
LEMMA SNextInv == SInv /\ [Next]_vars => SInv'
<1> SUFFICES ASSUME SInv, [Next]_vars PROVE SInv'
  OBVIOUS
<1>1. IInv'
  BY NextInv DEF SInv
<1>2. CASE Tick
  <2>1. CASE MaybeReload \/ ReverifyChecks \/ EndTick
    BY <1>1, <2>1, SIdleInv DEF MaybeReload, ReverifyChecks, EndTick
  <2>2. CASE StopCheckBlocked
    <3>1. /\ DOMAIN inst' = DOMAIN inst /\ UNCHANGED <<slotPorts, doomed>>
          /\ \A i \in DOMAIN inst : inst'[i] \in {inst[i], Stop(inst[i], TRUE)}
      BY <2>2 DEF StopCheckBlocked
    <3> QED
      BY <1>1, <3>1, SStopInv
  <2>3. CASE RetireStaleSurplus
    <3>1. /\ DOMAIN inst' = DOMAIN inst /\ UNCHANGED <<slotPorts, doomed>>
          /\ \A i \in DOMAIN inst : inst'[i] \in {inst[i], Stop(inst[i], FALSE)}
      BY <2>3 DEF RetireStaleSurplus
    <3> QED
      BY <1>1, <3>1, SStopInv
  <2> QED
    BY <1>1, <1>2, <2>1, <2>2, <2>3, SReapInv, STerminateInv, SRollInv, SSpawnInv,
       SProbeInv DEF Tick
<1>3. CASE Shutdown \/ TeardownPoll
  BY <1>1, <1>3, STeardownInv
<1>4. CASE \E i \in DOMAIN inst : Child(i)
  BY <1>1, <1>4, SChildInv
<1>5. CASE \E p \in doomed : Released(p)
  BY <1>5 DEF SInv
<1>6. CASE (\E m \in Manifests : Save(m)) \/ Delete \/ UNCHANGED vars
  BY <1>1, <1>6, SIdleInv DEF Save, Delete, vars
<1> QED
  BY <1>2, <1>3, <1>4, <1>5, <1>6 DEF Next

\* It holds in every behaviour.
LEMMA SInvariance == Spec => []SInv
BY SInitInv, SNextInv, PTL DEF Spec

-----------------------------------------------------------------------------
(***************************************************************************)
(* The theorems.                                                           *)
(***************************************************************************)

\* However often an app is scaled, removed and added again, and whatever its
\* children do, no slot ever has two instances.
THEOREM OneInstanceWhenScaling == Spec => []OneInstancePerSlot
<1>1. SInv => OneInstancePerSlot
  BY DEF SInv, OneInstancePerSlot
<1> QED
  BY <1>1, SInvariance, PTL

\* Nor do two children of the cluster ever contend for a port.
THEOREM PortsWhenScaling == Spec => []PortsAreExclusive
<1>1. SInv => PortsAreExclusive
  <2> SUFFICES ASSUME SInv, NEW i \in DOMAIN inst, NEW j \in DOMAIN inst \ {i}
               PROVE  inst[j].port # inst[i].port
    BY DEF SInv, PortsAreExclusive
  <2>1. PICK m \in Manifests : Fits(m, SlotOf(i), inst[i])
    BY DEF SInv, FitsSome
  <2>2. PICK n \in Manifests : Fits(n, SlotOf(j), inst[j])
    BY DEF SInv, FitsSome
  <2>3. SlotOf(i) # SlotOf(j) /\ SlotOf(i) \in Slot /\ SlotOf(j) \in Slot
    BY DEF SInv, IInv, InstancesOK, Id, SlotOf
  <2>4. SlotOf(i)[1] # SlotOf(j)[1] \/ SlotOf(i)[2] # SlotOf(j)[2]
    BY <2>3 DEF Slot
  <2> QED
    BY <2>1, <2>2, <2>4, DisjointPorts DEF Fits, Granted
<1> QED
  BY <1>1, SInvariance, PTL

=============================================================================
