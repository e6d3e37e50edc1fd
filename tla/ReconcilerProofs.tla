--------------------------- MODULE ReconcilerProofs ---------------------------
(***************************************************************************)
(* Proofs about the control loop, for every number of apps, replicas,      *)
(* ports, manifests, edits and crashes.                                    *)
(*                                                                         *)
(* The invariant is a conjunction over the instances: each one is          *)
(* Coherent.  The lemmas about records say that every change a handler     *)
(* makes to an instance keeps it so; the lemmas about actions say that     *)
(* each action makes only such changes.                                    *)
(***************************************************************************)
EXTENDS Reconciler, FiniteSetTheorems, WellFoundedInduction, TLAPS

Coherent(r) ==
    /\ r \in Instance
    /\ r.phase # "Terminating" =>
          (Running(r) <=> r.phase \in {"Starting", "Ready", "Unready"})
    /\ Alive(r) => /\ r.phase = "Terminating" <=> r.sig # "none"
                   /\ r.phase = "Terminating" => r.timer # "off"

LoopTypeOK ==
    /\ disk \in [body : Manifests, mtime : Nat, last : Nat]
    /\ mtime \in Nat /\ pending \in Nat
    /\ manifest \in Manifests /\ Loadable(manifest)
    /\ selected \subseteq manifest.apps /\ selected # {}
    /\ checksOk \in [Check -> BOOLEAN]
    /\ DOMAIN slotPorts \subseteq Slot
    /\ slotPorts \in [DOMAIN slotPorts -> Port]
    /\ doomed \subseteq Port
    /\ pc \in Step
    /\ crashes \in Nat

InstancesOK ==
    /\ DOMAIN inst \subseteq Id
    /\ inst = [i \in DOMAIN inst |-> inst[i]]
    /\ \A i \in DOMAIN inst : Coherent(inst[i])

\* teardown has signalled every child.
AllStopping == \A i \in DOMAIN inst : Running(inst[i]) => inst[i].phase = "Terminating"

IInv == /\ LoopTypeOK /\ InstancesOK
        /\ todo \subseteq DOMAIN inst /\ (pc # "probe" => todo = {})
        /\ pc \in {"teardown", "down"} => AllStopping

-----------------------------------------------------------------------------
(***************************************************************************)
(* Changes of one instance.                                                *)
(***************************************************************************)

\* begin_stop leaves any instance coherent.
LEMMA StopCoherent ==
    ASSUME NEW r, Coherent(r), NEW b \in BOOLEAN
    PROVE  Coherent(Stop(r, b))
BY DEF Coherent, Stop, Instance, Phase, Running, Alive

\* So do the outcomes of reap.
LEMMA BackedOffCoherent ==
    ASSUME NEW r, Coherent(r)
    PROVE  Coherent(BackedOff(r))
BY DEF Coherent, BackedOff, Instance, Phase, Running, Alive

\* A SIGKILL finds a Terminating instance and leaves it one.
LEMMA EscalatedCoherent ==
    ASSUME NEW r, Coherent(r), Running(r)
    PROVE  Coherent(Escalated(r))
BY DEF Coherent, Escalated, Instance, Phase, Running, Alive

\* A poll of teardown forgets a child that exited, or escalates.
LEMMA HarvestedCoherent ==
    ASSUME NEW r, Coherent(r), Running(r) => r.phase = "Terminating"
    PROVE  Coherent(Harvested(r))
<1>1. CASE r.proc = "exited"
  BY <1>1 DEF Coherent, Harvested, Instance, Phase, Running, Alive
<1>2. CASE r.proc # "exited"
  BY <1>2, EscalatedCoherent DEF Harvested
<1> QED
  BY <1>1, <1>2

\* A slot the manifest wants has a port and a hash.
LEMMA PortOfType ==
    ASSUME NEW m \in Manifests, NEW a \in App, NEW r \in Nat
    PROVE  PortOf(m, a, r) \in Port
<1>1. m.cfg[a].port + r \in Nat
  BY ManifestsAssumption DEF Manifest, AppConfig, Port
<1>2. \A n \in Nat : n % PortSpace \in 0 .. PortSpace - 1
  BY ConstantsAssumption
<1> QED
  BY <1>1, <1>2 DEF PortOf, Port

\* The slot, port and hash that desired_slots computes are well typed.
LEMMA DesiredType ==
    ASSUME LoopTypeOK, NEW s \in Desired
    PROVE  /\ s \in Slot /\ s[1] \in App
           /\ DesiredPort(s) \in Port
           /\ DesiredHash(s) \in Hash
<1>1. s \in Slot /\ s[1] \in App /\ s[2] \in Nat
  BY ConstantsAssumption DEF Desired, Slot
<1>2. DesiredPort(s) \in Port
  BY <1>1, PortOfType DEF DesiredPort, LoopTypeOK
<1>3. manifest.cfg[s[1]].spec \in Launch
  BY <1>1, ManifestsAssumption DEF LoopTypeOK, Manifest, AppConfig
<1> QED
  BY <1>1, <1>2, <1>3 DEF DesiredHash, Hash

\* Instance::pending has no child and waits for nothing.
LEMMA PendingCoherent ==
    ASSUME LoopTypeOK, NEW s \in Desired
    PROVE  Coherent(PendingFor(s))
BY DesiredType
   DEF Coherent, PendingFor, Instance, Phase, Running, Alive

\* Launching fits only an instance without a child, which Startable asks for.
LEMMA SpawnedCoherent ==
    ASSUME LoopTypeOK, NEW i \in Id, NEW r, Coherent(r), Startable(i, r)
    PROVE  Coherent(Spawned(i, r)) /\ Coherent(SpawnFailed(r))
<1>1. AppOf(i) \in App
  BY DEF Id, Slot, AppOf
<1>2. manifest.cfg[AppOf(i)].spec \in Launch
  BY <1>1, ManifestsAssumption DEF LoopTypeOK, Manifest, AppConfig
<1>3. Coherent(Spawned(i, r))
  <2> DEFINE spec == manifest.cfg[AppOf(i)].spec
             hash == [spec |-> spec, port |-> r.port]
             phase == IF spec.ready THEN "Starting" ELSE "Ready"
             timer == IF spec.ready THEN "set" ELSE "off"
             ever == ~spec.ready
             new == [r EXCEPT !.hash = hash, !.phase = phase, !.proc = "boot",
                              !.sig = "none", !.timer = timer,
                              !.everReady = ever, !.liveFails = 0]
  <2>1. /\ hash \in Hash /\ phase \in {"Starting", "Ready"}
        /\ timer \in {"set", "off"} /\ ever \in BOOLEAN
    BY <1>2 DEF Launch, Hash, Coherent, Instance
  <2>2. Spawned(i, r) = new
    BY DEF Spawned
  <2> HIDE DEF spec, hash, phase, timer, ever
  <2>3. Coherent(new)
    BY <2>1 DEF Coherent, Instance, Phase, Running, Alive
  <2> QED
    BY <2>2, <2>3
<1>4. Coherent(SpawnFailed(r))
  BY DEF Coherent, SpawnFailed, Startable, Instance, Phase, Running, Alive
<1> QED
  BY <1>3, <1>4

\* The answers of probes.
LEMMA ReadyAnswerCoherent ==
    ASSUME NEW r, Coherent(r), Running(r), r.phase # "Terminating",
           NEW ok \in BOOLEAN
    PROVE  Coherent(ReadyAnswer(r, ok))
<1>1. CASE ok
  BY <1>1 DEF ReadyAnswer, Coherent, Instance, Phase, Running, Alive
<1>2. CASE ~ok /\ r.phase = "Ready"
  BY <1>2 DEF ReadyAnswer, Coherent, Instance, Phase, Running, Alive
<1>3. CASE ~ok /\ r.phase # "Ready"
  BY <1>3, StopCoherent DEF ReadyAnswer
<1> QED
  BY <1>1, <1>2, <1>3

\* A liveness answer counts, or stops the instance.
LEMMA LiveAnswerCoherent ==
    ASSUME NEW r, Coherent(r), NEW ok \in BOOLEAN
    PROVE  Coherent(LiveAnswer(r, ok))
<1>1. Coherent([r EXCEPT !.liveFails = 0])
  BY DEF Coherent, Instance, Phase, Running, Alive
<1>2. Coherent([r EXCEPT !.liveFails = @ + 1])
  BY DEF Coherent, Instance, Phase, Running, Alive
<1> QED
  BY <1>1, <1>2, StopCoherent DEF LiveAnswer

-----------------------------------------------------------------------------
(***************************************************************************)
(* The initial state and the actions.                                      *)
(***************************************************************************)

\* select_apps returns apps of the manifest, and some if there are any.
LEMMA SelectedAreApps ==
    ASSUME NEW m, NEW only
    PROVE  /\ SelectApps(m, only) \subseteq m.apps
           /\ m.apps # {} /\ only \subseteq m.apps => SelectApps(m, only) # {}
BY DEF SelectApps

\* `up` starts without an instance and with a manifest that validates.
LEMMA InitInv == Init => IInv
<1> SUFFICES ASSUME Init PROVE IInv
  OBVIOUS
<1>1. LoopTypeOK
  BY SelectedAreApps, ManifestsAssumption DEF Init, LoopTypeOK, Step, NoTime, Slot
<1>2. InstancesOK
  BY DEF Init, InstancesOK
<1> QED
  BY <1>1, <1>2 DEF Init, IInv, AllStopping

\* A reload takes only a manifest that validates.
LEMMA ReloadInv == IInv /\ MaybeReload => IInv'
<1> SUFFICES ASSUME IInv, MaybeReload PROVE IInv'
  OBVIOUS
<1>1. /\ pc = "sleep" /\ pc' = "verify"
      /\ UNCHANGED <<disk, checksOk, slotPorts, inst, doomed, todo, crashes>>
  BY DEF MaybeReload, Goto
<1>2. LoopTypeOK'
  <2>1. /\ manifest' \in Manifests /\ Loadable(manifest)'
        /\ selected' \subseteq manifest'.apps /\ selected' # {}
    <3>1. /\ manifest \in Manifests /\ Loadable(manifest)
          /\ selected \subseteq manifest.apps /\ selected # {} /\ disk.body \in Manifests
      BY DEF IInv, LoopTypeOK
    <3>2. CASE UNCHANGED <<manifest, selected>>
      BY <3>1, <3>2 DEF Loadable, PortOf
    <3>3. CASE /\ Accepted(disk.body) /\ manifest' = disk.body
               /\ selected' = SelectApps(disk.body, OnlyNames)
      BY <3>1, <3>3, SelectedAreApps DEF Accepted, Loadable, PortOf
    <3> QED
      BY <3>2, <3>3 DEF MaybeReload
  <2>2. mtime' \in Nat /\ pending' \in Nat
    BY DEF IInv, LoopTypeOK, MaybeReload, NoTime
  <2> QED
    BY <1>1, <2>1, <2>2 DEF IInv, LoopTypeOK, Step
<1> QED
  BY <1>1, <1>2 DEF IInv, InstancesOK, AllStopping

\* reverify_checks changes what is known of the checks only.
LEMMA VerifyInv == IInv /\ ReverifyChecks => IInv'
<1> SUFFICES ASSUME IInv, ReverifyChecks PROVE IInv'
  OBVIOUS
<1>1. /\ pc = "verify" /\ pc' = "reap"
      /\ UNCHANGED <<disk, loopVars, slotPorts, inst, doomed, todo, crashes>>
  BY DEF ReverifyChecks, Goto
<1>2. checksOk' \in [Check -> BOOLEAN]
  BY DEF IInv, LoopTypeOK, ReverifyChecks
<1> QED
  BY <1>1, <1>2 DEF IInv, LoopTypeOK, InstancesOK, AllStopping, Step, loopVars

\* A handler that maps every instance, or every one it retains, to a coherent
\* one preserves the invariant.
LEMMA MapInv ==
    ASSUME IInv,
           UNCHANGED <<disk, loopVars, checksOk, crashes>>,
           pc' \in Step \ {"teardown", "down"},
           slotPorts' \in [DOMAIN slotPorts' -> Port],
           DOMAIN slotPorts' \subseteq Slot,
           doomed' \subseteq Port,
           DOMAIN inst' \subseteq Id,
           inst' = [i \in DOMAIN inst' |-> inst'[i]],
           \A i \in DOMAIN inst' : Coherent(inst'[i]),
           todo' \subseteq DOMAIN inst',
           pc' # "probe" => todo' = {}
    PROVE  IInv'
<1>1. LoopTypeOK'
  BY DEF IInv, LoopTypeOK, loopVars, Loadable, PortOf
<1> QED
  BY <1>1 DEF IInv, InstancesOK

\* reap backs off, escalates or drops, and dooms only known ports.
LEMMA ReapInv == IInv /\ Reap => IInv'
<1> SUFFICES ASSUME IInv, Reap PROVE IInv'
  OBVIOUS
<1> PICK gone : /\ inst' = [i \in Remaining(gone) |-> Reaped(i)]
                /\ doomed' = doomed \union PortsOfDropped(gone)
  BY DEF Reap
<1>1. ASSUME NEW i \in Remaining(gone) PROVE Coherent(Reaped(i))
  <2>1. Coherent(inst[i])
    BY DEF Remaining, IInv, InstancesOK
  <2> QED
    BY <2>1, BackedOffCoherent, EscalatedCoherent DEF Reaped, Running
<1>2. DOMAIN inst' = Remaining(gone) /\ Remaining(gone) \subseteq Id
  BY DEF Remaining, IInv, InstancesOK
<1>3. doomed' \subseteq Port
  BY DEF PortsOfDropped, IInv, LoopTypeOK
<1>4. /\ UNCHANGED <<disk, loopVars, checksOk, slotPorts, todo, crashes>>
      /\ pc = "reap" /\ pc' = "terminate"
  BY DEF Reap, Goto
<1>5. todo' = {}
  BY <1>4 DEF IInv
<1> QED
  BY <1>1, <1>2, <1>3, <1>4, <1>5, MapInv DEF IInv, LoopTypeOK, Step

\* terminate_undesired stops an instance or drops it.
LEMMA TerminateInv == IInv /\ TerminateUndesired => IInv'
<1> SUFFICES ASSUME IInv, TerminateUndesired PROVE IInv'
  OBVIOUS
<1> DEFINE New(i) == IF Undesired(i) THEN StopUndesired(inst[i]) ELSE inst[i]
<1> PICK idle : /\ inst' = [i \in Remaining(idle) |-> New(i)]
                /\ doomed' = doomed \union PortsOfDropped(idle)
  BY DEF TerminateUndesired
<1>1. ASSUME NEW i \in Remaining(idle) PROVE Coherent(New(i))
  <2>1. Coherent(inst[i])
    BY DEF Remaining, IInv, InstancesOK
  <2> QED
    BY <2>1, StopCoherent DEF StopUndesired
<1>2. DOMAIN inst' = Remaining(idle) /\ Remaining(idle) \subseteq Id
  BY DEF Remaining, IInv, InstancesOK
<1>3. doomed' \subseteq Port
  BY DEF PortsOfDropped, IInv, LoopTypeOK
<1>4. /\ UNCHANGED <<disk, loopVars, checksOk, slotPorts, todo, crashes>>
      /\ pc = "terminate" /\ pc' = "block"
  BY DEF TerminateUndesired, Goto
<1>5. todo' = {}
  BY <1>4 DEF IInv
<1> HIDE DEF New
<1> QED
  BY <1>1, <1>2, <1>3, <1>4, <1>5, MapInv DEF IInv, LoopTypeOK, Step

\* stop_check_blocked stops instances.
LEMMA BlockInv == IInv /\ StopCheckBlocked => IInv'
<1> SUFFICES ASSUME IInv, StopCheckBlocked PROVE IInv'
  OBVIOUS
<1>1. ASSUME NEW i \in DOMAIN inst PROVE Coherent(inst'[i])
  <2>1. Coherent(inst[i])
    BY DEF IInv, InstancesOK
  <2>2. inst'[i] = Stop(inst[i], TRUE) \/ inst'[i] = inst[i]
    BY DEF StopCheckBlocked
  <2> QED
    BY <2>1, <2>2, StopCoherent
<1>2. /\ inst' = [i \in DOMAIN inst' |-> inst'[i]]
      /\ DOMAIN inst' = DOMAIN inst /\ DOMAIN inst \subseteq Id
  BY DEF StopCheckBlocked, IInv, InstancesOK
<1>3. /\ UNCHANGED <<disk, loopVars, checksOk, slotPorts, doomed, todo, crashes>>
      /\ pc = "block" /\ pc' = "roll"
  BY DEF StopCheckBlocked, Goto
<1>4. todo' = {}
  BY <1>3 DEF IInv
<1> QED
  BY <1>1, <1>2, <1>3, <1>4, MapInv DEF IInv, LoopTypeOK, Step

\* Every non-empty set of naturals has a least element.
LEMMA LeastNatural ==
    ASSUME NEW S, S \subseteq Nat, S # {}
    PROVE  \E m \in S : \A n \in S : m <= n
<1> DEFINE R == OpToRel(<, Nat)
<1>1. \E m \in S : \A n \in S : <<n, m>> \notin R
  BY WFMin, NatLessThanWellFounded
<1>2. \A m, n \in Nat : n < m => <<n, m>> \in R
  BY DEF OpToRel
<1> HIDE DEF R
<1>3. PICK m \in S : \A n \in S : <<n, m>> \notin R
  BY <1>1
<1>4. ASSUME NEW n \in S PROVE m <= n
  <2>1. m \in Nat /\ n \in Nat /\ ~(n < m)
    BY <1>2, <1>3
  <2> QED
    BY <2>1
<1> QED
  BY <1>3, <1>4

\* surge_port_for returns a port, in the overflow case too.
LEMMA SurgePortType ==
    ASSUME LoopTypeOK, NEW a \in App
    PROVE  SurgePort(a) \in Port
<1> DEFINE base == manifest.cfg[a].port + manifest.cfg[a].replicas
           free == {p \in Port : p >= base /\ p \notin Claimed}
<1>1. base \in Nat
  BY ManifestsAssumption, ConstantsAssumption
     DEF LoopTypeOK, Manifest, AppConfig, Port
<1>2. base % PortSpace \in Port
  BY <1>1, ConstantsAssumption DEF Port
<1>3. free \subseteq Nat /\ free \subseteq Port
  BY DEF Port
<1>4. SurgePort(a) = IF free = {} THEN base % PortSpace
                     ELSE CHOOSE p \in free : \A q \in free : p <= q
  BY DEF SurgePort
<1> HIDE DEF free, base
<1> QED
  BY <1>2, <1>3, <1>4, LeastNatural

\* roll_stale stops instances and gives surge ports to slots.
LEMMA RollInv == IInv /\ RollStale => IInv'
<1> SUFFICES ASSUME IInv, RollStale PROVE IInv'
  OBVIOUS
<1> PICK stopped, moved :
      /\ moved \subseteq {SlotOf(i) : i \in DOMAIN inst}
      /\ inst' = [i \in DOMAIN inst |-> IF i \in stopped THEN Stop(inst[i], FALSE)
                                                         ELSE inst[i]]
      /\ slotPorts' = [s \in DOMAIN slotPorts \union moved |->
                         IF s \in moved THEN SurgePort(s[1]) ELSE slotPorts[s]]
  <2>1. PICK picked \in Picks :
          LET surging == {i \in picked : /\ manifest.surge > 0
                                         /\ inst[i].phase = "Ready"}
              moved == {SlotOf(i) : i \in {j \in surging : MaySurge(j)}}
          IN  /\ inst' = [i \in DOMAIN inst |-> IF i \in picked \ surging
                                                THEN Stop(inst[i], FALSE)
                                                ELSE inst[i]]
              /\ slotPorts' = [s \in DOMAIN slotPorts \union moved |->
                                 IF s \in moved THEN SurgePort(s[1])
                                                ELSE slotPorts[s]]
    BY DEF RollStale
  <2>2. picked \subseteq DOMAIN inst
    BY DEF Picks, Rollable, StaleUnready, StaleReady, OfApp
  <2> QED
    BY <2>1, <2>2
<1>1. ASSUME NEW i \in DOMAIN inst PROVE Coherent(inst'[i])
  BY StopCoherent DEF IInv, InstancesOK
<1>2. /\ inst' = [i \in DOMAIN inst' |-> inst'[i]]
      /\ DOMAIN inst' = DOMAIN inst /\ DOMAIN inst \subseteq Id
  BY DEF IInv, InstancesOK
<1>3. moved \subseteq Slot
  BY DEF IInv, InstancesOK, SlotOf, Id
<1>4. ASSUME NEW s \in DOMAIN slotPorts' PROVE s \in Slot /\ slotPorts'[s] \in Port
  <2>1. CASE s \in moved
    BY <2>1, <1>3, SurgePortType DEF IInv, Slot
  <2>2. CASE s \notin moved
    BY <2>2 DEF IInv, LoopTypeOK
  <2> QED
    BY <2>1, <2>2
<1>5. slotPorts' \in [DOMAIN slotPorts' -> Port] /\ DOMAIN slotPorts' \subseteq Slot
  BY <1>4
<1>6. /\ UNCHANGED <<disk, loopVars, checksOk, doomed, todo, crashes>>
      /\ pc = "roll" /\ pc' = "spawn"
  BY DEF RollStale, Goto
<1>7. todo' = {}
  BY <1>6 DEF IInv
<1> QED
  BY <1>1, <1>2, <1>5, <1>6, <1>7, MapInv DEF IInv, LoopTypeOK, Step

\* New instances get ids that no instance has.
LEMMA NewIdIsFresh ==
    ASSUME NEW s \in Slot, FreeGen(s) # {}
    PROVE  /\ NewId(s) \in Id \ DOMAIN inst
           /\ SlotOf(NewId(s)) = s
<1>1. FreeGen(s) \subseteq Nat
  BY ConstantsAssumption DEF FreeGen, Gen
<1>2. PICK g \in FreeGen(s) : \A h \in FreeGen(s) : g <= h
  BY <1>1, LeastNatural
<1> DEFINE least == CHOOSE k \in FreeGen(s) : \A h \in FreeGen(s) : k <= h
<1>3. least \in FreeGen(s)
  BY <1>2
<1>4. NewId(s) = <<s, least>>
  BY DEF NewId
<1> HIDE DEF least
<1> QED
  BY <1>3, <1>4 DEF FreeGen, Id, SlotOf

\* spawn_missing first adds Pending instances under fresh ids.
LEMMA WithPendingCoherent ==
    ASSUME IInv, \A s \in Missing : FreeGen(s) # {}
    PROVE  /\ DOMAIN WithPending \subseteq Id
           /\ \A i \in DOMAIN WithPending : Coherent(WithPending[i])
<1>1. Missing \subseteq Slot
  BY DEF Missing, Desired
<1>2. DOMAIN WithPending = DOMAIN inst \union {NewId(s) : s \in Missing}
  BY DEF WithPending
<1>3. ASSUME NEW i \in DOMAIN WithPending, i \notin DOMAIN inst
      PROVE  i \in Id /\ Coherent(WithPending[i])
  <2>1. PICK s \in Missing : i = NewId(s)
    BY <1>2, <1>3
  <2>2. SlotOf(i) = s /\ s \in Desired /\ i \in Id
    BY <1>1, <2>1, NewIdIsFresh DEF Missing
  <2> QED
    BY <1>2, <1>3, <2>2, PendingCoherent DEF WithPending, IInv
<1>4. ASSUME NEW i \in DOMAIN inst
      PROVE  i \in Id /\ Coherent(WithPending[i])
  BY <1>2, <1>4 DEF WithPending, IInv, InstancesOK
<1> QED
  BY <1>2, <1>3, <1>4

\* spawn_missing then launches only what has no child.
LEMMA SpawnInv == IInv /\ SpawnMissing => IInv'
<1> SUFFICES ASSUME IInv, SpawnMissing PROVE IInv'
  OBVIOUS
<1>1. /\ DOMAIN WithPending \subseteq Id
      /\ \A i \in DOMAIN WithPending : Coherent(WithPending[i])
  BY WithPendingCoherent DEF SpawnMissing
<1> PICK failing :
      inst' = [i \in DOMAIN WithPending |->
                 IF ~Startable(i, WithPending[i]) THEN WithPending[i]
                 ELSE IF i \in failing THEN SpawnFailed(WithPending[i])
                 ELSE Spawned(i, WithPending[i])]
  BY DEF SpawnMissing
<1>2. /\ inst' = [i \in DOMAIN inst' |-> inst'[i]]
      /\ DOMAIN inst' = DOMAIN WithPending
  OBVIOUS
<1>3. ASSUME NEW i \in DOMAIN inst' PROVE Coherent(inst'[i])
  BY <1>1, <1>2, SpawnedCoherent DEF IInv
<1>4. /\ UNCHANGED <<disk, loopVars, checksOk, slotPorts, doomed, todo, crashes>>
      /\ pc = "spawn" /\ pc' = "retire"
  BY DEF SpawnMissing, Goto
<1>5. todo' = {}
  BY <1>4 DEF IInv
<1> QED
  BY <1>1, <1>2, <1>3, <1>4, <1>5, MapInv DEF IInv, LoopTypeOK, Step

\* retire_stale_surplus stops instances, and all are left to probe.
LEMMA RetireInv == IInv /\ RetireStaleSurplus => IInv'
<1> SUFFICES ASSUME IInv, RetireStaleSurplus PROVE IInv'
  OBVIOUS
<1>1. inst' = [i \in DOMAIN inst |-> IF Superseded(i) THEN Stop(inst[i], FALSE)
                                                     ELSE inst[i]]
  BY DEF RetireStaleSurplus
<1>2. ASSUME NEW i \in DOMAIN inst PROVE Coherent(inst'[i])
  BY <1>1, StopCoherent DEF IInv, InstancesOK
<1>3. /\ inst' = [i \in DOMAIN inst' |-> inst'[i]]
      /\ DOMAIN inst' = DOMAIN inst /\ DOMAIN inst \subseteq Id
  BY <1>1 DEF IInv, InstancesOK
<1>4. /\ UNCHANGED <<disk, loopVars, checksOk, slotPorts, doomed, crashes>>
      /\ pc' = "probe" /\ todo' = DOMAIN inst
  BY DEF RetireStaleSurplus, Goto
<1> QED
  BY <1>2, <1>3, <1>4, MapInv DEF IInv, LoopTypeOK, Step

\* A probe is answered, or not.
LEMMA AnswersType == \A i : Answers(i) \subseteq BOOLEAN
BY DEF Answers

\* probe changes the one instance it asks.
LEMMA ProbeInv ==
    ASSUME NEW i \in todo, NEW readyDue \in BOOLEAN, NEW liveDue \in BOOLEAN
    PROVE  IInv /\ Probe(i, readyDue, liveDue) => IInv'
<1> SUFFICES ASSUME IInv, Probe(i, readyDue, liveDue) PROVE IInv'
  OBVIOUS
<1>1. PICK r \in AfterReady(i, inst[i], readyDue) :
        \E s \in AfterLive(i, r, liveDue) : inst' = [inst EXCEPT ![i] = s]
  BY DEF Probe
<1>2. PICK s \in AfterLive(i, r, liveDue) : inst' = [inst EXCEPT ![i] = s]
  BY <1>1
<1>3. i \in DOMAIN inst /\ Coherent(inst[i])
  BY DEF IInv, InstancesOK
<1>4. Coherent(r)
  BY <1>1, <1>3, AnswersType, ReadyAnswerCoherent DEF AfterReady, Probed
<1>5. Coherent(s)
  BY <1>2, <1>4, AnswersType, LiveAnswerCoherent DEF AfterLive
<1>6. /\ DOMAIN inst' = DOMAIN inst /\ DOMAIN inst \subseteq Id
      /\ inst' = [j \in DOMAIN inst' |-> inst'[j]]
      /\ \A j \in DOMAIN inst' : Coherent(inst'[j])
  BY <1>2, <1>5 DEF IInv, InstancesOK
<1>7. /\ UNCHANGED <<disk, loopVars, checksOk, slotPorts, doomed, crashes>>
      /\ pc = "probe" /\ pc' = "probe" /\ todo' = todo \ {i}
  BY DEF Probe
<1>8. todo' \subseteq DOMAIN inst'
  BY <1>6, <1>7 DEF IInv
<1> QED
  BY <1>6, <1>7, <1>8, MapInv DEF IInv, LoopTypeOK, Step

\* A tick ends when nothing is left to probe.
LEMMA EndTickInv == IInv /\ EndTick => IInv'
<1> SUFFICES ASSUME IInv, EndTick PROVE IInv'
  OBVIOUS
<1>1. /\ UNCHANGED <<disk, loopVars, checksOk, slotPorts, inst, doomed, todo, crashes>>
      /\ pc' = "sleep" /\ todo = {}
  BY DEF EndTick, Goto
<1> QED
  BY <1>1, MapInv DEF IInv, LoopTypeOK, InstancesOK, Step

\* What the lemma for the loop's steps says, for those of the teardown.
LEMMA TeardownInv ==
    ASSUME IInv,
           UNCHANGED <<disk, loopVars, checksOk, slotPorts, doomed, crashes>>,
           pc' \in {"teardown", "down"}, todo' = {},
           DOMAIN inst' = DOMAIN inst,
           inst' = [i \in DOMAIN inst' |-> inst'[i]],
           \A i \in DOMAIN inst' :
              /\ Coherent(inst'[i])
              /\ Running(inst'[i]) => inst'[i].phase = "Terminating"
    PROVE  IInv'
<1>1. LoopTypeOK'
  BY DEF IInv, LoopTypeOK, loopVars, Loadable, PortOf, Step
<1> QED
  BY <1>1 DEF IInv, InstancesOK, AllStopping

\* teardown marks every instance with a child Terminating.
LEMMA ShutdownInv == IInv /\ Shutdown => IInv'
<1> SUFFICES ASSUME IInv, Shutdown PROVE IInv'
  OBVIOUS
<1> DEFINE Sig(i) == IF inst[i].sig = "kill" THEN "kill" ELSE "term"
           New(i) == [Stop(inst[i], inst[i].respawn) EXCEPT !.sig = Sig(i)]
<1>1. inst' = [i \in DOMAIN inst |-> IF Running(inst[i]) THEN New(i) ELSE inst[i]]
  BY DEF Shutdown
<1>2. ASSUME NEW i \in DOMAIN inst
      PROVE  /\ Coherent(inst'[i])
             /\ Running(inst'[i]) => inst'[i].phase = "Terminating"
  <2>1. Coherent(inst[i])
    BY DEF IInv, InstancesOK
  <2>2. CASE Running(inst[i])
    <3> DEFINE stop == Stop(inst[i], inst[i].respawn)
    <3>1. Coherent(stop) /\ stop.phase = "Terminating"
      <4>1. inst[i].respawn \in BOOLEAN /\ inst[i] \in Instance
        BY <2>1 DEF Coherent, Instance
      <4> QED
        BY <2>1, <4>1, StopCoherent DEF Stop, Instance
    <3>2. inst'[i] = [stop EXCEPT !.sig = Sig(i)]
      BY <1>1, <2>2
    <3>3. Sig(i) \in {"kill", "term"}
      OBVIOUS
    <3> HIDE DEF stop, Sig
    <3> QED
      BY <3>1, <3>2, <3>3 DEF Coherent, Instance, Running, Alive
  <2>3. CASE ~Running(inst[i])
    BY <1>1, <2>1, <2>3
  <2> QED
    BY <2>2, <2>3
<1>3. inst' = [i \in DOMAIN inst' |-> inst'[i]] /\ DOMAIN inst' = DOMAIN inst
  BY <1>1
<1>4. /\ UNCHANGED <<disk, loopVars, checksOk, slotPorts, doomed, crashes>>
      /\ pc' = "teardown" /\ todo' = {}
  BY DEF Shutdown
<1> QED
  BY <1>2, <1>3, <1>4, TeardownInv

\* Each poll of teardown harvests or escalates Terminating instances.
LEMMA PollInv == IInv /\ TeardownPoll => IInv'
<1> SUFFICES ASSUME IInv, TeardownPoll PROVE IInv'
  OBVIOUS
<1>1. inst' = [i \in DOMAIN inst |-> Harvested(inst[i])]
  BY DEF TeardownPoll
<1>2. ASSUME NEW i \in DOMAIN inst
      PROVE  /\ Coherent(inst'[i])
             /\ Running(inst'[i]) => inst'[i].phase = "Terminating"
  <2>1. Coherent(inst[i]) /\ (Running(inst[i]) => inst[i].phase = "Terminating")
    BY DEF IInv, InstancesOK, AllStopping, TeardownPoll
  <2>2. inst'[i] = Harvested(inst[i])
    BY <1>1
  <2>3. Running(Harvested(inst[i])) => Harvested(inst[i]).phase = "Terminating"
    BY <2>1 DEF Harvested, Escalated, Running, Coherent, Instance
  <2> QED
    BY <2>1, <2>2, <2>3, HarvestedCoherent
<1>3. inst' = [i \in DOMAIN inst' |-> inst'[i]] /\ DOMAIN inst' = DOMAIN inst
  BY <1>1
<1>4. /\ UNCHANGED <<disk, loopVars, checksOk, slotPorts, doomed, todo, crashes>>
      /\ pc = "teardown" /\ pc' \in {"teardown", "down"}
  BY DEF TeardownPoll
<1>5. todo' = {}
  BY <1>4 DEF IInv
<1> QED
  BY <1>2, <1>3, <1>4, <1>5, TeardownInv

\* What a child or a clock does to an instance.
LEMMA OneInstanceInv ==
    ASSUME IInv, NEW i \in DOMAIN inst, NEW r,
           inst' = [inst EXCEPT ![i] = r], Coherent(r),
           Running(r) => Running(inst[i]) /\ r.phase = inst[i].phase,
           UNCHANGED <<disk, loopVars, checksOk, slotPorts, doomed, pc, todo>>,
           crashes' \in Nat
    PROVE  IInv'
<1>1. LoopTypeOK'
  BY DEF IInv, LoopTypeOK, loopVars, Loadable, PortOf
<1>2. DOMAIN inst' = DOMAIN inst /\ inst' = [j \in DOMAIN inst' |-> inst'[j]]
  OBVIOUS
<1>3. InstancesOK'
  BY <1>2 DEF IInv, InstancesOK
<1>4. AllStopping => AllStopping'
  BY <1>2 DEF AllStopping
<1> QED
  BY <1>1, <1>2, <1>3, <1>4 DEF IInv

\* A child comes up or exits, or a deadline of its instance passes.
LEMMA ChildInv ==
    ASSUME NEW i \in DOMAIN inst
    PROVE  IInv /\ Child(i) => IInv'
<1> SUFFICES ASSUME IInv, Child(i) PROVE IInv'
  OBVIOUS
<1>1. Coherent(inst[i])
  BY DEF IInv, InstancesOK
<1>2. ASSUME Alive(inst[i]), NEW p \in {"up", "exited"}, ChildIs(i, p), crashes' \in Nat
      PROVE  IInv'
  <2> DEFINE r == [inst[i] EXCEPT !.proc = p]
  <2>1. inst' = [inst EXCEPT ![i] = r]
    BY <1>2 DEF ChildIs
  <2>2. Coherent(r)
    BY <1>1, <1>2 DEF Coherent, Instance, Running, Alive
  <2>3. Running(inst[i]) /\ r.phase = inst[i].phase
    BY <1>1, <1>2 DEF Running, Alive, Coherent, Instance
  <2> HIDE DEF r
  <2> QED
    BY <1>2, <2>1, <2>2, <2>3, OneInstanceInv DEF ChildIs
<1>3. crashes \in Nat
  BY DEF IInv, LoopTypeOK
<1>4. CASE Boot(i)
  BY <1>2, <1>3, <1>4 DEF Boot, Alive
<1>5. CASE Crash(i)
  BY <1>2, <1>3, <1>5 DEF Crash
<1>6. CASE ObeySigterm(i)
  BY <1>2, <1>3, <1>6 DEF ObeySigterm
<1>7. CASE Killed(i)
  BY <1>2, <1>3, <1>7 DEF Killed
<1>8. CASE Elapse(i)
  <2> DEFINE r == [inst[i] EXCEPT !.timer = "due"]
  <2>1. inst' = [inst EXCEPT ![i] = r]
    BY <1>8 DEF Elapse
  <2>2. Coherent(r)
    BY <1>1 DEF Coherent, Instance, Running, Alive
  <2>3. (Running(r) => Running(inst[i])) /\ r.phase = inst[i].phase
    BY <1>1 DEF Running, Coherent, Instance
  <2> HIDE DEF r
  <2> QED
    BY <1>3, <1>8, <2>1, <2>2, <2>3, OneInstanceInv DEF Elapse
<1> QED
  BY <1>4, <1>5, <1>6, <1>7, <1>8 DEF Child

\* A save changes the file alone.
LEMMA SaveInv ==
    ASSUME NEW m \in Manifests
    PROVE  IInv /\ Save(m) => IInv'
<1> SUFFICES ASSUME IInv, Save(m) PROVE IInv'
  OBVIOUS
<1>1. disk' \in [body : Manifests, mtime : Nat, last : Nat]
  BY DEF Save, IInv, LoopTypeOK
<1> QED
  BY <1>1 DEF Save, IInv, LoopTypeOK, InstancesOK, AllStopping, loopVars, Loadable, PortOf

\* So does its removal.
LEMMA DeleteInv == IInv /\ Delete => IInv'
<1> SUFFICES ASSUME IInv, Delete PROVE IInv'
  OBVIOUS
<1>1. disk' \in [body : Manifests, mtime : Nat, last : Nat]
  BY DEF Delete, IInv, LoopTypeOK, NoTime
<1> QED
  BY <1>1 DEF Delete, IInv, LoopTypeOK, InstancesOK, AllStopping, loopVars, Loadable, PortOf

\* A dropped child that dies frees its port.
LEMMA ReleasedInv ==
    ASSUME NEW p \in doomed
    PROVE  IInv /\ Released(p) => IInv'
BY DEF Released, IInv, LoopTypeOK, InstancesOK, AllStopping, loopVars, Loadable, PortOf

\* The invariant is inductive.
LEMMA NextInv == IInv /\ [Next]_vars => IInv'
<1> SUFFICES ASSUME IInv, [Next]_vars PROVE IInv'
  OBVIOUS
<1>1. CASE Tick
  BY <1>1, ReloadInv, VerifyInv, ReapInv, TerminateInv, BlockInv, RollInv,
     SpawnInv, RetireInv, ProbeInv, EndTickInv DEF Tick
<1>2. CASE Shutdown \/ TeardownPoll
  BY <1>2, ShutdownInv, PollInv
<1>3. CASE \E i \in DOMAIN inst : Child(i)
  BY <1>3, ChildInv
<1>4. CASE (\E p \in doomed : Released(p)) \/ (\E m \in Manifests : Save(m)) \/ Delete
  BY <1>4, ReleasedInv, SaveInv, DeleteInv
<1>5. CASE UNCHANGED vars
  BY <1>5 DEF vars, IInv, LoopTypeOK, InstancesOK, AllStopping, loopVars, Loadable, PortOf
<1> QED
  BY <1>1, <1>2, <1>3, <1>4, <1>5 DEF Next

\* The invariant holds in every behaviour.
LEMMA Invariance == Spec => []IInv
BY InitInv, NextInv, PTL DEF Spec

-----------------------------------------------------------------------------
(***************************************************************************)
(* The theorems.                                                           *)
(***************************************************************************)

\* Whatever the manifests, the edits and the crashes, the loop's state has its
\* shape, and the manifest in force is one that validates.
THEOREM TypeCorrect == Spec => []TypeOK
<1>1. IInv => TypeOK
  BY DEF IInv, LoopTypeOK, InstancesOK, TypeOK, Coherent
<1> QED
  BY <1>1, Invariance, PTL

\* The phase of an instance always agrees with its having a child.
THEOREM PhaseCorrect == Spec => []PhaseMatchesHandle
<1>1. IInv => PhaseMatchesHandle
  BY DEF IInv, InstancesOK, PhaseMatchesHandle, Coherent
<1> QED
  BY <1>1, Invariance, PTL

\* The children signalled are exactly those of Terminating instances, and each
\* of them has a grace period that will end.
THEOREM StopCorrect == Spec => []StopIsSignalled
<1>1. IInv => StopIsSignalled
  BY DEF IInv, InstancesOK, StopIsSignalled, Coherent
<1> QED
  BY <1>1, Invariance, PTL

-----------------------------------------------------------------------------
(***************************************************************************)
(* Stops are final.                                                        *)
(***************************************************************************)

\* What a step may do to an instance that is being stopped.
StopKept(r, q) ==
    Alive(r) /\ Alive(q) /\ r.phase = "Terminating" =>
        /\ q.phase = "Terminating"
        /\ q.respawn = r.respawn
        /\ r.sig = "kill" => q.sig = "kill"
        /\ r.timer = "due" /\ q.timer # "due" => q.sig = "kill"
KeepsStops == \A i \in DOMAIN inst \intersect DOMAIN inst' : StopKept(inst[i], inst'[i])

\* An instance that is as it was, or was not being stopped, raises no question.
LEMMA StopKeptTrivially ==
    ASSUME NEW r, NEW q, q = r \/ ~Alive(r) \/ r.phase # "Terminating"
    PROVE  StopKept(r, q)
BY DEF StopKept

\* Only SIGKILL follows SIGTERM, and with a grace of its own.
LEMMA EscalatedKeepsStop ==
    ASSUME NEW r \in Instance
    PROVE  StopKept(r, Escalated(r)) /\ StopKept(r, Harvested(r))
<1>1. StopKept(r, Escalated(r))
  BY DEF StopKept, Escalated, Instance
<1>2. r.proc = "exited" => ~Alive(r)
  BY DEF Alive
<1> QED
  BY <1>1, <1>2, StopKeptTrivially DEF Harvested, StopKept

\* reap makes an instance whose child exited anew, and escalates the others.
LEMMA ReapKeepsStops == IInv /\ Reap => KeepsStops
<1> SUFFICES ASSUME IInv, Reap, NEW i \in DOMAIN inst, i \in DOMAIN inst'
             PROVE  StopKept(inst[i], inst'[i])
  BY DEF KeepsStops
<1>1. inst'[i] = Reaped(i)
  BY DEF Reap
<1>2. inst[i] \in Instance
  BY DEF IInv, InstancesOK, Coherent
<1>3. inst[i].proc \in {"none", "exited"} => ~Alive(inst[i])
  BY DEF Alive
<1> QED
  BY <1>1, <1>2, <1>3, EscalatedKeepsStop, StopKeptTrivially DEF Reaped

\* The handlers that stop instances stop none twice.
LEMMA StopsKeepStops ==
    IInv /\ (TerminateUndesired \/ StopCheckBlocked \/ RollStale \/ RetireStaleSurplus)
        => KeepsStops
<1> SUFFICES ASSUME IInv,
                    TerminateUndesired \/ StopCheckBlocked \/ RollStale
                       \/ RetireStaleSurplus,
                    NEW i \in DOMAIN inst, i \in DOMAIN inst'
             PROVE  inst'[i] = inst[i] \/ inst[i].phase # "Terminating"
  BY StopKeptTrivially DEF KeepsStops
<1>1. CASE TerminateUndesired
  BY <1>1 DEF TerminateUndesired, StopUndesired
<1>2. CASE StopCheckBlocked
  BY <1>2 DEF StopCheckBlocked
<1>3. CASE RetireStaleSurplus
  BY <1>3 DEF RetireStaleSurplus, Superseded
<1>4. CASE RollStale
  <2>1. PICK picked \in Picks : \E rest :
          inst'[i] = IF i \in picked \ rest THEN Stop(inst[i], FALSE) ELSE inst[i]
    BY <1>4 DEF RollStale
  <2>2. i \in picked => inst[i].phase # "Terminating"
    BY DEF Picks, Rollable, StaleUnready, StaleReady
  <2> QED
    BY <2>1, <2>2
<1> QED
  BY <1>1, <1>2, <1>3, <1>4

\* spawn_missing launches over no child.
LEMMA SpawnKeepsStops == IInv /\ SpawnMissing => KeepsStops
<1> SUFFICES ASSUME IInv, SpawnMissing, NEW i \in DOMAIN inst, i \in DOMAIN inst'
             PROVE  inst'[i] = inst[i] \/ ~Alive(inst[i])
  BY StopKeptTrivially DEF KeepsStops
<1>1. i \in DOMAIN WithPending /\ WithPending[i] = inst[i]
  BY DEF WithPending
<1>2. ~Startable(i, inst[i]) => inst'[i] = inst[i]
  BY <1>1 DEF SpawnMissing
<1> QED
  BY <1>2 DEF Startable, Running, Alive

\* A Terminating instance is not probed.
LEMMA ProbeKeepsStops ==
    ASSUME NEW i \in todo, NEW readyDue \in BOOLEAN, NEW liveDue \in BOOLEAN
    PROVE  IInv /\ Probe(i, readyDue, liveDue) => KeepsStops
<1> SUFFICES ASSUME IInv, Probe(i, readyDue, liveDue), NEW j \in DOMAIN inst
             PROVE  inst'[j] = inst[j] \/ inst[j].phase # "Terminating"
  BY StopKeptTrivially DEF KeepsStops
<1>1. PICK r \in AfterReady(i, inst[i], readyDue) :
        \E s \in AfterLive(i, r, liveDue) : inst' = [inst EXCEPT ![i] = s]
  BY DEF Probe
<1>2. PICK s \in AfterLive(i, r, liveDue) : inst' = [inst EXCEPT ![i] = s]
  BY <1>1
<1>3. inst[i].phase = "Terminating" => s = inst[i]
  BY <1>1, <1>2 DEF AfterReady, AfterLive, Probed
<1> QED
  BY <1>2, <1>3

\* Nor do children and clocks take a stop back.
LEMMA ChildKeepsStops ==
    ASSUME NEW i \in DOMAIN inst
    PROVE  IInv /\ Child(i) => KeepsStops
<1> SUFFICES ASSUME IInv, Child(i), NEW j \in DOMAIN inst
             PROVE  StopKept(inst[j], inst'[j])
  BY DEF KeepsStops
<1>1. inst[j] \in Instance
  BY DEF IInv, InstancesOK, Coherent
<1>2. (\E p : inst' = [inst EXCEPT ![i].proc = p])
         \/ inst' = [inst EXCEPT ![i].timer = "due"]
  BY DEF Child, Boot, Crash, ObeySigterm, Killed, Elapse, ChildIs
<1> QED
  BY <1>1, <1>2 DEF StopKept, Instance

\* teardown signals all, SIGKILLed children keep their SIGKILL.
LEMMA ShutdownKeepsStops ==
    ASSUME IInv, Shutdown, NEW i \in DOMAIN inst,
           Alive(inst[i]), inst[i].phase = "Terminating"
    PROVE  /\ inst'[i].phase = "Terminating"
           /\ inst'[i].respawn = inst[i].respawn
           /\ inst[i].sig = "kill" => inst'[i].sig = "kill"
<1> DEFINE stop == Stop(inst[i], inst[i].respawn)
           sig == IF inst[i].sig = "kill" THEN "kill" ELSE "term"
<1>1. inst'[i] = [stop EXCEPT !.sig = sig]
  BY DEF Shutdown, Alive, Running
<1>2. Coherent(inst[i]) /\ inst[i].respawn \in BOOLEAN
  BY DEF IInv, InstancesOK, Coherent, Instance
<1>3. stop \in Instance
  BY <1>2, StopCoherent DEF Coherent
<1>4. stop.phase = "Terminating" /\ stop.respawn = inst[i].respawn
  BY <1>2 DEF Stop, Coherent, Instance
<1> HIDE DEF stop
<1> QED
  BY <1>1, <1>3, <1>4 DEF Instance

\* Once SIGTERMed, a child is never counted on again, and its grace runs out.
THEOREM StopsAreFinal == Spec => StopIsFinal
<1> DEFINE Kept(i) ==
      Alive(inst[i]) /\ Alive(inst'[i]) /\ inst[i].phase = "Terminating" =>
         /\ inst'[i].phase = "Terminating"
         /\ inst'[i].respawn = inst[i].respawn
         /\ inst[i].sig = "kill" => inst'[i].sig = "kill"
         /\ inst[i].timer = "due" /\ inst'[i].timer # "due" =>
               inst'[i].sig = "kill" \/ pc' = "teardown"
<1>1. KeepsStops => \A i \in DOMAIN inst \intersect DOMAIN inst' : Kept(i)
  BY DEF KeepsStops, StopKept
<1>2. IInv /\ Next => \A i \in DOMAIN inst \intersect DOMAIN inst' : Kept(i)
  <2> SUFFICES ASSUME IInv, Next
               PROVE  \A i \in DOMAIN inst \intersect DOMAIN inst' : Kept(i)
    OBVIOUS
  <2>1. UNCHANGED inst => KeepsStops
    BY StopKeptTrivially DEF KeepsStops
  <2>2. CASE Tick
    <3>1. CASE MaybeReload \/ ReverifyChecks \/ EndTick
      BY <1>1, <2>1, <3>1 DEF MaybeReload, ReverifyChecks, EndTick
    <3> QED
      BY <1>1, <2>2, <3>1, ReapKeepsStops, StopsKeepStops, SpawnKeepsStops,
         ProbeKeepsStops DEF Tick
  <2>3. CASE Shutdown
    BY <2>3, ShutdownKeepsStops DEF Shutdown
  <2>4. CASE TeardownPoll
    <3>1. ASSUME NEW i \in DOMAIN inst PROVE StopKept(inst[i], inst'[i])
      BY <2>4, EscalatedKeepsStop DEF TeardownPoll, IInv, InstancesOK, Coherent
    <3> QED
      BY <1>1, <3>1 DEF KeepsStops
  <2>5. CASE \E i \in DOMAIN inst : Child(i)
    BY <1>1, <2>5, ChildKeepsStops
  <2>6. CASE (\E p \in doomed : Released(p)) \/ (\E m \in Manifests : Save(m)) \/ Delete
    BY <1>1, <2>1, <2>6 DEF Released, Save, Delete
  <2> QED
    BY <2>2, <2>3, <2>4, <2>5, <2>6 DEF Next
<1>3. IInv /\ [Next]_vars =>
         [\A i \in DOMAIN inst \intersect DOMAIN inst' : Kept(i)]_vars
  BY <1>2
<1>4. Spec => [][\A i \in DOMAIN inst \intersect DOMAIN inst' : Kept(i)]_vars
  BY <1>3, Invariance, PTL DEF Spec
<1> QED
  BY <1>4 DEF StopIsFinal

-----------------------------------------------------------------------------
(***************************************************************************)
(* A tick settles.                                                         *)
(***************************************************************************)

\* A child that is not being stopped.
Active(r) == Running(r) /\ r.phase # "Terminating"

\* What each handler leaves to the next: terminate_undesired only wanted slots,
\* and there alone instances without a child; stop_check_blocked no app whose
\* check fails.
TInv ==
    /\ pc \in {"block", "roll", "spawn", "retire", "probe", "sleep"} =>
          \A i \in DOMAIN inst : Active(inst[i]) => SlotOf(i) \in Desired
    /\ pc \in {"block", "roll", "spawn"} =>
          \A i \in DOMAIN inst : ~Running(inst[i]) => SlotOf(i) \in Desired
    /\ pc \in {"roll", "spawn", "retire", "probe", "sleep"} =>
          \A i \in DOMAIN inst : Active(inst[i]) => ~Blocked(AppOf(i))

\* A stopped instance is not active, and has its child as before.
LEMMA StopIsNotActive ==
    ASSUME NEW r \in Instance, NEW b
    PROVE  ~Active(Stop(r, b)) /\ (Running(Stop(r, b)) <=> Running(r))
BY DEF Active, Running, Stop, Instance

\* Handlers that neither launch nor forget a child keep what was left to them.
LEMMA KeepTInv ==
    ASSUME TInv, UNCHANGED <<manifest, selected, checksOk>>,
           pc' = pc \/ <<pc, pc'>> \in {<<"roll", "spawn">>, <<"retire", "probe">>,
                                         <<"probe", "sleep">>},
           DOMAIN inst' = DOMAIN inst,
           \A i \in DOMAIN inst : /\ Active(inst'[i]) => Active(inst[i])
                                  /\ Running(inst[i]) => Running(inst'[i])
    PROVE  TInv'
<1>1. Desired' = Desired /\ \A a : Blocked(a)' <=> Blocked(a)
  BY DEF Desired, Blocked
<1> QED
  BY <1>1 DEF TInv

\* terminate_undesired stops what runs outside the wanted slots and drops the
\* slots that have nothing to stop.
LEMMA TerminateSettles == IInv /\ TerminateUndesired => TInv'
<1> SUFFICES ASSUME IInv, TerminateUndesired PROVE TInv'
  OBVIOUS
<1> DEFINE idle == {SlotOf(i) : i \in {j \in DOMAIN inst :
                                        Undesired(j) /\ ~Running(inst[j])}}
<1>1. /\ inst' = [i \in Remaining(idle) |-> IF Undesired(i)
                                             THEN StopUndesired(inst[i]) ELSE inst[i]]
      /\ pc' = "block" /\ Desired' = Desired
  BY DEF TerminateUndesired, Goto, loopVars, Desired
<1>2. ASSUME NEW i \in DOMAIN inst', SlotOf(i) \notin Desired
      PROVE  ~Active(inst'[i]) /\ Running(inst'[i])
  <2>1. i \in DOMAIN inst /\ SlotOf(i) \notin idle
    BY <1>1, <1>2 DEF Remaining
  <2>2. Undesired(i) /\ Running(inst[i])
    BY <1>2, <2>1 DEF Undesired
  <2>3. inst[i] \in Instance
    BY <2>1 DEF IInv, InstancesOK, Coherent
  <2>4. inst'[i] = StopUndesired(inst[i])
    BY <1>1, <1>2, <2>2
  <2>5. CASE Active(inst[i])
    <3>1. inst'[i] = Stop(inst[i], FALSE)
      BY <2>4, <2>5 DEF StopUndesired, Active
    <3> QED
      BY <2>2, <2>3, <3>1, StopIsNotActive
  <2>6. CASE ~Active(inst[i])
    BY <2>2, <2>4, <2>6 DEF StopUndesired, Active
  <2> QED
    BY <2>5, <2>6
<1> QED
  BY <1>1, <1>2 DEF TInv

\* stop_check_blocked stops what depends on a failing check.
LEMMA BlockSettles == IInv /\ TInv /\ StopCheckBlocked => TInv'
<1> SUFFICES ASSUME IInv, TInv, StopCheckBlocked PROVE TInv'
  OBVIOUS
<1>1. /\ DOMAIN inst' = DOMAIN inst /\ pc = "block" /\ pc' = "roll"
      /\ Desired' = Desired /\ \A a : Blocked(a)' <=> Blocked(a)
  BY DEF StopCheckBlocked, Goto, loopVars, Desired, Blocked
<1>2. ASSUME NEW i \in DOMAIN inst
      PROVE  /\ Active(inst'[i]) => Active(inst[i]) /\ ~Blocked(AppOf(i))
             /\ Running(inst'[i]) <=> Running(inst[i])
  <2>1. inst[i] \in Instance
    BY DEF IInv, InstancesOK, Coherent
  <2>2. inst'[i] = IF Blocked(AppOf(i)) /\ Active(inst[i])
                   THEN Stop(inst[i], TRUE) ELSE inst[i]
    BY DEF StopCheckBlocked, Active
  <2> QED
    BY <2>1, <2>2, StopIsNotActive
<1> QED
  BY <1>1, <1>2 DEF TInv

\* roll_stale and retire_stale_surplus only stop.
LEMMA RollSettles == IInv /\ TInv /\ (RollStale \/ RetireStaleSurplus) => TInv'
<1> SUFFICES ASSUME IInv, TInv, RollStale \/ RetireStaleSurplus PROVE TInv'
  OBVIOUS
<1>1. ASSUME NEW i \in DOMAIN inst
      PROVE  inst'[i] = inst[i] \/ inst'[i] = Stop(inst[i], FALSE)
  BY DEF RollStale, RetireStaleSurplus
<1>2. ASSUME NEW i \in DOMAIN inst PROVE inst[i] \in Instance
  BY DEF IInv, InstancesOK, Coherent
<1>3. DOMAIN inst' = DOMAIN inst
  BY DEF RollStale, RetireStaleSurplus
<1>4. <<pc, pc'>> \in {<<"roll", "spawn">>, <<"retire", "probe">>}
  BY DEF RollStale, RetireStaleSurplus, Goto
<1>5. UNCHANGED <<manifest, selected, checksOk>>
  BY DEF RollStale, RetireStaleSurplus, loopVars
<1>6. \A i \in DOMAIN inst : /\ Active(inst'[i]) => Active(inst[i])
                             /\ Running(inst[i]) => Running(inst'[i])
  BY <1>1, <1>2, StopIsNotActive
<1> QED
  BY <1>3, <1>4, <1>5, <1>6, KeepTInv

\* spawn_missing launches in wanted slots, of apps whose checks pass.
LEMMA SpawnSettles == IInv /\ TInv /\ SpawnMissing => TInv'
<1> SUFFICES ASSUME IInv, TInv, SpawnMissing PROVE TInv'
  OBVIOUS
<1> PICK failing :
      inst' = [i \in DOMAIN WithPending |->
                 IF ~Startable(i, WithPending[i]) THEN WithPending[i]
                 ELSE IF i \in failing THEN SpawnFailed(WithPending[i])
                 ELSE Spawned(i, WithPending[i])]
  BY DEF SpawnMissing
<1>1. /\ pc = "spawn" /\ pc' = "retire"
      /\ Desired' = Desired /\ \A a : Blocked(a)' <=> Blocked(a)
  BY DEF SpawnMissing, Goto, loopVars, Desired, Blocked
<1>2. ASSUME NEW i \in DOMAIN WithPending, ~Running(WithPending[i])
      PROVE  SlotOf(i) \in Desired
  <2>1. CASE i \in DOMAIN inst
    BY <1>1, <1>2, <2>1 DEF TInv, WithPending
  <2>2. CASE i \notin DOMAIN inst
    <3>1. PICK s \in Missing : i = NewId(s)
      BY <2>2 DEF WithPending
    <3> QED
      BY <3>1 DEF Missing, SlotOf, NewId
  <2> QED
    BY <2>1, <2>2
<1>3. ASSUME NEW i, NEW r, Startable(i, r)
      PROVE  ~Blocked(AppOf(i)) /\ ~Running(r)
  BY <1>3 DEF Startable, DepsOk, Blocked
<1>4. ASSUME NEW i \in DOMAIN inst', Active(inst'[i])
      PROVE  SlotOf(i) \in Desired /\ ~Blocked(AppOf(i))
  <2> DEFINE r == WithPending[i]
  <2>1. CASE Startable(i, r)
    BY <1>2, <1>3, <2>1
  <2>2. CASE ~Startable(i, r)
    <3>1. Active(r)
      BY <1>4, <2>2
    <3>2. i \in DOMAIN inst /\ r = inst[i]
      BY <3>1 DEF WithPending, PendingFor, Active, Running
    <3> QED
      BY <1>1, <3>1, <3>2 DEF TInv
  <2> QED
    BY <2>1, <2>2
<1> QED
  BY <1>1, <1>4 DEF TInv

\* A probe stops, or leaves running.
LEMMA ProbeSettles ==
    ASSUME NEW i \in todo, NEW readyDue \in BOOLEAN, NEW liveDue \in BOOLEAN
    PROVE  IInv /\ TInv /\ Probe(i, readyDue, liveDue) => TInv'
<1> SUFFICES ASSUME IInv, TInv, Probe(i, readyDue, liveDue) PROVE TInv'
  OBVIOUS
<1>1. PICK r \in AfterReady(i, inst[i], readyDue) :
        \E s \in AfterLive(i, r, liveDue) : inst' = [inst EXCEPT ![i] = s]
  BY DEF Probe
<1>2. PICK s \in AfterLive(i, r, liveDue) : inst' = [inst EXCEPT ![i] = s]
  BY <1>1
<1>3. i \in DOMAIN inst /\ Coherent(inst[i])
  BY DEF IInv, InstancesOK
<1>4. Coherent(r)
  BY <1>1, <1>3, AnswersType, ReadyAnswerCoherent DEF AfterReady, Probed
<1>5. Coherent(s)
  BY <1>2, <1>4, AnswersType, LiveAnswerCoherent DEF AfterLive
<1>6. s = inst[i] \/ (Active(inst[i]) /\ Running(s))
  <2>1. r = inst[i] \/ (Active(inst[i]) /\ Running(r))
    <3>1. ASSUME NEW ok PROVE Running(ReadyAnswer(inst[i], ok)) <=> Running(inst[i])
      <4>1. /\ Running([inst[i] EXCEPT !.phase = "Ready", !.everReady = TRUE, !.timer = "off"])
               <=> Running(inst[i])
            /\ Running([inst[i] EXCEPT !.phase = "Unready"]) <=> Running(inst[i])
        BY <1>3 DEF Coherent, Instance, Running
      <4>2. Running(Stop(inst[i], TRUE)) <=> Running(inst[i])
        BY <1>3, StopIsNotActive DEF Coherent
      <4> QED
        BY <4>1, <4>2 DEF ReadyAnswer
    <3> QED
      BY <1>1, <3>1 DEF AfterReady, Probed, Active
  <2>2. ASSUME Running(r), r.phase # "Terminating", NEW ok
        PROVE  Running(LiveAnswer(r, ok))
    <3>1. /\ Running([r EXCEPT !.liveFails = 0])
          /\ [r EXCEPT !.liveFails = @ + 1] \in Instance
          /\ Running([r EXCEPT !.liveFails = @ + 1])
      BY <1>4, <2>2 DEF Coherent, Instance, Running
    <3> QED
      BY <3>1, StopIsNotActive DEF LiveAnswer
  <2>3. s = r \/ (Running(r) /\ r.phase # "Terminating" /\ Running(s))
    BY <1>2, <2>2 DEF AfterLive, Probed
  <2> QED
    BY <2>1, <2>3 DEF Active
<1>7. /\ DOMAIN inst' = DOMAIN inst /\ pc' = pc
      /\ UNCHANGED <<manifest, selected, checksOk>>
  BY <1>2 DEF Probe, loopVars
<1>8. \A j \in DOMAIN inst : /\ Active(inst'[j]) => Active(inst[j])
                             /\ Running(inst[j]) => Running(inst'[j])
  BY <1>2, <1>3, <1>6 DEF Active
<1> QED
  BY <1>7, <1>8, KeepTInv

\* An exit is noticed by reap alone.
LEMMA ChildSettles ==
    ASSUME NEW i \in DOMAIN inst
    PROVE  IInv /\ TInv /\ Child(i) => TInv'
<1> SUFFICES ASSUME IInv, TInv, Child(i) PROVE TInv'
  OBVIOUS
<1>1. inst[i] \in Instance
  BY DEF IInv, InstancesOK, Coherent
<1>2. \/ /\ Running(inst[i])
         /\ \E p \in {"up", "exited"} : inst' = [inst EXCEPT ![i].proc = p]
      \/ inst' = [inst EXCEPT ![i].timer = "due"]
  BY DEF Child, Boot, Crash, ObeySigterm, Killed, Elapse, ChildIs, Alive, Running
<1>3. \A j \in DOMAIN inst : /\ Active(inst'[j]) => Active(inst[j])
                             /\ Running(inst[j]) => Running(inst'[j])
  BY <1>1, <1>2 DEF Active, Running, Instance
<1>4. /\ DOMAIN inst' = DOMAIN inst /\ pc' = pc
      /\ UNCHANGED <<manifest, selected, checksOk>>
  BY <1>2 DEF Child, Boot, Crash, ObeySigterm, Killed, Elapse, ChildIs, loopVars
<1> QED
  BY <1>3, <1>4, KeepTInv

\* The invariant is inductive with that of the types.
LEMMA TNextInv == IInv /\ TInv /\ [Next]_vars => TInv'
<1> SUFFICES ASSUME IInv, TInv, [Next]_vars PROVE TInv'
  OBVIOUS
<1>1. CASE MaybeReload \/ ReverifyChecks \/ Reap \/ Shutdown
  BY <1>1 DEF MaybeReload, ReverifyChecks, Reap, Shutdown, Goto, TInv
<1>2. CASE EndTick
  BY <1>2, KeepTInv DEF EndTick, Goto, loopVars
<1>3. CASE TeardownPoll
  BY <1>3 DEF TeardownPoll, TInv
<1>4. CASE \E i \in DOMAIN inst : Child(i)
  BY <1>4, ChildSettles
<1>5. CASE \/ \E p \in doomed : Released(p)
           \/ \E m \in Manifests : Save(m)
           \/ Delete \/ UNCHANGED vars
  BY <1>5, KeepTInv DEF Released, Save, Delete, vars, loopVars
<1> QED
  BY <1>1, <1>2, <1>3, <1>4, <1>5, TerminateSettles, BlockSettles, RollSettles,
     SpawnSettles, ProbeSettles DEF Next, Tick

\* Both invariants hold in every behaviour.
LEMMA TInvariance == Spec => [](IInv /\ TInv)
<1>1. Init => TInv
  BY DEF Init, TInv
<1> QED
  BY <1>1, InitInv, NextInv, TNextInv, PTL DEF Spec

\* Whatever was saved, crashed or failed before it, each tick ends with children
\* only in wanted slots and none of an app whose check fails, stops apart.
THEOREM TicksSettle == Spec => []TickSettles
<1>1. TInv => TickSettles
  BY DEF TInv, TickSettles, Active
<1> QED
  BY <1>1, TInvariance, PTL

===============================================================================
