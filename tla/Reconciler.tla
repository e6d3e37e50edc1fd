------------------------------ MODULE Reconciler ------------------------------
(***************************************************************************)
(* The control loop of `artzain up` (artzain-core/src/reconcile.rs), the   *)
(* child processes it starts, and the manifest file it watches.            *)
(*                                                                         *)
(* One tick of the loop is the chain of steps                              *)
(*   sleep -> verify -> reap -> terminate -> block -> roll -> spawn        *)
(*         -> retire -> probe -> sleep                                     *)
(* with one action per handler.  Children, clocks and the operator move    *)
(* between any two of them.                                                *)
(*                                                                         *)
(* An instance waits for at most one deadline at a time: the end of its    *)
(* backoff, the end of ready_timeout, or the end of the grace after        *)
(* SIGTERM.  Its `timer` is "set" until the clock makes it "due".  Whether *)
(* a periodic probe is due is a free choice of each tick.                  *)
(*                                                                         *)
(* A definition marked `mutant` is a plausible mistake in the definition   *)
(* after it; README.md names the property each one breaks.                 *)
(***************************************************************************)
EXTENDS ManifestFile, FiniteSets

CONSTANTS
    Manifests,      \* the file contents the operator may save
    First,          \* the manifest `up` starts with
    Only,           \* the --only list; {} when the option is absent
    LateSave,       \* may a save fall between loading First and the loop?
    LiveFailures,   \* live_failures: liveness failures that restart
    Deletes,        \* may the file be absent for a while?
    Flaky,          \* may a healthy server miss a probe?
    CheckFlaps,     \* may a check ever fail?
    SpawnFails,     \* may process::spawn return an error?
    SlowBoot,       \* may booting outlast ready_timeout?
    Stops,          \* may the operator send SIGTERM to `up`?
    MaxGen,         \* bound: instances of a slot that exist at once
    MaxEdits,       \* bound: saves of the manifest
    MaxCrashes      \* bound: exits nobody asked for

Slot == App \X (0 .. MaxReplicas - 1)
Gen == 1 .. MaxGen
Id == Slot \X Gen
Hash == [spec : Launch, port : Port]

Phase == {"Pending", "Starting", "Ready", "Unready", "Terminating",
          "CrashLoopBackOff"}
Instance == [port : Port, hash : Hash, phase : Phase,
             proc : {"none", "boot", "up", "exited"},
             sig : {"none", "term", "kill"},
             timer : {"off", "set", "due"},
             respawn : BOOLEAN, everReady : BOOLEAN, liveFails : Nat]

Step == {"sleep", "verify", "reap", "terminate", "block", "roll", "spawn",
         "retire", "probe", "teardown", "down"}
NoTime == 0

ASSUME ConstantsAssumption ==
    /\ App \intersect Check = {}
    /\ MaxReplicas \in Nat /\ MaxGen \in Nat
    /\ PortSpace \in Nat \ {0}
    /\ LiveFailures \in Nat \ {0}
    /\ MaxEdits \in Nat /\ MaxCrashes \in Nat
    /\ LateSave \in BOOLEAN /\ Deletes \in BOOLEAN
    /\ Flaky \in BOOLEAN /\ CheckFlaps \in BOOLEAN
    /\ SpawnFails \in BOOLEAN /\ SlowBoot \in BOOLEAN /\ Stops \in BOOLEAN

ASSUME ManifestsAssumption ==
    /\ Manifests \subseteq Manifest
    /\ First \in Manifests
    /\ Loadable(First) /\ First.apps # {}
    /\ Only \subseteq First.apps

-----------------------------------------------------------------------------

VARIABLES
    disk,       \* the manifest file: its body, mtime, and the last mtime given
    mtime,      \* manifest_mtime: what the loop reconciles to
    pending,    \* pending_mtime: seen, not yet acted on
    manifest,   \* the manifest in force
    selected,   \* the apps to run
    checksOk,   \* checks_ok, absent entries reading as TRUE
    slotPorts,  \* slot_ports: surge ports given to slots
    inst,       \* the instances, by id, with the child of each
    doomed,     \* ports held by dropped children, SIGKILLed by kill_on_drop
    pc,         \* the step of the tick the loop is at
    todo,       \* the instances this tick has still to probe
    crashes     \* unasked exits so far (bound MaxCrashes)

loopVars == <<mtime, pending, manifest, selected>>
vars == <<disk, loopVars, checksOk, slotPorts, inst, doomed, pc, todo, crashes>>

\* One managed process: the slot it fills is part of its id.
SlotOf(i) == i[1]
AppOf(i) == i[1][1]
OfSlot(s) == {i \in DOMAIN inst : SlotOf(i) = s}
OfApp(a) == {i \in DOMAIN inst : AppOf(i) = a}
Running(r) == r.proc # "none"
Alive(r) == r.proc \in {"boot", "up"}

\* A server binds $PORT; an app without probes is a worker that does not.
Serves(r) == r.hash.spec.ready \/ r.hash.spec.live
Bound(p) == {j \in DOMAIN inst : /\ inst[j].proc = "up" /\ Serves(inst[j])
                                 /\ inst[j].port = p}

\* desired_slots: each wanted slot with the port and hash it should have.
Desired == {s \in Slot : /\ s[1] \in manifest.apps \intersect selected
                         /\ s[2] < manifest.cfg[s[1]].replicas}
DesiredPort(s) == IF s \in DOMAIN slotPorts THEN slotPorts[s]
                                           ELSE PortOf(manifest, s[1], s[2])
DesiredHash(s) == [spec |-> manifest.cfg[s[1]].spec, port |-> DesiredPort(s)]
Stale(i) == SlotOf(i) \in Desired /\ inst[i].hash # DesiredHash(SlotOf(i))

\* begin_stop: SIGTERM the child, if any, mark the instance Terminating and
\* start the grace period.
StopQuietly(r, respawn) ==                                          \* mutant
    [r EXCEPT !.phase = "Terminating", !.respawn = respawn, !.timer = "set"]
Stop(r, respawn) ==
    [r EXCEPT !.phase = "Terminating", !.respawn = respawn, !.timer = "set",
              !.sig = IF Running(r) THEN "term" ELSE @]

\* `retain` on slot keys: every instance of those slots goes, and a handle
\* that is dropped with its child alive kills that child.
Remaining(slots) == {i \in DOMAIN inst : SlotOf(i) \notin slots}
PortsOfDropped(slots) ==
    {p \in Port : \E i \in Bound(p) : SlotOf(i) \in slots}

-----------------------------------------------------------------------------
(***************************************************************************)
(* The loop.                                                               *)
(***************************************************************************)

Init ==
    /\ \E m \in IF LateSave THEN Manifests ELSE {First} :
          disk = [body |-> m, mtime |-> 1, last |-> 1]
    /\ mtime = 1            \* read after the file was, and after the checks
    /\ pending = NoTime
    /\ manifest = First
    /\ selected = SelectApps(First, Only)
    /\ checksOk = [c \in Check |-> TRUE]    \* verify_checks lets no other start
    /\ slotPorts = [s \in {} |-> 0]
    /\ inst = [i \in {} |-> i]
    /\ doomed = {}
    /\ pc = "sleep"
    /\ todo = {}
    /\ crashes = 0

Goto(from, to) == pc = from /\ pc' = to

\* maybe_reload: act on a new mtime once it has held for a whole tick.  A file
\* that is absent has none, like `pending`: it is acted on, in vain, at once.
OnlyNames == IF Cardinality(selected) = Cardinality(manifest.apps)
             THEN {} ELSE selected
AcceptedUnread(m) == OnlyNames \subseteq m.apps                     \* mutant
AcceptedEmpty(m) == Loadable(m) /\ OnlyNames \subseteq m.apps       \* mutant
Accepted(m) == m.apps # {} /\ Loadable(m) /\ OnlyNames \subseteq m.apps
MaybeReload ==
    /\ Goto("sleep", "verify")
    /\ \/ /\ disk.mtime = mtime
          /\ pending' = NoTime
          /\ UNCHANGED <<mtime, manifest, selected>>
       \/ /\ disk.mtime \notin {mtime, pending}
          /\ pending' = disk.mtime
          /\ UNCHANGED <<mtime, manifest, selected>>
       \/ /\ disk.mtime # mtime /\ disk.mtime = pending
          /\ pending' = NoTime
          /\ mtime' = disk.mtime
          /\ IF disk.mtime # NoTime /\ Accepted(disk.body)
             THEN /\ manifest' = disk.body
                  /\ selected' = SelectApps(disk.body, OnlyNames)
             ELSE UNCHANGED <<manifest, selected>>
    /\ UNCHANGED <<disk, checksOk, slotPorts, inst, doomed, todo, crashes>>

\* reverify_checks: not yet due, or every check of the manifest is tried.
ReverifyChecks ==
    /\ Goto("verify", "reap")
    /\ \/ UNCHANGED checksOk
       \/ \E ok \in [manifest.checks -> BOOLEAN] :
             /\ CheckFlaps \/ \A c \in manifest.checks : ok[c]
             /\ checksOk' = [c \in Check |-> IF c \in manifest.checks
                                             THEN ok[c] ELSE checksOk[c]]
    /\ UNCHANGED <<disk, loopVars, slotPorts, inst, doomed, todo, crashes>>

\* reap: what becomes of an instance whose child exited, or overstays.
BackedOffUnseen(r) ==                                               \* mutant
    [r EXCEPT !.proc = "none", !.sig = "none", !.timer = "set",
              !.respawn = FALSE, !.everReady = FALSE]
BackedOff(r) ==
    [r EXCEPT !.phase = "CrashLoopBackOff", !.proc = "none", !.sig = "none",
              !.timer = "set", !.respawn = FALSE, !.everReady = FALSE]
NeverEscalated(r) == r                                              \* mutant
Escalated(r) ==
    IF r.phase = "Terminating" /\ r.timer = "due"
    THEN [r EXCEPT !.sig = "kill", !.timer = "set"] ELSE r
GoneAlready(i) == inst[i].phase = "Terminating" /\ ~inst[i].respawn  \* mutant
GoneForGood(i) == /\ inst[i].proc = "exited"
                  /\ inst[i].phase = "Terminating" /\ ~inst[i].respawn
Reaped(i) == CASE inst[i].proc = "none"   -> inst[i]
               [] inst[i].proc = "exited" -> BackedOff(inst[i])
               [] OTHER                   -> Escalated(inst[i])
Reap ==
    /\ Goto("reap", "terminate")
    /\ LET gone == {SlotOf(i) : i \in {j \in DOMAIN inst : GoneForGood(j)}}
       IN  /\ inst' = [i \in Remaining(gone) |-> Reaped(i)]
           /\ doomed' = doomed \union PortsOfDropped(gone)
    /\ UNCHANGED <<disk, loopVars, checksOk, slotPorts, todo, crashes>>

\* terminate_undesired: stop what runs outside the desired slots, and drop
\* the slots that have an instance there without a child.
UndesiredCount(i) == SlotOf(i)[2] >= manifest.cfg[AppOf(i)].replicas  \* mutant
Undesired(i) == SlotOf(i) \notin Desired
StopUndesired(r) == IF Running(r) /\ r.phase # "Terminating"
                    THEN Stop(r, FALSE) ELSE r
TerminateUndesired ==
    /\ Goto("terminate", "block")
    /\ LET idle == {SlotOf(i) : i \in {j \in DOMAIN inst :
                                         Undesired(j) /\ ~Running(inst[j])}}
       IN  /\ inst' = [i \in Remaining(idle) |->
                          IF Undesired(i) THEN StopUndesired(inst[i])
                                          ELSE inst[i]]
           /\ doomed' = doomed \union PortsOfDropped(idle)
    /\ UNCHANGED <<disk, loopVars, checksOk, slotPorts, todo, crashes>>

\* stop_check_blocked: stop, to restart later, what depends on a failing check.
Blocked(a) == /\ a \in manifest.apps
              /\ \E c \in manifest.cfg[a].deps \ manifest.apps : ~checksOk[c]
StopCheckBlocked ==
    /\ Goto("block", "roll")
    /\ inst' = [i \in DOMAIN inst |->
                  IF /\ Blocked(AppOf(i))
                     /\ Running(inst[i]) /\ inst[i].phase # "Terminating"
                  THEN Stop(inst[i], TRUE) ELSE inst[i]]
    /\ UNCHANGED <<disk, loopVars, checksOk, slotPorts, doomed, todo, crashes>>

\* surge_port_for: the first port past the app's own that no app declares.
Claimed == UNION {{PortOf(manifest, a, r) : r \in 0 .. manifest.cfg[a].replicas - 1} :
                  a \in manifest.apps}
SurgePort(a) ==
    LET base == manifest.cfg[a].port + manifest.cfg[a].replicas
        free == {p \in Port : p >= base /\ p \notin Claimed}
    IN  IF free = {} THEN base % PortSpace
        ELSE CHOOSE p \in free : \A q \in free : p <= q

\* roll_stale: per app, one stale instance that is not Ready is stopped; if
\* none is, one stale Ready instance is stopped while no replica is missing,
\* or, with max_surge, its slot is given a surge port.
StaleUnready(a) == {i \in OfApp(a) :
                      Stale(i) /\ inst[i].phase \notin {"Ready", "Terminating"}}
StaleReadyNone(a) == {}                                             \* mutant
StaleReady(a) == {i \in OfApp(a) : Stale(i) /\ inst[i].phase = "Ready"}
ReadyOf(a) == {i \in OfApp(a) : inst[i].phase = "Ready"}
FullyReady(a) == Cardinality(ReadyOf(a)) >= manifest.cfg[a].replicas
HasCurrentReady(s) == \E i \in OfSlot(s) : /\ inst[i].hash = DesiredHash(s) \* mutant
                                           /\ inst[i].phase = "Ready"
HasCurrent(s) == \E i \in OfSlot(s) : inst[i].hash = DesiredHash(s)
MaySurge(i) ==
    /\ ~HasCurrent(SlotOf(i))
    /\ Cardinality(OfApp(AppOf(i)))
          < manifest.cfg[AppOf(i)].replicas + manifest.surge
Rollable(a) == IF StaleUnready(a) # {} THEN StaleUnready(a)
               ELSE IF manifest.surge > 0 \/ FullyReady(a) THEN StaleReady(a)
               ELSE {}
\* one instance of every app that has one to roll
Picks == {T \in SUBSET UNION {Rollable(a) : a \in selected} :
            \A a \in selected : Rollable(a) # {} =>
               \E i \in Rollable(a) : T \intersect OfApp(a) = {i}}
RollStale ==
    /\ Goto("roll", "spawn")
    /\ \E picked \in Picks :
          LET surging == {i \in picked : /\ manifest.surge > 0
                                         /\ inst[i].phase = "Ready"}
              moved == {SlotOf(i) : i \in {j \in surging : MaySurge(j)}}
          IN  /\ inst' = [i \in DOMAIN inst |-> IF i \in picked \ surging
                                                THEN Stop(inst[i], FALSE)
                                                ELSE inst[i]]
              /\ slotPorts' = [s \in DOMAIN slotPorts \union moved |->
                                 IF s \in moved THEN SurgePort(s[1])
                                                ELSE slotPorts[s]]
    /\ UNCHANGED <<disk, loopVars, checksOk, doomed, todo, crashes>>

\* spawn_missing: a Pending instance for every slot without a current one ...
PendingFor(s) ==
    [port |-> DesiredPort(s), hash |-> DesiredHash(s), phase |-> "Pending",
     proc |-> "none", sig |-> "none", timer |-> "off",
     respawn |-> FALSE, everReady |-> FALSE, liveFails |-> 0]
Missing == {s \in Desired : ~HasCurrent(s)}
FreeGen(s) == {g \in Gen : <<s, g>> \notin DOMAIN inst}
NewId(s) == <<s, CHOOSE g \in FreeGen(s) : \A h \in FreeGen(s) : g <= h>>
WithPending == [i \in DOMAIN inst \union {NewId(s) : s \in Missing} |->
                  IF i \in DOMAIN inst THEN inst[i] ELSE PendingFor(SlotOf(i))]

\* ... then a child for every instance that waits for nothing.
DepsOk(a) ==
    /\ a \in manifest.apps
    /\ \A d \in manifest.cfg[a].deps :
          IF d \in manifest.apps THEN ReadyOf(d) # {} ELSE checksOk[d]
StartableOnce(i, r) == r.phase = "Pending" /\ DepsOk(AppOf(i))      \* mutant
Startable(i, r) == /\ ~Running(r) /\ r.phase # "Terminating"
                   /\ r.timer # "set" /\ DepsOk(AppOf(i))
Spawned(i, r) ==
    LET spec == manifest.cfg[AppOf(i)].spec
    IN  [r EXCEPT !.hash = [spec |-> spec, port |-> r.port],
                  !.phase = IF spec.ready THEN "Starting" ELSE "Ready",
                  !.proc = "boot", !.sig = "none",
                  !.timer = IF spec.ready THEN "set" ELSE "off",
                  !.everReady = ~spec.ready, !.liveFails = 0]
SpawnFailed(r) == [r EXCEPT !.phase = "CrashLoopBackOff", !.timer = "set"]
SpawnMissing ==
    /\ Goto("spawn", "retire")
    /\ \A s \in Missing : FreeGen(s) # {}           \* bound MaxGen
    /\ \E failing \in SUBSET DOMAIN WithPending :
          /\ SpawnFails \/ failing = {}
          /\ \A i \in failing : Startable(i, WithPending[i])
          /\ inst' = [i \in DOMAIN WithPending |->
                        LET r == WithPending[i]
                        IN  IF ~Startable(i, r) THEN r
                            ELSE IF i \in failing THEN SpawnFailed(r)
                            ELSE Spawned(i, r)]
    /\ UNCHANGED <<disk, loopVars, checksOk, slotPorts, doomed, todo, crashes>>

\* retire_stale_surplus: once a surge replacement is Ready, stop the rest.
SupersededEarly(i) ==                                               \* mutant
    /\ manifest.surge > 0
    /\ Stale(i) /\ inst[i].phase # "Terminating"
    /\ HasCurrent(SlotOf(i))
Superseded(i) ==
    /\ manifest.surge > 0
    /\ Stale(i) /\ inst[i].phase # "Terminating"
    /\ \E j \in OfSlot(SlotOf(i)) : /\ inst[j].phase = "Ready"
                                    /\ inst[j].hash = DesiredHash(SlotOf(i))
RetireStaleSurplus ==
    /\ Goto("retire", "probe")
    /\ inst' = [i \in DOMAIN inst |-> IF Superseded(i) THEN Stop(inst[i], FALSE)
                                                       ELSE inst[i]]
    /\ todo' = DOMAIN inst
    /\ UNCHANGED <<disk, loopVars, checksOk, slotPorts, doomed, crashes>>

\* probe: an HTTP request to the instance's port is answered by whatever
\* child has bound it.  A child of another app may answer either way.
Answers(i) ==
    LET servers == Bound(inst[i].port)
    IN  IF servers = {} THEN {FALSE}
        ELSE IF Flaky \/ \E j \in servers : AppOf(j) # AppOf(i) THEN BOOLEAN
        ELSE {TRUE}
ReadyAnswer(r, ok) ==
    IF ok THEN [r EXCEPT !.phase = "Ready", !.everReady = TRUE, !.timer = "off"]
    ELSE IF r.phase = "Ready" THEN [r EXCEPT !.phase = "Unready"]
    ELSE IF r.phase = "Starting" /\ r.timer = "due" THEN Stop(r, TRUE)
    ELSE r
LiveAnswer(r, ok) ==
    IF ok THEN [r EXCEPT !.liveFails = 0]
    ELSE IF r.liveFails + 1 >= LiveFailures
    THEN Stop([r EXCEPT !.liveFails = @ + 1], TRUE)
    ELSE [r EXCEPT !.liveFails = @ + 1]
ProbedStopping(i, r) == Running(r) /\ AppOf(i) \in manifest.apps    \* mutant
Probed(i, r) == Running(r) /\ r.phase # "Terminating" /\ AppOf(i) \in manifest.apps
AfterReady(i, r, due) ==
    IF Probed(i, r) /\ due /\ manifest.cfg[AppOf(i)].spec.ready
    THEN {ReadyAnswer(r, ok) : ok \in Answers(i)} ELSE {r}
AfterLive(i, r, due) ==
    IF Probed(i, r) /\ due /\ manifest.cfg[AppOf(i)].spec.live /\ r.everReady
    THEN {LiveAnswer(r, ok) : ok \in Answers(i)} ELSE {r}
Probe(i, readyDue, liveDue) ==
    /\ pc = "probe" /\ i \in todo
    /\ \E r \in AfterReady(i, inst[i], readyDue) :
          \E s \in AfterLive(i, r, liveDue) : inst' = [inst EXCEPT ![i] = s]
    /\ todo' = todo \ {i}
    /\ UNCHANGED <<disk, loopVars, checksOk, slotPorts, doomed, pc, crashes>>

EndTick ==
    /\ todo = {} /\ Goto("probe", "sleep")
    /\ UNCHANGED <<disk, loopVars, checksOk, slotPorts, inst, doomed, todo, crashes>>

\* A signal drops the future of the tick at one of its awaits; teardown then
\* SIGTERMs every child and waits, SIGKILLing what outlives the grace.
Shutdown ==
    /\ Stops /\ pc \in {"sleep", "verify", "probe"} /\ pc' = "teardown"
    /\ inst' = [i \in DOMAIN inst |->
                  IF Running(inst[i])
                  THEN [Stop(inst[i], inst[i].respawn) EXCEPT
                          !.sig = IF inst[i].sig = "kill" THEN "kill" ELSE "term"]
                  ELSE inst[i]]
    /\ todo' = {}
    /\ UNCHANGED <<disk, loopVars, checksOk, slotPorts, doomed, crashes>>
HarvestedOnly(r) == IF r.proc = "exited" THEN [r EXCEPT !.proc = "none"] \* mutant
                    ELSE r
Harvested(r) == IF r.proc = "exited" THEN [r EXCEPT !.proc = "none", !.sig = "none"]
                ELSE IF Running(r) THEN Escalated(r) ELSE r
TeardownPoll ==
    /\ pc = "teardown"
    /\ inst' = [i \in DOMAIN inst |-> Harvested(inst[i])]
    /\ pc' = IF \A i \in DOMAIN inst : ~Running(inst'[i]) THEN "down" ELSE pc
    /\ UNCHANGED <<disk, loopVars, checksOk, slotPorts, doomed, todo, crashes>>

-----------------------------------------------------------------------------
(***************************************************************************)
(* Children, clocks and the operator.                                      *)
(***************************************************************************)

Busy(p) == Bound(p) # {} \/ p \in doomed
ChildIs(i, proc) ==
    /\ inst' = [inst EXCEPT ![i].proc = proc]
    /\ UNCHANGED <<disk, loopVars, checksOk, slotPorts, doomed, pc, todo>>

\* A child that boots binds its port, or exits when it finds it in use.
Boot(i) ==
    /\ inst[i].proc = "boot"
    /\ ChildIs(i, IF Serves(inst[i]) /\ Busy(inst[i].port) THEN "exited" ELSE "up")
    /\ UNCHANGED crashes
Crash(i) ==
    /\ Alive(inst[i]) /\ crashes < MaxCrashes /\ crashes' = crashes + 1
    /\ ChildIs(i, "exited")
ObeySigterm(i) ==
    /\ Alive(inst[i]) /\ inst[i].sig = "term"
    /\ ChildIs(i, "exited") /\ UNCHANGED crashes
Killed(i) ==
    /\ Alive(inst[i]) /\ inst[i].sig = "kill"
    /\ ChildIs(i, "exited") /\ UNCHANGED crashes

\* A dropped child dies of its SIGKILL, and its port is free.
Released(p) ==
    /\ p \in doomed /\ doomed' = doomed \ {p}
    /\ UNCHANGED <<disk, loopVars, checksOk, slotPorts, inst, pc, todo, crashes>>

\* The clock reaches the deadline an instance waits for.
Elapse(i) ==
    /\ inst[i].timer = "set"
    /\ SlowBoot \/ ~(inst[i].phase = "Starting" /\ inst[i].proc = "boot")
    /\ inst' = [inst EXCEPT ![i].timer = "due"]
    /\ UNCHANGED <<disk, loopVars, checksOk, slotPorts, doomed, pc, todo, crashes>>

\* The operator saves the manifest, with an mtime of its own, or removes it
\* (to save it again: editors that rename do both).
Save(m) ==
    /\ disk.last <= MaxEdits
    /\ disk' = [body |-> m, mtime |-> disk.last + 1, last |-> disk.last + 1]
    /\ UNCHANGED <<loopVars, checksOk, slotPorts, inst, doomed, pc, todo, crashes>>
Delete ==
    /\ Deletes /\ disk.mtime \in 1 .. MaxEdits
    /\ disk' = [disk EXCEPT !.mtime = NoTime]
    /\ UNCHANGED <<loopVars, checksOk, slotPorts, inst, doomed, pc, todo, crashes>>

Tick == \/ MaybeReload \/ ReverifyChecks \/ Reap \/ TerminateUndesired
        \/ StopCheckBlocked \/ RollStale \/ SpawnMissing \/ RetireStaleSurplus
        \/ \E i \in todo, readyDue, liveDue \in BOOLEAN : Probe(i, readyDue, liveDue)
        \/ EndTick
Child(i) == Boot(i) \/ Crash(i) \/ ObeySigterm(i) \/ Killed(i) \/ Elapse(i)
Next == \/ Tick \/ Shutdown \/ TeardownPoll
        \/ \E i \in DOMAIN inst : Child(i)
        \/ \E p \in doomed : Released(p)
        \/ \E m \in Manifests : Save(m)
        \/ Delete

Spec == Init /\ [][Next]_vars

\* The loop runs, booting children get somewhere, SIGKILL works, clocks
\* advance, and a running instance is probed again and again.
Due(i) == \E liveDue \in BOOLEAN : Probe(i, TRUE, liveDue)
Fairness ==
    /\ WF_vars(Tick) /\ WF_vars(TeardownPoll)
    /\ \A i \in Id : /\ WF_vars(i \in DOMAIN inst /\ (Boot(i) \/ Killed(i)))
                     /\ WF_vars(i \in DOMAIN inst /\ Elapse(i))
                     /\ SF_vars(i \in DOMAIN inst /\ Due(i))
    /\ \A p \in Port : WF_vars(Released(p))
FairSpec == Spec /\ Fairness

-----------------------------------------------------------------------------
(***************************************************************************)
(* Properties.                                                             *)
(***************************************************************************)

\* The state of the loop and of every instance has its shape.
TypeOK ==
    /\ disk \in [body : Manifests, mtime : Nat, last : Nat]
    /\ mtime \in Nat /\ pending \in Nat
    /\ manifest \in Manifests /\ Loadable(manifest) /\ selected # {}
    /\ selected \subseteq manifest.apps
    /\ checksOk \in [Check -> BOOLEAN]
    /\ DOMAIN slotPorts \subseteq Slot
    /\ slotPorts \in [DOMAIN slotPorts -> Port]
    /\ DOMAIN inst \subseteq Id
    /\ inst \in [DOMAIN inst -> Instance]
    /\ doomed \subseteq Port
    /\ pc \in Step
    /\ todo \subseteq DOMAIN inst
    /\ crashes \in Nat

\* The phase that `status` shows and that gates dependents agrees with the
\* handle: an instance in Starting, Ready or Unready has a child to reap, and
\* one in Pending or CrashLoopBackOff has none (so none is spawned over it).
PhaseMatchesHandle ==
    \A i \in DOMAIN inst :
        inst[i].phase # "Terminating" =>
            (Running(inst[i]) <=> inst[i].phase \in {"Starting", "Ready", "Unready"})

\* A live child was asked to stop exactly when its instance is Terminating,
\* and then its grace period is running: no child is waited for that never
\* got a SIGTERM, none dies of a signal while the loop counts on it.
StopIsSignalled ==
    \A i \in DOMAIN inst : Alive(inst[i]) =>
        /\ inst[i].phase = "Terminating" <=> inst[i].sig # "none"
        /\ inst[i].phase = "Terminating" => inst[i].timer # "off"

\* When the handlers of a tick are done, whatever child is not being stopped
\* fills a slot the manifest wants, and no check it needs is known to fail.
TickSettles ==
    pc \in {"probe", "sleep"} =>
        \A i \in DOMAIN inst :
            Running(inst[i]) /\ inst[i].phase # "Terminating" =>
                SlotOf(i) \in Desired /\ ~Blocked(AppOf(i))

\* A stop is never taken back nor started over: until its child has exited a
\* Terminating instance stays so, SIGKILL is not followed by SIGTERM, and the
\* grace begins anew only with a SIGKILL (or with the teardown).
StopIsFinal ==
    [][\A i \in DOMAIN inst \intersect DOMAIN inst' :
          Alive(inst[i]) /\ Alive(inst'[i]) /\ inst[i].phase = "Terminating" =>
             /\ inst'[i].phase = "Terminating"
             /\ inst'[i].respawn = inst[i].respawn
             /\ inst[i].sig = "kill" => inst'[i].sig = "kill"
             /\ inst[i].timer = "due" /\ inst'[i].timer # "due" =>
                   inst'[i].sig = "kill" \/ pc' = "teardown"]_vars

\* With max_surge a serving instance makes way only to one that has come up by
\* itself: when roll_stale or retire_stale_surplus stops it, and the slot's new
\* port is not its own (so that no probe of the replacement was answered by it),
\* another instance of the slot is Ready whose child has booted.
MakesWay(i) == /\ inst[i].phase = "Ready" /\ inst[i].proc = "up" /\ Stale(i)
               /\ inst[i].port # DesiredPort(SlotOf(i))
               /\ pc \in {"roll", "retire"} /\ inst'[i].phase = "Terminating"
SurgeKeepsService ==
    [][\A i \in DOMAIN inst \intersect DOMAIN inst' :
          manifest.surge > 0 /\ MakesWay(i) =>
             \E j \in OfSlot(SlotOf(i)) \ {i} :
                 inst[j].phase = "Ready" /\ inst[j].proc # "boot"]_vars

\* Every child that is asked to stop is gone in the end, also one that ignores
\* SIGTERM, whatever restarts, reloads and shutdown happen meanwhile.
StopEnds ==
    \A i \in Id :
        i \in DOMAIN inst /\ Alive(inst[i]) /\ inst[i].phase = "Terminating"
            ~> ~(i \in DOMAIN inst /\ Alive(inst[i]) /\ inst[i].phase = "Terminating")

\* A shutdown completes, and leaves no child and no port behind.
ShutdownEnds ==
    pc = "teardown" ~>
        /\ pc = "down" /\ doomed = {}
        /\ \A i \in DOMAIN inst : inst[i].proc = "none"

\* Once crashes and edits stop, the cluster settles with the last loadable
\* manifest in force and in each slot it wants one instance that is Ready,
\* current, and whose child really serves.
Filled(s, i) == /\ inst[i].phase = "Ready" /\ inst[i].proc = "up"
                /\ inst[i].hash = DesiredHash(s)
Applied == disk.mtime # NoTime /\ Accepted(disk.body) => manifest = disk.body
Served == /\ \A s \in Desired : \E i \in DOMAIN inst :
                 OfSlot(s) = {i} /\ Filled(s, i)
          /\ \A i \in DOMAIN inst : SlotOf(i) \in Desired
Settled == Applied /\ Served
Converges == <>[]Settled

\* What failing checks, crashes and edits took down comes back: once the checks
\* pass for good, every slot of the manifest in force is filled again, those of
\* apps that waited for others included.
DependentsRecover == <>[](\A c \in Check : checksOk[c]) => <>[]Served

\* The same with leftovers allowed in a slot beside the one that serves.
EditsAreApplied ==
    <>[](Applied /\ \A s \in Desired : \E i \in OfSlot(s) : Filled(s, i))

\* No two instances ever fill one slot.
OneInstancePerSlot ==
    \A i, j \in DOMAIN inst : SlotOf(i) = SlotOf(j) => i = j

\* No child is launched at a port that another child of the cluster, dropped
\* ones included, may still hold.
PortsAreExclusive ==
    \A i \in DOMAIN inst : Running(inst[i]) =>
        /\ inst[i].port \notin doomed
        /\ \A j \in DOMAIN inst \ {i} : Running(inst[j]) =>
              inst[j].port # inst[i].port

-----------------------------------------------------------------------------
(***************************************************************************)
(* What the documentation says of rolling updates.                         *)
(***************************************************************************)

\* "at most this many of an app's replicas may be unavailable at once while
\* replacing stale instances": while no child crashes, an app with at most one
\* slot that no Ready child serves never has two.
Serving(a) == {i \in OfApp(a) : inst[i].phase = "Ready" /\ inst[i].proc = "up"}
Unavailable(a) == {r \in 0 .. manifest.cfg[a].replicas - 1 :
                     \A i \in OfSlot(<<a, r>>) : i \notin Serving(a)}
OneUnavailable(a) == Cardinality(Unavailable(a)) <= 1
RollsOneAtATime ==
    [][\A a \in manifest.apps :
          manifest' = manifest /\ OneUnavailable(a) => OneUnavailable(a)']_vars

=============================================================================
