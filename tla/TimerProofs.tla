----------------------------- MODULE TimerProofs -----------------------------
(***************************************************************************)
(* Proofs about one instance's timers (InstanceTimers), for all lengths of *)
(* the periods, the delays and the awaits.                                 *)
(*                                                                         *)
(* The inductive invariant says what each deadline of the instance means   *)
(* to an observer with a clock: it is what is left of the delay, the grace *)
(* or the timeout since the failure, the SIGTERM or the launch the         *)
(* observer last saw, and the counters are the ones the observer counted.  *)
(* The bounds on how late a signal comes need one more conjunct each, which*)
(* adds up what the rest of the tick can still take.                       *)
(***************************************************************************)
EXTENDS InstanceTimers, TLAPS

Left(delay) == IF seen.since < delay THEN delay - seen.since ELSE 0

\* The phase and the signal agree with the handle, and only an instance that
\* runs and was not asked to stop is probed.
PhaseOfChild ==
    /\ inst.handle <=> inst.phase \in {"Starting", "Ready", "Unready", "Terminating"}
    /\ sig # "none" <=> inst.phase = "Terminating"
    /\ pc \in {"ready", "live"} => inst.handle /\ sig = "none"

\* The restart counter and the backoff.
BackoffMeans ==
    /\ inst.restarts = seen.streak
    /\ ~inst.handle => inst.backoff = Left(Delay(seen.streak))

\* The grace.
GraceMeans == sig = "term" => inst.killIn = Left(StopGrace)

\* ready_timeout, ever_ready and the liveness count.
ProbesMean ==
    inst.handle /\ sig = "none" =>
        /\ inst.readyIn = Left(ReadyTimeout)
        /\ inst.liveFails = seen.missed
        /\ inst.everReady <=> ~NeverReady
        /\ inst.phase = "Starting" <=> NeverReady

IInv == TypeOK /\ PhaseOfChild /\ BackoffMeans /\ GraceMeans /\ ProbesMean

\* How long ago the SIGTERM can be, at each step of a tick that does not yet
\* bring the SIGKILL.
GraceLap ==
    sig = "term" =>
        /\ pc \in {"stop", "spawn", "probe"} => wait = 0 /\ seen.since < StopGrace
        /\ pc = "sleep" => seen.since + wait < StopGrace + Tick + Others
        /\ pc = "reap" => seen.since + wait < StopGrace + Lap

\* The same for a child that never answers and the readiness probe that stops
\* it: a probe that is not due came soon after one before the timeout.
LastProbe == ReadyTimeout + ReadyPeriod - 1
ReadyLap ==
    inst.handle /\ sig = "none" /\ NeverReady =>
        /\ inst.nextReady > 0 => seen.since + inst.nextReady <= LastProbe
        /\ pc \in {"stop", "spawn", "probe"} => wait = 0 /\ seen.since < LastProbe + Lap
        /\ pc = "ready" /\ "ready" \in due =>
              seen.since + wait < LastProbe + Lap + Others + ProbeTimeout
        /\ pc = "ready" /\ "ready" \notin due => seen.since + wait < LastProbe + Others
        /\ pc = "live" => seen.since + wait < LastProbe + Others
        /\ pc = "sleep" => seen.since + wait < LastProbe + Others + Tick
        /\ pc = "reap" => seen.since + wait < LastProbe + Lap

-----------------------------------------------------------------------------
\* The constants, one by one.
LEMMA Constants ==
    /\ Tick \in Nat /\ Tick > 0 /\ ReadyPeriod \in Nat /\ ReadyPeriod > 0
    /\ ProbeTimeout \in Nat /\ ProbeTimeout > 0
    /\ StopGrace \in Nat /\ StopGrace > 0 /\ StopGrace <= Horizon
    /\ KillAgain \in Nat /\ LivePeriod \in Nat
    /\ LiveFailures \in Nat /\ LiveFailures > 0
    /\ Cap \in Nat /\ Cap <= Horizon /\ StableAfter \in Nat
    /\ ReadyTimeout \in Nat /\ ReadyTimeout <= Horizon
    /\ Others \in Nat /\ Horizon \in Nat /\ MaxRestarts \in Nat
BY TimersAssumption DEF Periods

\* A delay never exceeds the cap, whatever the counter.
LEMMA DelayCapped == \A n : Delay(n) \in Nat /\ Delay(n) <= Horizon
<1>1. \A d : Capped(d) \in Nat /\ Capped(d) <= Horizon
    BY Constants DEF Capped
<1>2. QED BY <1>1, Constants DEF Delay

\* A deadline that means what it should keeps doing so as time passes.
LEMMA LeftPasses ==
    ASSUME NEW d \in Nat, d <= Horizon, NEW s \in Nat
    PROVE  Sooner(IF s < d THEN d - s ELSE 0)
              = IF Later(s) < d THEN d - Later(s) ELSE 0
BY Constants DEF Sooner, Later

LEMMA CountedNat == \A n \in Nat : Counted(n) \in Nat
BY Constants DEF Counted

-----------------------------------------------------------------------------
LEMMA InitHolds == Init => IInv /\ GraceLap /\ ReadyLap
<1> SUFFICES ASSUME Init PROVE IInv /\ GraceLap /\ ReadyLap
    OBVIOUS
<1> USE Constants DEF Init
<1>1. TypeOK BY DEF TypeOK, Pending, Unseen, Instance, Seen
<1>2. PhaseOfChild BY DEF PhaseOfChild, Pending
<1>3. BackoffMeans BY DEF BackoffMeans, Pending, Unseen, Left, Delay
<1>4. GraceMeans /\ ProbesMean BY DEF GraceMeans, ProbesMean, Pending
<1>5. GraceLap /\ ReadyLap BY DEF GraceLap, ReadyLap, Pending
<1>6. QED BY <1>1, <1>2, <1>3, <1>4, <1>5 DEF IInv

LEMMA ReverifyHolds == IInv /\ ReverifyChecks => IInv'
<1> SUFFICES ASSUME IInv, ReverifyChecks PROVE IInv'
    OBVIOUS
<1> USE Constants DEF IInv, ReverifyChecks, Goto, Await
<1>1. TypeOK' BY DEF TypeOK
<1>2. PhaseOfChild' BY DEF PhaseOfChild
<1>3. BackoffMeans' BY DEF BackoffMeans, Left
<1>4. GraceMeans' BY DEF GraceMeans, Left
<1>5. ProbesMean' BY DEF ProbesMean, Left, NeverReady
<1>6. QED BY <1>1, <1>2, <1>3, <1>4, <1>5

LEMMA PassHolds == IInv /\ Pass => IInv'
<1> SUFFICES ASSUME IInv, Pass PROVE IInv'
    OBVIOUS
<1> USE Constants DEF IInv
<1>1. seen.since \in Nat /\ inst \in Instance /\ seen \in Seen
    BY DEF TypeOK, Seen
<1>2. \A n \in Nat : Sooner(n) \in Nat /\ Later(n) \in Nat
    BY DEF Sooner, Later
<1>3. TypeOK'
    <2>1. inst' \in Instance BY <1>1, <1>2 DEF Pass, Instance
    <2>2. seen' \in Seen BY <1>1, <1>2 DEF Pass, Seen
    <2>3. wait' \in Nat BY DEF Pass, TypeOK
    <2>4. inst'.handle = inst.handle BY <1>1 DEF Pass, Instance
    <2>5. QED BY <2>1, <2>2, <2>3, <2>4 DEF TypeOK, Pass
<1>4. /\ inst'.phase = inst.phase /\ inst'.handle = inst.handle
      /\ inst'.restarts = inst.restarts /\ inst'.liveFails = inst.liveFails
      /\ inst'.everReady = inst.everReady
      /\ inst'.backoff = Sooner(inst.backoff) /\ inst'.killIn = Sooner(inst.killIn)
      /\ inst'.readyIn = Sooner(inst.readyIn)
    BY <1>1 DEF Pass, Instance
<1>5. /\ seen'.since = Later(seen.since) /\ seen'.streak = seen.streak
      /\ seen'.answered = seen.answered /\ seen'.missed = seen.missed
    BY <1>1 DEF Pass, Seen
<1>6. /\ pc' = pc /\ sig' = sig /\ paths' = paths
    BY DEF Pass
<1>7. ASSUME NEW d \in Nat, d <= Horizon
      PROVE  /\ Sooner(Left(d)) = IF Later(seen.since) < d
                                  THEN d - Later(seen.since) ELSE 0
    BY <1>1, <1>7, LeftPasses DEF Left
<1>8. PhaseOfChild' BY <1>4, <1>6 DEF PhaseOfChild
<1>9. BackoffMeans'
    BY <1>4, <1>5, <1>7, DelayCapped DEF BackoffMeans, Left
<1>10. GraceMeans' BY <1>4, <1>5, <1>6, <1>7 DEF GraceMeans, Left
<1>11. ProbesMean'
    BY <1>4, <1>5, <1>6, <1>7 DEF ProbesMean, Left, NeverReady
<1>12. QED BY <1>3, <1>8, <1>9, <1>10, <1>11

\* A SIGTERM of a running instance starts the grace of its child.
LEMMA StopHolds ==
    ASSUME IInv, inst.handle, sig = "none",
           NEW r \in Instance, NEW respawn \in BOOLEAN, NEW h \in Seen,
           r.handle = inst.handle, r.restarts = inst.restarts, h.streak = seen.streak,
           BeginStop(r, respawn, h), child' = child, paths' = paths,
           checkOk' = checkOk, pc' \in {"spawn", "sleep"}, wait' \in Nat,
           due' \subseteq paths
    PROVE  IInv'
<1> USE Constants DEF IInv, BeginStop
<1>1. /\ inst' \in Instance /\ seen' \in Seen /\ inst'.handle
      /\ inst'.phase = "Terminating" /\ inst'.killIn = StopGrace
      /\ inst'.restarts = inst.restarts
      /\ seen'.since = 0 /\ seen'.streak = seen.streak
    BY DEF Instance, Seen
<1>2. TypeOK' BY <1>1 DEF TypeOK
<1>3. PhaseOfChild' BY <1>1 DEF PhaseOfChild
<1>4. BackoffMeans' BY <1>1 DEF BackoffMeans
<1>5. GraceMeans' BY <1>1 DEF GraceMeans, Left
<1>6. ProbesMean' BY <1>1 DEF ProbesMean
<1>7. QED BY <1>2, <1>3, <1>4, <1>5, <1>6

\* A fresh instance for an observer who saw nothing.
LEMMA PendingHolds ==
    ASSUME IInv, inst' = Pending, seen' = Unseen, child' = "none", sig' = "none",
           paths' = paths, checkOk' = checkOk, due' = due, wait' = wait,
           pc' \in {"stop", "spawn"}
    PROVE  IInv'
<1> USE DEF IInv
<1>1. inst' \in Instance /\ seen' \in Seen BY DEF Pending, Unseen, Instance, Seen
<1>2. ~inst'.handle /\ inst'.phase = "Pending" BY DEF Pending
<1>3. TypeOK' BY <1>1, <1>2 DEF TypeOK
<1>4. PhaseOfChild' BY <1>2 DEF PhaseOfChild
<1>5. BackoffMeans' BY DEF BackoffMeans, Left, Delay, Pending, Unseen
<1>6. GraceMeans' /\ ProbesMean' BY <1>2 DEF GraceMeans, ProbesMean
<1>7. QED BY <1>3, <1>4, <1>5, <1>6

\* What an instance is after a failure that is backed off from.
LEMMA BackingOff ==
    ASSUME inst \in Instance, NEW n \in Nat, NEW d \in Nat,
           inst' = [inst EXCEPT !.handle = FALSE, !.uptime = 0, !.everReady = FALSE,
                                !.restarts = n, !.backoff = d,
                                !.phase = "CrashLoopBackOff", !.respawn = FALSE]
    PROVE  /\ inst' \in Instance /\ ~inst'.handle /\ inst'.restarts = n
           /\ inst'.phase = "CrashLoopBackOff" /\ inst'.backoff = d
BY DEF Instance

LEMMA SpawnFails ==
    ASSUME inst \in Instance, ~inst.handle, NEW n \in Nat, NEW d \in Nat,
           inst' = [inst EXCEPT !.restarts = n, !.backoff = d,
                                !.phase = "CrashLoopBackOff"]
    PROVE  /\ inst' \in Instance /\ ~inst'.handle /\ inst'.restarts = n
           /\ inst'.phase = "CrashLoopBackOff" /\ inst'.backoff = d
BY DEF Instance

LEMMA ReapHolds == IInv /\ Reap => IInv'
<1> SUFFICES ASSUME IInv, Reap PROVE IInv'
    OBVIOUS
<1>1. /\ pc = "reap" /\ pc' = "stop" /\ paths' = paths /\ checkOk' = checkOk
      /\ wait' = wait /\ due' = due
    BY DEF Reap, Goto
<1>2. inst \in Instance /\ seen \in Seen /\ wait \in Nat
    BY DEF IInv, TypeOK
<1>3. CASE child = "exited" /\ (inst.phase # "Terminating" \/ inst.respawn)
    <2> DEFINE failures == IF inst.uptime >= StableAfter THEN 0 ELSE inst.restarts
               n == Counted(failures)
    <2>1. /\ inst' = BackedOff /\ child' = "none" /\ sig' = "none"
          /\ seen' = [Unseen EXCEPT !.streak = Counted(
                IF inst.uptime >= StableAfter THEN 0 ELSE seen.streak)]
        BY <1>3 DEF Reap, Overstays, Alive
    <2>2. failures \in Nat /\ n \in Nat
        BY <1>2, CountedNat, Constants DEF Instance
    <2>3. inst.restarts = seen.streak BY DEF IInv, BackoffMeans
    <2>4. seen' = [since |-> 0, streak |-> n, answered |-> FALSE, missed |-> 0]
        BY <2>1, <2>3 DEF Unseen
    <2> DEFINE d == Delay(n)
    <2>5. /\ inst' \in Instance /\ ~inst'.handle /\ inst'.restarts = n
          /\ inst'.phase = "CrashLoopBackOff" /\ inst'.backoff = d
        <3>1. d \in Nat BY DelayCapped
        <3>2. inst' = [inst EXCEPT !.handle = FALSE, !.uptime = 0, !.everReady = FALSE,
                                   !.restarts = n, !.backoff = d,
                                   !.phase = "CrashLoopBackOff", !.respawn = FALSE]
            BY <2>1 DEF BackedOff, Failures
        <3> HIDE DEF d
        <3>3. n \in Nat BY <2>2
        <3> HIDE DEF n
        <3>4. QED BY <1>2, <3>1, <3>2, <3>3, BackingOff
    <2> HIDE DEF n, failures
    <2>6. TypeOK'
        <3>1. seen' \in Seen BY <2>2, <2>4 DEF Seen
        <3>2. QED BY <1>1, <2>1, <2>5, <3>1 DEF IInv, TypeOK
    <2>7. PhaseOfChild' BY <1>1, <2>1, <2>5 DEF PhaseOfChild
    <2>8. BackoffMeans'
        BY <2>4, <2>5, DelayCapped DEF BackoffMeans, Left
    <2>9. GraceMeans' /\ ProbesMean' BY <2>1, <2>5 DEF GraceMeans, ProbesMean
    <2>10. QED BY <2>6, <2>7, <2>8, <2>9 DEF IInv
<1>4. CASE child = "exited" /\ inst.phase = "Terminating" /\ ~inst.respawn
    <2>1. inst' = Pending /\ child' = "none" /\ sig' = "none" /\ seen' = Unseen
        BY <1>4 DEF Reap, Overstays, Alive
    <2>2. QED BY <1>1, <2>1, PendingHolds
<1>5. CASE Overstays
    <2>1. /\ inst' = [inst EXCEPT !.killIn = KillAgain] /\ sig' = "kill"
          /\ child' = child /\ seen' = seen
        BY <1>5 DEF Reap, Overstays, Alive
    <2>2. /\ inst' \in Instance /\ inst'.handle = inst.handle
          /\ inst'.phase = inst.phase /\ inst'.restarts = inst.restarts
          /\ inst'.backoff = inst.backoff
        BY <1>2, <2>1, Constants DEF Instance
    <2>3. inst.phase = "Terminating" BY <1>5 DEF Overstays
    <2>4. TypeOK' BY <1>1, <2>1, <2>2 DEF IInv, TypeOK
    <2>5. PhaseOfChild' BY <1>1, <2>1, <2>2, <2>3 DEF IInv, PhaseOfChild
    <2>6. BackoffMeans' BY <2>1, <2>2 DEF IInv, BackoffMeans, Left
    <2>7. GraceMeans' /\ ProbesMean' BY <2>1 DEF GraceMeans, ProbesMean
    <2>8. QED BY <2>4, <2>5, <2>6, <2>7 DEF IInv
<1>6. CASE child # "exited" /\ ~Overstays
    <2>1. UNCHANGED <<inst, child, sig, seen>> BY <1>6 DEF Reap
    <2>2. TypeOK' BY <1>1, <2>1 DEF IInv, TypeOK
    <2>3. PhaseOfChild' BY <1>1, <2>1 DEF IInv, PhaseOfChild
    <2>4. BackoffMeans' BY <2>1 DEF IInv, BackoffMeans, Left
    <2>5. GraceMeans' BY <2>1 DEF IInv, GraceMeans, Left
    <2>6. ProbesMean' BY <1>1, <2>1 DEF IInv, ProbesMean, Left, NeverReady
    <2>7. QED BY <2>2, <2>3, <2>4, <2>5, <2>6 DEF IInv
<1>7. QED BY <1>3, <1>4, <1>5, <1>6 DEF Reap

LEMMA StopOrRollHolds == IInv /\ StopOrRoll => IInv'
<1> SUFFICES ASSUME IInv, StopOrRoll PROVE IInv'
    OBVIOUS
<1>1. /\ pc' = "spawn" /\ child' = child /\ paths' = paths /\ checkOk' = checkOk
      /\ wait' = wait /\ due' = due
    BY DEF StopOrRoll, Goto
<1>2. /\ inst \in Instance /\ seen \in Seen /\ wait \in Nat /\ due \subseteq paths
      /\ inst.handle <=> child # "none"
    BY DEF IInv, TypeOK
<1>3. sig # "none" <=> inst.phase = "Terminating" BY DEF IInv, PhaseOfChild
<1>4. ASSUME inst.handle, inst.phase # "Terminating", NEW respawn \in BOOLEAN,
             BeginStop(inst, respawn, seen)
      PROVE  IInv'
    BY <1>1, <1>2, <1>3, <1>4, StopHolds
<1>5. CASE ~inst.handle /\ inst' = Pending /\ seen' = Unseen /\ UNCHANGED sig
    <2>1. sig = "none" BY <1>3, <1>5 DEF IInv, PhaseOfChild
    <2>2. child' = "none" BY <1>1, <1>2, <1>5
    <2>3. QED BY <1>1, <1>5, <2>1, <2>2, PendingHolds
<1>6. CASE UNCHANGED <<inst, sig, seen>>
    <2>1. TypeOK' BY <1>1, <1>6 DEF IInv, TypeOK
    <2>2. PhaseOfChild' BY <1>1, <1>6 DEF IInv, PhaseOfChild
    <2>3. BackoffMeans' BY <1>6 DEF IInv, BackoffMeans, Left
    <2>4. GraceMeans' BY <1>6 DEF IInv, GraceMeans, Left
    <2>5. ProbesMean' BY <1>1, <1>6 DEF IInv, ProbesMean, Left, NeverReady
    <2>6. QED BY <2>1, <2>2, <2>3, <2>4, <2>5 DEF IInv
<1>7. QED BY <1>4, <1>5, <1>6 DEF StopOrRoll

LEMMA SpawnHolds == IInv /\ SpawnMissing => IInv'
<1> SUFFICES ASSUME IInv, SpawnMissing PROVE IInv'
    OBVIOUS
<1>1. /\ pc' = "probe" /\ sig' = sig /\ paths' = paths /\ checkOk' = checkOk
      /\ wait' = wait /\ due' = due
    BY DEF SpawnMissing, Goto
<1>2. /\ inst \in Instance /\ seen \in Seen /\ wait \in Nat /\ due \subseteq paths
      /\ paths \subseteq {"ready", "live"}
      /\ inst.handle <=> child # "none"
      /\ inst.restarts = seen.streak
    BY DEF IInv, TypeOK, BackoffMeans
<1>3. CASE /\ Startable /\ inst' = Launched /\ child' = "boot"
           /\ seen' = [Unseen EXCEPT !.streak = seen.streak]
    <2>1. sig = "none" /\ ~inst.handle
        BY <1>3 DEF Startable, IInv, PhaseOfChild
    <2> DEFINE bare == "ready" \notin paths
               phase == IF "ready" \in paths THEN "Starting" ELSE "Ready"
    <2>2. /\ inst' \in Instance /\ inst'.handle /\ inst'.restarts = inst.restarts
          /\ inst'.phase = phase /\ inst'.everReady = bare
          /\ inst'.readyIn = ReadyTimeout /\ inst'.liveFails = 0
        <3>1. bare \in BOOLEAN /\ phase \in {"Starting", "Ready"} OBVIOUS
        <3>2. inst' = [inst EXCEPT !.handle = TRUE, !.uptime = 0, !.phase = phase,
                                   !.readyIn = ReadyTimeout, !.liveFails = 0,
                                   !.everReady = bare, !.nextReady = 0,
                                   !.nextLive = LivePeriod]
            BY <1>3 DEF Launched
        <3> HIDE DEF bare, phase
        <3>3. QED BY <1>2, <3>1, <3>2, Constants DEF Instance
    <2>3. seen' = [since |-> 0, streak |-> seen.streak, answered |-> FALSE, missed |-> 0]
        BY <1>3 DEF Unseen
    <2>4. TypeOK'
        <3>1. seen' \in Seen BY <1>2, <2>3 DEF Seen
        <3>2. QED BY <1>1, <1>2, <1>3, <2>2, <3>1 DEF IInv, TypeOK
    <2>5. PhaseOfChild'
        <3>1. inst'.phase \in {"Starting", "Ready"} BY <2>2
        <3>2. QED BY <1>1, <2>1, <2>2, <3>1 DEF PhaseOfChild
    <2>6. BackoffMeans'
        <3>1. inst'.handle /\ inst'.restarts = inst.restarts BY <2>2
        <3>2. inst'.restarts = seen'.streak BY <1>2, <2>3, <3>1
        <3>3. QED BY <3>1, <3>2 DEF BackoffMeans
    <2>7. GraceMeans' BY <1>1, <2>1 DEF GraceMeans
    <2>8. ProbesMean'
        <3>1. NeverReady' <=> "ready" \in paths
            BY <1>1, <2>3 DEF NeverReady
        <3>2. inst'.readyIn = Left(ReadyTimeout)'
            BY <2>2, <2>3, Constants DEF Left
        <3>3. inst'.liveFails = seen'.missed BY <2>2, <2>3
        <3>4. /\ inst'.everReady <=> ~NeverReady'
              /\ inst'.phase = "Starting" <=> NeverReady'
            BY <2>2, <3>1
        <3>5. QED BY <3>2, <3>3, <3>4 DEF ProbesMean
    <2>9. QED BY <2>4, <2>5, <2>6, <2>7, <2>8 DEF IInv
<1>4. CASE /\ Startable /\ inst' = SpawnFailed /\ child' = child
           /\ seen' = [Unseen EXCEPT !.streak = Counted(seen.streak)]
    <2> DEFINE n == Counted(inst.restarts)
    <2>1. sig = "none" /\ ~inst.handle
        BY <1>4 DEF Startable, IInv, PhaseOfChild
    <2>2. n \in Nat BY <1>2, CountedNat DEF Instance
    <2> DEFINE d == Delay(n)
    <2>3. /\ inst' \in Instance /\ ~inst'.handle /\ inst'.restarts = n
          /\ inst'.phase = "CrashLoopBackOff" /\ inst'.backoff = d
        <3>1. d \in Nat BY DelayCapped
        <3>2. inst' = [inst EXCEPT !.restarts = n, !.backoff = d,
                                   !.phase = "CrashLoopBackOff"]
            BY <1>4 DEF SpawnFailed
        <3> HIDE DEF d, n
        <3>3. QED BY <1>2, <2>1, <2>2, <3>1, <3>2, SpawnFails
    <2>4. seen' = [since |-> 0, streak |-> n, answered |-> FALSE, missed |-> 0]
        <3>1. Counted(seen.streak) = n BY <1>2
        <3> HIDE DEF n
        <3>2. QED BY <1>4, <3>1 DEF Unseen
    <2> HIDE DEF n
    <2>5. TypeOK'
        <3>1. seen' \in Seen BY <2>2, <2>4 DEF Seen
        <3>2. QED BY <1>1, <1>2, <1>4, <2>1, <2>3, <3>1 DEF IInv, TypeOK
    <2>6. PhaseOfChild' BY <1>1, <2>1, <2>3 DEF PhaseOfChild
    <2>7. BackoffMeans' BY <2>3, <2>4, DelayCapped DEF BackoffMeans, Left
    <2>8. GraceMeans' /\ ProbesMean' BY <1>1, <2>1, <2>3 DEF GraceMeans, ProbesMean
    <2>9. QED BY <2>5, <2>6, <2>7, <2>8 DEF IInv
<1>5. CASE ~Startable /\ UNCHANGED <<inst, child, seen>>
    <2>1. TypeOK' BY <1>1, <1>5 DEF IInv, TypeOK
    <2>2. PhaseOfChild' BY <1>1, <1>5 DEF IInv, PhaseOfChild
    <2>3. BackoffMeans' BY <1>5 DEF IInv, BackoffMeans, Left
    <2>4. GraceMeans' BY <1>1, <1>5 DEF IInv, GraceMeans, Left
    <2>5. ProbesMean' BY <1>1, <1>5 DEF IInv, ProbesMean, Left, NeverReady
    <2>6. QED BY <2>1, <2>2, <2>3, <2>4, <2>5 DEF IInv
<1>6. QED BY <1>3, <1>4, <1>5 DEF SpawnMissing

LEMMA ProbeHolds == IInv /\ Probe => IInv'
<1> SUFFICES ASSUME IInv, Probe PROVE IInv'
    OBVIOUS
<1>1. UNCHANGED <<inst, child, sig, paths, checkOk, seen>> BY DEF Probe
<1>2. /\ pc' \in {"ready", "sleep"} /\ due' \subseteq paths
      /\ pc' = "ready" => inst.handle /\ inst.phase # "Terminating"
    BY DEF Probe
<1>3. wait' \in Nat BY Constants DEF Probe, Await, Requested
<1>4. TypeOK' BY <1>1, <1>2, <1>3 DEF IInv, TypeOK
<1>5. PhaseOfChild' BY <1>1, <1>2 DEF IInv, PhaseOfChild
<1>6. BackoffMeans' BY <1>1 DEF IInv, BackoffMeans, Left
<1>7. GraceMeans' BY <1>1 DEF IInv, GraceMeans, Left
<1>8. ProbesMean' BY <1>1 DEF IInv, ProbesMean, Left, NeverReady
<1>9. QED BY <1>4, <1>5, <1>6, <1>7, <1>8 DEF IInv

\* A probe is answered, or fails, and the instance goes on running.
LEMMA AnswerHolds ==
    ASSUME IInv, inst.handle, sig = "none", inst' \in Instance, seen' \in Seen,
           inst'.handle, inst'.phase \in {"Starting", "Ready", "Unready"},
           inst'.restarts = inst.restarts, inst'.readyIn = inst.readyIn,
           inst'.liveFails = seen'.missed, inst'.everReady <=> ~NeverReady',
           inst'.phase = "Starting" <=> NeverReady',
           seen'.since = seen.since, seen'.streak = seen.streak,
           UNCHANGED <<sig, child, paths, checkOk>>,
           pc' \in {"live", "sleep"}, wait' \in Nat, due' \subseteq paths
    PROVE  IInv'
<1> USE DEF IInv
<1>1. TypeOK' BY DEF TypeOK
<1>2. PhaseOfChild' BY DEF PhaseOfChild
<1>3. BackoffMeans' BY DEF BackoffMeans
<1>4. GraceMeans' BY DEF GraceMeans
<1>5. ProbesMean' BY DEF ProbesMean, Left
<1>6. QED BY <1>1, <1>2, <1>3, <1>4, <1>5

LEMMA ProbeReadyHolds == IInv /\ ProbeReady => IInv'
<1> SUFFICES ASSUME IInv, ProbeReady PROVE IInv'
    OBVIOUS
<1>1. /\ inst \in Instance /\ seen \in Seen /\ due \subseteq paths
      /\ paths \subseteq {"ready", "live"}
    BY DEF IInv, TypeOK
<1>2. inst.handle /\ sig = "none" /\ inst.phase \in {"Starting", "Ready", "Unready"}
    BY DEF IInv, PhaseOfChild, ProbeReady
<1>3. /\ inst.readyIn = Left(ReadyTimeout)
      /\ inst.liveFails = seen.missed
      /\ inst.everReady <=> ~NeverReady
      /\ inst.phase = "Starting" <=> NeverReady
    BY <1>2 DEF IInv, ProbesMean
<1>4. UNCHANGED <<child, paths, checkOk>> BY DEF ProbeReady
<1>5. ToLive => pc' = "live" /\ wait' \in Nat /\ due' \subseteq paths
    BY <1>1, Constants DEF ToLive, Await
<1>6. ToSleep => pc' = "sleep" /\ wait' \in Nat /\ due' \subseteq paths
    BY Constants DEF ToSleep
<1>7. CASE UNCHANGED <<inst, sig, seen>> /\ ToLive
    <2>1. NeverReady' <=> NeverReady BY <1>4, <1>7 DEF NeverReady
    <2>2. QED BY <1>1, <1>2, <1>3, <1>4, <1>5, <1>7, <2>1, AnswerHolds
<1>8. ASSUME "ready" \in due, NEW ok \in Answers, NEW r \in Instance,
             r = [inst EXCEPT !.nextReady = ReadyPeriod],
             IF ~ok /\ Overdue
             THEN BeginStop(r, TRUE, seen) /\ ToSleep
             ELSE /\ inst' = Asked(r, ok)
                  /\ seen' = [seen EXCEPT !.answered = @ \/ ok]
                  /\ UNCHANGED sig /\ ToLive
      PROVE  IInv'
    <2>1. /\ r.handle = inst.handle /\ r.restarts = inst.restarts
          /\ r.phase = inst.phase /\ r.readyIn = inst.readyIn
          /\ r.liveFails = inst.liveFails /\ r.everReady = inst.everReady
        BY <1>1, <1>8 DEF Instance
    <2>2. ok \in BOOLEAN BY <1>8 DEF Answers
    <2>3. CASE ~ok /\ Overdue
        <3>1. BeginStop(r, TRUE, seen) /\ ToSleep BY <1>8, <2>3
        <3>2. QED BY <1>1, <1>2, <1>4, <1>6, <2>1, <3>1, StopHolds
    <2>4. CASE ~(~ok /\ Overdue)
        <3>1. /\ inst' = Asked(r, ok) /\ UNCHANGED sig /\ ToLive
              /\ seen' = [seen EXCEPT !.answered = @ \/ ok]
            BY <1>8, <2>4
        <3>2. /\ inst' \in Instance /\ inst'.handle /\ inst'.restarts = inst.restarts
              /\ inst'.readyIn = inst.readyIn /\ inst'.liveFails = inst.liveFails
            BY <1>2, <2>1, <3>1 DEF Asked, Instance
        <3>3. /\ inst'.everReady <=> (inst.everReady \/ ok)
              /\ ok => inst'.phase = "Ready"
              /\ ~ok => inst'.phase = (IF inst.phase = "Ready" THEN "Unready"
                                                               ELSE inst.phase)
            BY <2>1, <2>2, <3>1 DEF Asked, Instance
        <3>4. /\ seen' \in Seen /\ seen'.since = seen.since
              /\ seen'.streak = seen.streak /\ seen'.missed = seen.missed
              /\ seen'.answered <=> (seen.answered \/ ok)
            BY <1>1, <2>2, <3>1 DEF Seen
        <3>5. NeverReady' <=> (NeverReady /\ ~ok) BY <1>1, <1>4, <1>8, <3>4 DEF NeverReady
        <3>6. inst'.phase \in {"Starting", "Ready", "Unready"} BY <1>2, <2>2, <3>3
        <3>7. inst'.everReady <=> ~NeverReady' BY <1>3, <3>3, <3>5
        <3>8. inst'.phase = "Starting" <=> NeverReady' BY <1>3, <2>2, <3>3, <3>5
        <3>9. QED
            BY <1>1, <1>2, <1>3, <1>4, <1>5, <3>1, <3>2, <3>4, <3>6, <3>7, <3>8,
               AnswerHolds
    <2>5. QED BY <2>3, <2>4
<1>9. [inst EXCEPT !.nextReady = ReadyPeriod] \in Instance
    BY <1>1, Constants DEF Instance
<1>10. QED BY <1>7, <1>8, <1>9 DEF ProbeReady

LEMMA ProbeLiveHolds == IInv /\ ProbeLive => IInv'
<1> SUFFICES ASSUME IInv, ProbeLive PROVE IInv'
    OBVIOUS
<1>1. inst \in Instance /\ seen \in Seen BY DEF IInv, TypeOK
<1>2. inst.handle /\ sig = "none" /\ inst.phase \in {"Starting", "Ready", "Unready"}
    BY DEF IInv, PhaseOfChild, ProbeLive
<1>3. /\ inst.readyIn = Left(ReadyTimeout)
      /\ inst.liveFails = seen.missed
      /\ inst.everReady <=> ~NeverReady
      /\ inst.phase = "Starting" <=> NeverReady
    BY <1>2 DEF IInv, ProbesMean
<1>4. UNCHANGED <<child, paths, checkOk>> BY DEF ProbeLive
<1>5. pc' = "sleep" /\ wait' \in Nat /\ due' \subseteq paths
    BY Constants DEF ProbeLive, ToSleep
<1>6. CASE UNCHANGED <<inst, sig, seen>>
    <2>1. NeverReady' <=> NeverReady BY <1>4, <1>6 DEF NeverReady
    <2>2. QED BY <1>1, <1>2, <1>3, <1>4, <1>5, <1>6, <2>1, AnswerHolds
<1>7. ASSUME NEW ok \in Answers, NEW r, NEW h,
             r = [inst EXCEPT !.nextLive = LivePeriod,
                              !.liveFails = IF ok THEN 0 ELSE @ + 1],
             h = [seen EXCEPT !.missed = IF ok THEN 0 ELSE @ + 1],
             IF r.liveFails >= LiveFailures THEN BeginStop(r, TRUE, h)
             ELSE inst' = r /\ seen' = h /\ UNCHANGED sig
      PROVE  IInv'
    <2>1. /\ r \in Instance /\ r.handle = inst.handle /\ r.restarts = inst.restarts
          /\ r.phase = inst.phase /\ r.readyIn = inst.readyIn
          /\ r.everReady = inst.everReady
          /\ r.liveFails = IF ok THEN 0 ELSE inst.liveFails + 1
        <3> DEFINE fails == IF ok THEN 0 ELSE inst.liveFails + 1
        <3>1. fails \in Nat BY <1>1 DEF Instance
        <3>2. r = [inst EXCEPT !.nextLive = LivePeriod, !.liveFails = fails]
            BY <1>7
        <3> HIDE DEF fails
        <3>3. /\ r \in Instance /\ r.handle = inst.handle /\ r.restarts = inst.restarts
              /\ r.phase = inst.phase /\ r.readyIn = inst.readyIn
              /\ r.everReady = inst.everReady /\ r.liveFails = fails
            BY <1>1, <3>1, <3>2, Constants DEF Instance
        <3>4. QED BY <3>3 DEF fails
    <2>2. /\ h \in Seen /\ h.since = seen.since /\ h.streak = seen.streak
          /\ h.answered = seen.answered /\ h.missed = IF ok THEN 0 ELSE seen.missed + 1
        BY <1>1, <1>7 DEF Seen
    <2>3. CASE r.liveFails >= LiveFailures
        <3>1. BeginStop(r, TRUE, h) BY <1>7, <2>3
        <3>2. QED BY <1>1, <1>2, <1>4, <1>5, <2>1, <2>2, <3>1, StopHolds
    <2>4. CASE ~(r.liveFails >= LiveFailures)
        <3>1. inst' = r /\ seen' = h /\ UNCHANGED sig BY <1>7, <2>4
        <3>2. NeverReady' <=> NeverReady BY <1>4, <2>2, <3>1 DEF NeverReady
        <3>3. inst'.liveFails = seen'.missed BY <1>3, <2>1, <2>2, <3>1
        <3>4. QED
            BY <1>1, <1>2, <1>3, <1>4, <1>5, <2>1, <2>2, <3>1, <3>2, <3>3, AnswerHolds
    <2>5. QED BY <2>3, <2>4
<1>8. QED BY <1>6, <1>7 DEF ProbeLive

LEMMA ChildHolds == IInv /\ (Boot \/ Hang \/ Exit \/ Killed) => IInv'
<1> SUFFICES ASSUME IInv, Boot \/ Hang \/ Exit \/ Killed PROVE IInv'
    OBVIOUS
<1>1. /\ UNCHANGED <<inst, sig, paths, checkOk, loop, seen>>
      /\ child # "none" /\ child' \in {"up", "hung", "exited"}
    BY DEF Boot, Hang, Exit, Killed, Alive, ChildIs
<1>2. TypeOK' BY <1>1 DEF IInv, TypeOK, loop
<1>3. PhaseOfChild' BY <1>1 DEF IInv, PhaseOfChild, loop
<1>4. BackoffMeans' BY <1>1 DEF IInv, BackoffMeans, Left
<1>5. GraceMeans' BY <1>1 DEF IInv, GraceMeans, Left
<1>6. ProbesMean' BY <1>1 DEF IInv, ProbesMean, Left, NeverReady
<1>7. QED BY <1>2, <1>3, <1>4, <1>5, <1>6 DEF IInv

LEMMA StutterHolds == IInv /\ UNCHANGED vars => IInv'
BY DEF IInv, vars, loop, TypeOK, PhaseOfChild, BackoffMeans, GraceMeans, ProbesMean,
       Left, NeverReady

LEMMA StepHolds == IInv /\ [Next]_vars => IInv'
BY ReverifyHolds, ReapHolds, StopOrRollHolds, SpawnHolds, ProbeHolds, ProbeReadyHolds,
   ProbeLiveHolds, PassHolds, ChildHolds, StutterHolds DEF Next, Loop

\* The instance, its child and the observer keep their shape for all lengths
\* of the timers, and a handle is held exactly while there is a child.
THEOREM TimerTypes == Spec => []TypeOK
<1>1. IInv => TypeOK BY DEF IInv
<1>2. QED BY <1>1, InitHolds, StepHolds, PTL DEF Spec

-----------------------------------------------------------------------------
\* The actions' properties follow from what the deadlines mean.

\* For all delays, counters and lengths of a tick, a launch is tried exactly
\* when the delay of the failures in a row is over and the check passes.
THEOREM LaunchesWait == Spec => BackoffIsExact
<1>1. ASSUME IInv, pc = "spawn", pc' = "probe", child = "none", [Next]_vars
      PROVE  /\ inst' # inst => Waited
             /\ Waited => \/ child' = "boot"
                          \/ inst'.phase = "CrashLoopBackOff" /\ seen'.since = 0
    <2>1. SpawnMissing
        BY <1>1 DEF Next, Loop, ReverifyChecks, Reap, StopOrRoll, Probe, ProbeReady,
           ProbeLive, Pass, Boot, Hang, Exit, Killed, ChildIs, loop, vars, Goto, ToLive,
           ToSleep
    <2>2. /\ ~inst.handle /\ inst \in Instance /\ seen.since \in Nat
          /\ inst.phase # "Terminating"
        BY <1>1 DEF IInv, TypeOK, PhaseOfChild, Seen
    <2>3. inst.backoff = Left(Delay(seen.streak)) BY <1>1, <2>2 DEF IInv, BackoffMeans
    <2>4. Startable <=> Waited
        <3>1. inst.backoff = 0 <=> seen.since >= Delay(seen.streak)
            BY <2>2, <2>3, DelayCapped DEF Left
        <3>2. QED BY <2>2, <3>1 DEF Startable, Waited
    <2>5. CASE ~Startable
        <3>1. inst' = inst BY <2>1, <2>5 DEF SpawnMissing
        <3>2. QED BY <2>4, <2>5, <3>1
    <2>6. CASE Startable
        <3>1. CASE child' = "boot" BY <2>4, <2>6, <3>1
        <3>2. CASE inst' = SpawnFailed /\ seen' = [Unseen EXCEPT !.streak = Counted(seen.streak)]
            <4>1. inst'.phase = "CrashLoopBackOff"
                BY <2>2, <3>2 DEF SpawnFailed, Instance
            <4>2. seen'.since = 0 BY <3>2 DEF Unseen
            <4>3. QED BY <2>4, <2>6, <4>1, <4>2
        <3>3. QED BY <2>1, <2>6, <3>1, <3>2 DEF SpawnMissing
    <2>7. QED BY <2>5, <2>6
<1>2. IInv /\ [Next]_vars =>
        [pc = "spawn" /\ pc' = "probe" /\ child = "none" =>
            /\ inst' # inst => Waited
            /\ Waited => \/ child' = "boot"
                         \/ inst'.phase = "CrashLoopBackOff" /\ seen'.since = 0]_vars
    BY <1>1
<1>3. QED BY <1>2, InitHolds, StepHolds, PTL DEF Spec, BackoffIsExact

\* No child gets a SIGKILL before the grace since its own SIGTERM is over.
THEOREM GraceGiven == Spec => GraceIsGiven
<1>1. ASSUME IInv, [Next]_vars, sig = "term", sig' = "kill"
      PROVE  seen.since >= StopGrace
    <2>1. Overstays
        BY <1>1 DEF Next, Loop, ReverifyChecks, Reap, StopOrRoll, SpawnMissing, Probe,
           ProbeReady, ProbeLive, Pass, Boot, Hang, Exit, Killed, ChildIs, vars, BeginStop
    <2>2. inst.killIn = Left(StopGrace) BY <1>1 DEF IInv, GraceMeans
    <2>3. seen.since \in Nat BY <1>1 DEF IInv, TypeOK, Seen
    <2>4. QED BY <2>1, <2>2, <2>3, Constants DEF Overstays, Left
<1>2. IInv /\ [Next]_vars => [sig = "term" /\ sig' = "kill" => seen.since >= StopGrace]_vars
    BY <1>1
<1>3. QED BY <1>2, InitHolds, StepHolds, PTL DEF Spec, GraceIsGiven

\* No probe stops a child that has not earned it: not ready in time, or
\* live_failures misses in a row, all its own.
THEOREM StopsEarned == Spec => StopsAreEarned
<1> DEFINE Earned == IF NeverReady THEN seen.since >= ReadyTimeout
                                   ELSE seen'.missed >= LiveFailures
<1>1. ASSUME IInv, [Next]_vars, sig = "none", pc \in {"ready", "live"}, sig' = "term"
      PROVE  Earned
    <2>1. ProbeReady \/ ProbeLive
        BY <1>1 DEF Next, Loop, ReverifyChecks, Reap, StopOrRoll, SpawnMissing, Probe,
           Pass, Boot, Hang, Exit, Killed, ChildIs, vars, Goto
    <2>2. /\ inst.handle /\ inst \in Instance /\ seen \in Seen
          /\ inst.readyIn = Left(ReadyTimeout)
          /\ inst.liveFails = seen.missed
          /\ inst.everReady <=> ~NeverReady
          /\ inst.phase = "Starting" <=> NeverReady
        BY <1>1 DEF IInv, TypeOK, PhaseOfChild, ProbesMean
    <2>3. CASE ProbeReady
        <3>1. Overdue BY <1>1, <2>3 DEF ProbeReady
        <3>2. NeverReady BY <2>2, <3>1 DEF Overdue
        <3>3. seen.since >= ReadyTimeout
            BY <2>2, <3>1, Constants DEF Overdue, Left, Seen
        <3>4. QED BY <3>2, <3>3
    <2>4. CASE ProbeLive
        <3>1. inst.everReady BY <1>1, <2>4 DEF ProbeLive, LiveCounts
        <3>2. PICK ok \in Answers :
                LET r == [inst EXCEPT !.nextLive = LivePeriod,
                                      !.liveFails = IF ok THEN 0 ELSE @ + 1]
                    h == [seen EXCEPT !.missed = IF ok THEN 0 ELSE @ + 1]
                IN  IF r.liveFails >= LiveFailures
                    THEN BeginStop(r, TRUE, h)
                    ELSE inst' = r /\ seen' = h /\ UNCHANGED sig
            BY <1>1, <2>4 DEF ProbeLive
        <3> DEFINE r == [inst EXCEPT !.nextLive = LivePeriod,
                                     !.liveFails = IF ok THEN 0 ELSE @ + 1]
                   h == [seen EXCEPT !.missed = IF ok THEN 0 ELSE @ + 1]
        <3>3. r.liveFails = (IF ok THEN 0 ELSE inst.liveFails + 1) BY <2>2 DEF Instance
        <3>4. h.missed = (IF ok THEN 0 ELSE seen.missed + 1) BY <2>2 DEF Seen
        <3>5. r.liveFails >= LiveFailures BY <1>1, <3>2
        <3>6. seen' = [h EXCEPT !.since = 0] BY <3>2, <3>5 DEF BeginStop
        <3>7. seen'.missed = h.missed BY <2>2, <3>6 DEF Seen
        <3>8. QED BY <2>2, <3>1, <3>3, <3>4, <3>5, <3>7
    <2>5. QED BY <2>1, <2>3, <2>4
<1>2. IInv /\ [Next]_vars =>
        [sig = "none" /\ pc \in {"ready", "live"} /\ sig' = "term" => Earned]_vars
    BY <1>1
<1>3. QED BY <1>2, InitHolds, StepHolds, PTL DEF Spec, StopsAreEarned

-----------------------------------------------------------------------------
(***************************************************************************)
(* How late a signal comes: what the observer's clock shows, plus what the *)
(* rest of the tick can take, stays below the bound.                       *)
(***************************************************************************)

\* The types the bounds need.
LEMMA Numbers == IInv => /\ wait \in Nat /\ seen.since \in Nat
                         /\ inst.nextReady \in Nat /\ inst.handle \in BOOLEAN
BY DEF IInv, TypeOK, Instance, Seen

LEMMA LaterGrows == \A n \in Nat : Later(n) \in Nat /\ Later(n) <= n + 1
BY Constants DEF Later

LEMMA GraceLapHolds == IInv /\ GraceLap /\ [Next]_vars => GraceLap'
<1> SUFFICES ASSUME IInv, GraceLap, [Next]_vars PROVE GraceLap'
    OBVIOUS
<1>1. wait \in Nat /\ seen.since \in Nat BY Numbers
<1> USE Constants DEF GraceLap, Lap
<1>2. CASE ReverifyChecks BY <1>1, <1>2 DEF ReverifyChecks, Goto, Await
<1>3. CASE Reap
    <2>1. pc = "reap" /\ wait = 0 /\ wait' = wait /\ pc' = "stop"
        BY <1>3 DEF Reap, Goto
    <2>2. CASE sig' = "term"
        <3>1. sig = "term" /\ seen' = seen /\ ~Overstays /\ child # "exited"
            BY <1>3, <2>2 DEF Reap
        <3>2. /\ inst.phase = "Terminating" /\ inst.handle
              /\ inst.killIn = Left(StopGrace)
            BY <3>1 DEF IInv, PhaseOfChild, GraceMeans
        <3>3. Alive BY <3>1, <3>2 DEF Alive, IInv, TypeOK
        <3>4. inst.killIn # 0 BY <3>1, <3>2, <3>3 DEF Overstays
        <3>5. seen.since < StopGrace BY <1>1, <3>2, <3>4 DEF Left
        <3>6. QED BY <2>1, <3>1, <3>5
    <2>3. QED BY <2>2
<1>4. CASE StopOrRoll
    <2>1. pc = "stop" /\ wait = 0 /\ wait' = wait /\ pc' = "spawn"
        BY <1>4 DEF StopOrRoll, Goto
    <2>2. CASE UNCHANGED <<inst, sig, seen>> BY <2>1, <2>2
    <2>3. CASE inst.handle /\ inst.phase # "Terminating" /\ seen'.since = 0
        BY <2>1, <2>3
    <2>4. CASE ~inst.handle /\ UNCHANGED sig
        <3>1. sig = "none" BY <2>4 DEF IInv, PhaseOfChild
        <3>2. QED BY <2>4, <3>1
    <2>5. ASSUME NEW respawn, BeginStop(inst, respawn, seen) PROVE seen'.since = 0
        BY <2>5 DEF BeginStop, IInv, TypeOK, Seen
    <2>6. QED BY <1>4, <2>2, <2>3, <2>4, <2>5 DEF StopOrRoll
<1>5. CASE SpawnMissing
    <2>1. pc = "spawn" /\ wait' = wait /\ pc' = "probe" /\ sig' = sig
        BY <1>5 DEF SpawnMissing, Goto
    <2>2. Startable => sig = "none" BY DEF Startable, IInv, PhaseOfChild
    <2>3. sig = "term" => seen' = seen BY <1>5, <2>2 DEF SpawnMissing
    <2>4. QED BY <2>1, <2>3
<1>6. CASE Probe
    <2>1. sig = "term" => inst.phase = "Terminating" BY DEF IInv, PhaseOfChild
    <2>2. QED BY <1>1, <1>6, <2>1 DEF Probe
<1>7. CASE ProbeReady \/ ProbeLive
    <2>1. sig = "none" BY <1>7 DEF IInv, PhaseOfChild, ProbeReady, ProbeLive
    <2>2. sig' = "term" => seen'.since = 0 /\ ToSleep
        BY <1>7, <2>1 DEF ProbeReady, ProbeLive, BeginStop, IInv, TypeOK, Seen
    <2>3. QED BY <2>2 DEF ToSleep
<1>8. CASE Pass
    <2>1. wait > 0 /\ wait' = wait - 1 /\ pc' = pc /\ sig' = sig BY <1>8 DEF Pass
    <2>2. seen'.since = Later(seen.since) BY <1>8 DEF Pass, IInv, TypeOK, Seen
    <2>3. QED BY <1>1, <2>1, <2>2, LaterGrows
<1>9. CASE Boot \/ Hang \/ Exit \/ Killed \/ UNCHANGED vars
    BY <1>9 DEF Boot, Hang, Exit, Killed, ChildIs, loop, vars
<1>10. QED BY <1>2, <1>3, <1>4, <1>5, <1>6, <1>7, <1>8, <1>9 DEF Next, Loop

\* An app that ignores SIGTERM is killed in time, for all lengths of a tick.
THEOREM KillsInTime == Spec => []KilledInTime
<1>1. IInv /\ GraceLap => KilledInTime
    <2> SUFFICES ASSUME IInv, GraceLap, sig = "term" PROVE seen.since < StopGrace + Lap
        BY DEF KilledInTime
    <2>1. pc \in {"sleep", "reap", "stop", "spawn", "probe"}
        BY DEF IInv, TypeOK, PhaseOfChild
    <2>2. QED BY <2>1, Numbers, Constants DEF GraceLap, Lap
<1>2. QED BY <1>1, InitHolds, StepHolds, GraceLapHolds, PTL DEF Spec

LEMMA ReadyLapHolds == IInv /\ ReadyLap /\ [Next]_vars => ReadyLap'
<1> SUFFICES ASSUME IInv, ReadyLap, [Next]_vars PROVE ReadyLap'
    OBVIOUS
<1>1. /\ wait \in Nat /\ seen.since \in Nat /\ inst.nextReady \in Nat
      /\ inst \in Instance /\ seen \in Seen
    BY Numbers DEF IInv, TypeOK
<1>2. LastProbe \in Nat /\ ReadyTimeout <= LastProbe /\ Lap = Tick + 2 * Others
    BY Constants DEF LastProbe, Lap
<1>3. \/ sig = "none" /\ inst.handle /\ inst.phase # "Terminating"
      \/ sig # "none" /\ inst.handle /\ inst.phase = "Terminating"
      \/ sig = "none" /\ ~inst.handle
    BY DEF IInv, PhaseOfChild
<1> HIDE DEF LastProbe, Lap
<1>4. CASE ReverifyChecks
    BY <1>1, <1>2, <1>4, Constants DEF ReadyLap, NeverReady, ReverifyChecks, Goto, Await
<1>5. CASE Reap
    <2>1. pc = "reap" /\ wait = 0 /\ wait' = wait /\ pc' = "stop" /\ paths' = paths
        BY <1>5 DEF Reap, Goto
    <2>2. CASE child = "exited" /\ ~inst'.handle BY <2>2 DEF ReadyLap
    <2>3. CASE sig' = "kill" BY <2>3 DEF ReadyLap
    <2>4. CASE UNCHANGED <<inst, child, sig, seen>>
        BY <1>1, <2>1, <2>4 DEF ReadyLap, NeverReady
    <2>5. inst' = BackedOff => ~inst'.handle BY <1>1 DEF BackedOff, Instance
    <2>6. inst' = Pending => ~inst'.handle BY DEF Pending
    <2>7. QED BY <1>5, <2>2, <2>3, <2>4, <2>5, <2>6 DEF Reap
<1>6. CASE StopOrRoll
    <2>1. pc = "stop" /\ wait' = wait /\ pc' = "spawn" /\ paths' = paths
        BY <1>6 DEF StopOrRoll, Goto
    <2>2. CASE UNCHANGED <<inst, sig, seen>> BY <2>1, <2>2 DEF ReadyLap, NeverReady
    <2>3. CASE sig' = "term" BY <2>3 DEF ReadyLap
    <2>4. CASE inst' = Pending BY <2>4 DEF ReadyLap, Pending
    <2>5. QED BY <1>6, <2>2, <2>3, <2>4 DEF StopOrRoll, BeginStop
<1>7. CASE SpawnMissing
    <2>1. /\ pc = "spawn" /\ wait' = wait /\ pc' = "probe" /\ sig' = sig
          /\ paths' = paths
        BY <1>7 DEF SpawnMissing, Goto
    <2>2. CASE ~Startable /\ UNCHANGED <<inst, child, seen>>
        BY <2>1, <2>2 DEF ReadyLap, NeverReady
    <2>3. CASE inst' = Launched /\ seen'.since = 0 /\ wait = 0
        <3>1. inst'.nextReady = 0 BY <1>1, <2>3 DEF Launched, Instance
        <3>2. 0 < LastProbe + Lap BY <1>2, Constants
        <3>3. QED BY <2>1, <2>3, <3>1, <3>2 DEF ReadyLap
    <2>4. CASE Startable /\ inst' = SpawnFailed
        <3>1. ~inst'.handle BY <1>1, <2>4 DEF Startable, SpawnFailed, Instance
        <3>2. QED BY <3>1 DEF ReadyLap
    <2>5. wait = 0 BY <1>7 DEF SpawnMissing, Goto
    <2>6. seen' = [Unseen EXCEPT !.streak = seen.streak] => seen'.since = 0
        BY DEF Unseen
    <2>7. QED BY <1>7, <2>2, <2>3, <2>4, <2>5, <2>6 DEF SpawnMissing
<1>8. CASE Probe
    <2>1. UNCHANGED <<inst, child, sig, paths, seen>> BY <1>8 DEF Probe
    <2>2. CASE ~(inst.handle /\ inst.phase # "Terminating")
        BY <1>3, <2>1, <2>2 DEF ReadyLap
    <2>3. CASE inst.handle /\ inst.phase # "Terminating"
        <3>1. /\ pc = "probe" /\ pc' = "ready"
              /\ "ready" \in due' => wait' \in 0 .. Others + ProbeTimeout
              /\ "ready" \notin due' => wait' \in 0 .. Others + 0
              /\ due' = {q \in paths : IF q = "ready" THEN inst.nextReady = 0
                                                     ELSE inst.nextLive = 0}
            BY <1>8, <2>3 DEF Probe, Await, Requested
        <3>2. NeverReady => ("ready" \in due' <=> inst.nextReady = 0)
            BY <3>1 DEF NeverReady
        <3>3. CASE ~(sig = "none" /\ NeverReady) BY <2>1, <3>3 DEF ReadyLap, NeverReady
        <3>4. CASE sig = "none" /\ NeverReady
            <4>1. /\ inst.nextReady > 0 => seen.since + inst.nextReady <= LastProbe
                  /\ seen.since < LastProbe + Lap
                BY <2>3, <3>1, <3>4 DEF ReadyLap
            <4>2. CASE "ready" \in due'
                <5>1. wait' \in Nat /\ wait' <= Others + ProbeTimeout
                    BY <2>1, <3>1, <4>2, Constants
                <5>2. seen.since + wait' < LastProbe + Lap + Others + ProbeTimeout
                    BY <1>1, <1>2, <4>1, <5>1, Constants
                <5>3. QED BY <2>1, <3>1, <4>1, <4>2, <5>2 DEF ReadyLap, NeverReady
            <4>3. CASE "ready" \notin due'
                <5>1. wait' \in Nat /\ wait' <= Others BY <3>1, <4>3, Constants
                <5>2. seen.since < LastProbe
                    BY <1>1, <1>2, <3>2, <3>4, <4>1, <4>3
                <5>3. seen.since + wait' < LastProbe + Others
                    BY <1>1, <1>2, <5>1, <5>2, Constants
                <5>4. QED BY <2>1, <3>1, <4>1, <4>3, <5>3 DEF ReadyLap, NeverReady
            <4>4. QED BY <4>2, <4>3
        <3>5. QED BY <3>3, <3>4
    <2>4. QED BY <2>2, <2>3
<1>9. CASE ProbeReady
    <2>1. /\ inst.handle /\ sig = "none" /\ pc = "ready" /\ wait = 0
          /\ inst.readyIn = Left(ReadyTimeout)
          /\ inst.everReady <=> ~NeverReady
          /\ inst.phase = "Starting" <=> NeverReady
        BY <1>9 DEF IInv, PhaseOfChild, ProbesMean, ProbeReady
    <2>2. paths' = paths BY <1>9 DEF ProbeReady
    <2>3. CASE sig' = "term" BY <2>3 DEF ReadyLap
    <2>4. CASE ~NeverReady' BY <2>4 DEF ReadyLap
    <2>5. CASE "ready" \notin due /\ UNCHANGED <<inst, sig, seen>> /\ ToLive /\ NeverReady'
        <3>1. NeverReady BY <2>2, <2>5 DEF NeverReady
        <3>2. ~inst.everReady BY <2>1, <3>1
        <3>3. wait' = 0 /\ pc' = "live"
            BY <2>5, <3>2 DEF ToLive, Await, LiveCounts
        <3>4. QED BY <1>1, <2>1, <2>5, <3>1, <3>3 DEF ReadyLap
    <2>6. ASSUME NEW ok \in Answers, ~(~ok /\ Overdue),
                 inst' = Asked([inst EXCEPT !.nextReady = ReadyPeriod], ok),
                 seen' = [seen EXCEPT !.answered = @ \/ ok], ToLive, NeverReady'
          PROVE  ReadyLap'
        <3>1. ok \in BOOLEAN BY <2>6 DEF Answers
        <3>2. seen'.since = seen.since /\ (seen'.answered <=> (seen.answered \/ ok))
            BY <1>1, <2>6, <3>1 DEF Seen
        <3>3. NeverReady /\ ~ok BY <1>1, <2>2, <2>6, <3>1, <3>2 DEF NeverReady, Seen
        <3>4. inst.phase = "Starting" /\ inst.readyIn # 0
            BY <2>1, <2>6, <3>3 DEF Overdue
        <3>5. seen.since < ReadyTimeout BY <1>1, <2>1, <3>4 DEF Left
        <3>6. /\ inst'.nextReady = ReadyPeriod /\ inst'.everReady = inst.everReady
            BY <1>1, <2>6, <3>3 DEF Asked, Instance
        <3>7. wait' = 0 /\ pc' = "live"
            BY <2>1, <2>6, <3>3, <3>6 DEF ToLive, Await, LiveCounts
        <3>8. seen.since + ReadyPeriod <= LastProbe /\ seen.since < LastProbe + Others
            BY <1>1, <3>5, Constants DEF LastProbe
        <3>9. QED BY <1>1, <3>2, <3>6, <3>7, <3>8 DEF ReadyLap
    <2>7. ASSUME NEW r, BeginStop(r, TRUE, seen) PROVE sig' = "term"
        BY <2>7 DEF BeginStop
    <2>8. QED BY <1>9, <2>3, <2>4, <2>5, <2>6, <2>7 DEF ProbeReady
<1>10. CASE ProbeLive
    <2>1. /\ inst.handle /\ sig = "none" /\ pc = "live" /\ wait = 0
          /\ inst.everReady <=> ~NeverReady
        BY <1>10 DEF IInv, PhaseOfChild, ProbesMean, ProbeLive
    <2>2. paths' = paths /\ pc' = "sleep" /\ wait' = Tick
        BY <1>10 DEF ProbeLive, ToSleep
    <2>3. CASE UNCHANGED <<inst, sig, seen>>
        <3>1. CASE ~NeverReady BY <2>2, <2>3, <3>1 DEF ReadyLap, NeverReady
        <3>2. CASE NeverReady
            <4>1. seen.since + 0 < LastProbe + Others BY <2>1, <3>2 DEF ReadyLap
            <4>2. seen.since + Tick < LastProbe + Others + Tick
                BY <1>1, <1>2, <4>1, Constants
            <4>3. QED BY <2>1, <2>2, <2>3, <3>2, <4>2 DEF ReadyLap
        <3>3. QED BY <3>1, <3>2
    <2>4. CASE LiveCounts(inst)
        <3>1. ~NeverReady BY <2>1, <2>4 DEF LiveCounts
        <3>2. CASE sig' = "term" BY <3>2 DEF ReadyLap
        <3>3. CASE sig' # "term"
            <4>1. seen'.answered = seen.answered
                BY <1>1, <1>10, <2>3, <3>3 DEF ProbeLive, BeginStop, Seen
            <4>2. QED BY <2>2, <3>1, <4>1 DEF ReadyLap, NeverReady
        <3>4. QED BY <3>2, <3>3
    <2>5. QED BY <1>10, <2>3, <2>4 DEF ProbeLive
<1>11. CASE Pass
    <2>1. wait > 0 /\ wait' = wait - 1 /\ UNCHANGED <<pc, sig, paths, due>>
        BY <1>11 DEF Pass
    <2>2. /\ seen'.since = Later(seen.since) /\ seen'.answered = seen.answered
          /\ inst'.handle = inst.handle /\ inst'.nextReady = Sooner(inst.nextReady)
        BY <1>1, <1>11 DEF Pass, Seen, Instance
    <2>3. /\ seen'.since \in Nat /\ seen'.since <= seen.since + 1
          /\ seen'.since + wait' <= seen.since + wait
        BY <1>1, <2>1, <2>2, LaterGrows
    <2>4. inst'.nextReady > 0 => /\ inst.nextReady > 0
                                /\ inst'.nextReady = inst.nextReady - 1
        BY <1>1, <2>2 DEF Sooner
    <2>5. CASE ~(inst.handle /\ sig = "none" /\ NeverReady)
        BY <2>1, <2>2, <2>5 DEF ReadyLap, NeverReady
    <2>6. CASE inst.handle /\ sig = "none" /\ NeverReady
        <3>1. inst'.nextReady > 0 => seen'.since + inst'.nextReady <= LastProbe
            BY <1>1, <1>2, <2>3, <2>4, <2>6 DEF ReadyLap
        <3>2. /\ pc \notin {"stop", "spawn", "probe"}
            BY <1>1, <2>1, <2>6 DEF ReadyLap
        <3> DEFINE below(b) == seen.since + wait < b => seen'.since + wait' < b
        <3>3. \A b \in Nat : below(b) BY <1>1, <2>1, <2>3
        <3>4. /\ LastProbe + Lap \in Nat /\ LastProbe + Others \in Nat
              /\ LastProbe + Lap + Others + ProbeTimeout \in Nat
              /\ LastProbe + Others + Tick \in Nat
            BY <1>2, Constants
        <3>5. /\ below(LastProbe + Lap) /\ below(LastProbe + Others)
              /\ below(LastProbe + Lap + Others + ProbeTimeout)
              /\ below(LastProbe + Others + Tick)
            BY <3>3, <3>4
        <3>6. QED BY <2>1, <2>6, <3>1, <3>2, <3>5 DEF ReadyLap
    <2>7. QED BY <2>5, <2>6
<1>12. CASE Boot \/ Hang \/ Exit \/ Killed \/ UNCHANGED vars
    BY <1>12 DEF ReadyLap, NeverReady, Boot, Hang, Exit, Killed, ChildIs, loop, vars
<1>13. QED
    BY <1>4, <1>5, <1>6, <1>7, <1>8, <1>9, <1>10, <1>11, <1>12 DEF Next, Loop

\* A child that never answers is asked to stop in time, for all lengths of
\* ready_timeout and of a tick.
THEOREM ReadinessTimesOut == Spec => []ReadyInTime
<1>1. IInv /\ ReadyLap => ReadyInTime
    <2> SUFFICES ASSUME IInv, ReadyLap, Alive, sig = "none", NeverReady
                 PROVE  seen.since < (ReadyTimeout + ReadyPeriod - 1) + Lap
                                        + (Others + ProbeTimeout)
        BY DEF ReadyInTime
    <2>1. pc \in {"sleep", "reap", "stop", "spawn", "probe", "ready", "live"}
        BY DEF IInv, TypeOK
    <2>2. inst.handle BY DEF IInv, TypeOK, Alive
    <2>3. QED BY <2>1, <2>2, Numbers, Constants DEF ReadyLap, LastProbe, Lap
<1>2. QED BY <1>1, InitHolds, StepHolds, ReadyLapHolds, PTL DEF Spec

=============================================================================
