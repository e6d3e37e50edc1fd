---------------------------- MODULE InstanceTimers ----------------------------
(***************************************************************************)
(* The timers of one instance (artzain-core/src/reconcile.rs): its backoff *)
(* and restart counter, ready_timeout, the liveness count, and the grace   *)
(* between SIGTERM and SIGKILL.  Reconciler leaves the length of each wait *)
(* open; here time passes in units and the deadlines are numbers.          *)
(*                                                                         *)
(* A deadline is kept as the time left until it (0 once it has passed).    *)
(* One tick of the loop is the chain of steps                              *)
(*   sleep -> reap -> stop -> spawn -> probe -> ready -> live -> sleep,    *)
(* and time passes only at its awaits: the sleep, the checks and the       *)
(* probes of the other instances, and the two probes of this one.  The     *)
(* slot stays wanted throughout; the dependency check of its app may fail  *)
(* and recover, and the manifest may be edited.                            *)
(*                                                                         *)
(* A definition marked `mutant` is a plausible mistake in the definition   *)
(* after it; README.md names the property each one breaks.                 *)
(***************************************************************************)
EXTENDS Integers

CONSTANTS
    Tick,           \* TICK
    ReadyPeriod,    \* READY_PERIOD
    ProbeTimeout,   \* PROBE_TIMEOUT
    StopGrace,      \* STOP_GRACE
    KillAgain,      \* wait before another SIGKILL
    Base,           \* restart_backoff_ms
    Cap,            \* restart_backoff_max_ms
    StableAfter,    \* stable_after_secs
    ReadyTimeout,   \* ready_timeout
    LivePeriod,     \* live_period
    LiveFailures,   \* live_failures
    Others,         \* bound: time the checks, or the other instances, take
    MaxRestarts,    \* bound: the restart counter is kept below it
    Horizon         \* bound: times longer than this are not told apart

Periods == {Tick, ReadyPeriod, ProbeTimeout, StopGrace, KillAgain, LivePeriod}

ASSUME TimersAssumption ==
    /\ Periods \subseteq Nat \ {0} /\ LiveFailures \in Nat \ {0}
    /\ {Base, Cap, StableAfter, ReadyTimeout, Others} \subseteq Nat
    /\ MaxRestarts \in Nat \ {0}
    /\ Horizon \in Nat
    /\ \A d \in {Cap, StableAfter, ReadyTimeout, StopGrace} : d <= Horizon

VARIABLES
    inst,       \* the instance
    child,      \* its process
    sig,        \* the strongest signal sent to the process
    paths,      \* which of ready_path and live_path the app declares
    checkOk,    \* checks_ok of the check the app depends on
    pc,         \* the step of the tick the loop is at
    wait,       \* time left of the await the loop is in
    due,        \* the probes that are due in this tick
    seen        \* history: what an observer with a clock saw

loop == <<pc, wait, due>>
vars == <<inst, child, sig, paths, checkOk, loop, seen>>

Instance == [phase : {"Pending", "Starting", "Ready", "Unready", "Terminating",
                      "CrashLoopBackOff"},
             handle : BOOLEAN, restarts : Nat, uptime : Nat, backoff : Nat,
             readyIn : Nat, killIn : Nat, respawn : BOOLEAN, liveFails : Nat,
             nextReady : Nat, nextLive : Nat, everReady : BOOLEAN]

\* Of the observer: the time since the last launch, stop or failure; the
\* failures in a row; and of the child that runs, whether it ever answered a
\* readiness probe and how many liveness probes in a row it has missed.
Seen == [since : Nat, streak : Nat, answered : BOOLEAN, missed : Nat]

Counted(n) == IF n < MaxRestarts THEN n + 1 ELSE n
Alive == child \in {"boot", "up", "hung"}

\* Instance::pending.
Pending == [phase |-> "Pending", handle |-> FALSE, restarts |-> 0, uptime |-> 0,
            backoff |-> 0, readyIn |-> 0, killIn |-> 0, respawn |-> FALSE,
            liveFails |-> 0, nextReady |-> 0, nextLive |-> 0, everReady |-> FALSE]

Unseen == [since |-> 0, streak |-> 0, answered |-> FALSE, missed |-> 0]

Init ==
    /\ inst = Pending
    /\ child = "none" /\ sig = "none"
    /\ paths \in SUBSET {"ready", "live"}
    /\ checkOk = TRUE
    /\ pc = "sleep" /\ wait = 0 /\ due = {}
    /\ seen = Unseen

Goto(from, to) == wait = 0 /\ pc = from /\ pc' = to
Await(longest) == wait' \in 0 .. longest

\* backoff_delay: the base, doubled with every restart, up to the cap.  Without
\* a restart it is not called, and no backoff_until is set: no delay.
MaxShift == 20
Capped(delay) == IF delay \in 0 .. Cap THEN delay ELSE Cap
Delay(restarts) ==
    IF restarts = 0 THEN 0
    ELSE Capped(Base * 2 ^ (IF restarts <= MaxShift THEN restarts - 1 ELSE MaxShift))

\* begin_stop: SIGTERM, and SIGKILL when the grace is over.
StopKeepingDeadline(r, respawn, h) ==                               \* mutant
    /\ inst' = [r EXCEPT !.phase = "Terminating", !.respawn = respawn]
    /\ sig' = "term"
    /\ seen' = [h EXCEPT !.since = 0]
BeginStop(r, respawn, h) ==
    /\ inst' = [r EXCEPT !.phase = "Terminating", !.respawn = respawn,
                         !.killIn = StopGrace]
    /\ sig' = "term"
    /\ seen' = [h EXCEPT !.since = 0]

\* reverify_checks: the tick begins; the checks may be tried.
ReverifyChecks ==
    /\ Goto("sleep", "reap") /\ Await(Others)
    /\ checkOk' \in BOOLEAN
    /\ UNCHANGED <<inst, child, sig, paths, due, seen>>

\* reap: a child that exited is backed off from, or its slot is dropped (and
\* filled afresh by spawn_missing); one that outlives the grace is killed.
FailuresKept == inst.restarts                                       \* mutant
Failures == IF inst.uptime >= StableAfter THEN 0 ELSE inst.restarts
BackedOff ==
    [inst EXCEPT !.handle = FALSE, !.uptime = 0, !.everReady = FALSE,
                 !.restarts = Counted(Failures),
                 !.backoff = Delay(Counted(Failures)),
                 !.phase = "CrashLoopBackOff", !.respawn = FALSE]
OverstaysDoomed == /\ Alive /\ inst.phase = "Terminating"            \* mutant
                   /\ ~inst.respawn /\ inst.killIn = 0
Overstays == Alive /\ inst.phase = "Terminating" /\ inst.killIn = 0
Reap ==
    /\ Goto("reap", "stop")
    /\ \/ /\ child = "exited" /\ (inst.phase # "Terminating" \/ inst.respawn)
          /\ inst' = BackedOff /\ child' = "none" /\ sig' = "none"
          /\ seen' = [Unseen EXCEPT !.streak =
                Counted(IF inst.uptime >= StableAfter THEN 0 ELSE seen.streak)]
       \/ /\ child = "exited" /\ inst.phase = "Terminating" /\ ~inst.respawn
          /\ inst' = Pending /\ child' = "none" /\ sig' = "none"
          /\ seen' = Unseen
       \/ /\ Overstays
          /\ inst' = [inst EXCEPT !.killIn = KillAgain] /\ sig' = "kill"
          /\ UNCHANGED <<child, seen>>
       \/ /\ child # "exited" /\ ~Overstays
          /\ UNCHANGED <<inst, child, sig, seen>>
    /\ UNCHANGED <<paths, checkOk, wait, due>>

\* stop_check_blocked, then roll_stale: a running instance is stopped, to be
\* restarted when its check passes, or, after an edit, to be replaced.  What
\* replaces an instance without a child is fresh at once.
StopOrRoll ==
    /\ Goto("stop", "spawn")
    /\ \/ /\ inst.handle /\ inst.phase # "Terminating" /\ ~checkOk
          /\ BeginStop(inst, TRUE, seen)
       \/ /\ inst.handle /\ inst.phase # "Terminating" /\ checkOk
          /\ BeginStop(inst, FALSE, seen)
       \/ /\ ~inst.handle
          /\ inst' = Pending /\ seen' = Unseen /\ UNCHANGED sig
       \/ /\ checkOk \/ ~inst.handle \/ inst.phase = "Terminating"
          /\ UNCHANGED <<inst, sig, seen>>
    /\ UNCHANGED <<child, paths, checkOk, wait, due>>

\* spawn_missing and spawn: a child for the instance when its backoff is over
\* and its check passes.
Startable == ~inst.handle /\ inst.phase # "Terminating"
             /\ inst.backoff = 0 /\ checkOk
LaunchedRemembering ==                                              \* mutant
    [inst EXCEPT !.handle = TRUE, !.uptime = 0,
                 !.phase = IF "ready" \in paths THEN "Starting" ELSE "Ready",
                 !.readyIn = ReadyTimeout,
                 !.everReady = "ready" \notin paths,
                 !.nextReady = 0, !.nextLive = LivePeriod]
Launched ==
    [inst EXCEPT !.handle = TRUE, !.uptime = 0,
                 !.phase = IF "ready" \in paths THEN "Starting" ELSE "Ready",
                 !.readyIn = ReadyTimeout, !.liveFails = 0,
                 !.everReady = "ready" \notin paths,
                 !.nextReady = 0, !.nextLive = LivePeriod]
SpawnFailed ==
    [inst EXCEPT !.restarts = Counted(@), !.backoff = Delay(Counted(inst.restarts)),
                 !.phase = "CrashLoopBackOff"]
SpawnMissing ==
    /\ Goto("spawn", "probe")
    /\ \/ /\ Startable
          /\ inst' = Launched /\ child' = "boot"
          /\ seen' = [Unseen EXCEPT !.streak = seen.streak]
       \/ /\ Startable
          /\ inst' = SpawnFailed /\ child' = child
          /\ seen' = [Unseen EXCEPT !.streak = Counted(seen.streak)]
       \/ ~Startable /\ UNCHANGED <<inst, child, seen>>
    /\ UNCHANGED <<sig, paths, checkOk, wait, due>>

\* probe: which probes are due is settled when the tick begins to probe; the
\* probes of other instances, and the request itself, come in between.
Requested(p, longest) == IF p \in due' THEN longest ELSE 0
Probe ==
    /\ wait = 0 /\ pc = "probe"
    /\ IF inst.handle /\ inst.phase # "Terminating"
       THEN /\ pc' = "ready"
            /\ due' = {p \in paths : IF p = "ready" THEN inst.nextReady = 0
                                                    ELSE inst.nextLive = 0}
            /\ Await(Others + Requested("ready", ProbeTimeout))
       ELSE pc' = "sleep" /\ due' = {} /\ wait' \in Tick .. Tick + Others
    /\ UNCHANGED <<inst, child, sig, paths, checkOk, seen>>

\* Only a child that is up answers, and it may fail to.
Answers == IF child = "up" THEN BOOLEAN ELSE {FALSE}
AskedUnready(r, ok) ==                                              \* mutant
    [r EXCEPT !.phase = IF ok THEN "Ready" ELSE "Unready", !.everReady = @ \/ ok]
Asked(r, ok) ==
    IF ok THEN [r EXCEPT !.phase = "Ready", !.everReady = TRUE]
    ELSE IF r.phase = "Ready" THEN [r EXCEPT !.phase = "Unready"] ELSE r
Overdue == inst.phase = "Starting" /\ inst.readyIn = 0
LiveCountsReady(r) == r.phase = "Ready"                             \* mutant
LiveCounts(r) == r.everReady
ToLive == /\ pc' = "live" /\ due' = due \ {"ready"}
          /\ Await(IF "live" \in due /\ LiveCounts(inst') THEN ProbeTimeout ELSE 0)
ToSleep == pc' = "sleep" /\ due' = {} /\ wait' = Tick
ProbeReady ==
    /\ wait = 0 /\ pc = "ready"
    /\ \/ /\ "ready" \notin due
          /\ UNCHANGED <<inst, sig, seen>> /\ ToLive
       \/ /\ "ready" \in due
          /\ \E ok \in Answers :
                LET r == [inst EXCEPT !.nextReady = ReadyPeriod]
                IN  IF ~ok /\ Overdue
                    THEN BeginStop(r, TRUE, seen) /\ ToSleep
                    ELSE /\ inst' = Asked(r, ok)
                         /\ seen' = [seen EXCEPT !.answered = @ \/ ok]
                         /\ UNCHANGED sig /\ ToLive
    /\ UNCHANGED <<child, paths, checkOk>>

\* Liveness counts once the instance has been ready.
ProbeLive ==
    /\ wait = 0 /\ pc = "live" /\ ToSleep
    /\ \/ /\ ~("live" \in due /\ LiveCounts(inst))
          /\ UNCHANGED <<inst, sig, seen>>
       \/ /\ "live" \in due /\ LiveCounts(inst)
          /\ \E ok \in Answers :
                LET r == [inst EXCEPT !.nextLive = LivePeriod,
                                      !.liveFails = IF ok THEN 0 ELSE @ + 1]
                    h == [seen EXCEPT !.missed = IF ok THEN 0 ELSE @ + 1]
                IN  IF r.liveFails >= LiveFailures
                    THEN BeginStop(r, TRUE, h)
                    ELSE inst' = r /\ seen' = h /\ UNCHANGED sig
    /\ UNCHANGED <<child, paths, checkOk>>

\* The clock: a unit passes while the loop waits.
Sooner(n) == IF n > 0 THEN n - 1 ELSE 0
Later(n) == IF n < Horizon THEN n + 1 ELSE n
Pass ==
    /\ wait > 0 /\ wait' = wait - 1
    /\ inst' = [inst EXCEPT !.uptime = IF inst.handle THEN Later(@) ELSE @,
                            !.backoff = Sooner(@), !.readyIn = Sooner(@),
                            !.killIn = Sooner(@), !.nextReady = Sooner(@),
                            !.nextLive = Sooner(@)]
    /\ seen' = [seen EXCEPT !.since = Later(@)]
    /\ UNCHANGED <<child, sig, paths, checkOk, pc, due>>

\* The child gets up, hangs for good, or exits: by itself, obeying SIGTERM or
\* of a SIGKILL.
ChildIs(state) == child' = state /\ UNCHANGED <<inst, sig, paths, checkOk, loop, seen>>
Boot == child = "boot" /\ ChildIs("up")
Hang == child \in {"boot", "up"} /\ ChildIs("hung")
Exit == Alive /\ ChildIs("exited")
Killed == Alive /\ sig = "kill" /\ ChildIs("exited")

Loop == \/ ReverifyChecks \/ Reap \/ StopOrRoll \/ SpawnMissing
        \/ Probe \/ ProbeReady \/ ProbeLive
Next == Loop \/ Pass \/ Boot \/ Hang \/ Exit \/ Killed
Spec == Init /\ [][Next]_vars

\* The loop runs, time passes, and SIGKILL works.
FairSpec == Spec /\ WF_vars(Loop) /\ WF_vars(Pass) /\ WF_vars(Killed)

-----------------------------------------------------------------------------
(***************************************************************************)
(* Properties.                                                             *)
(***************************************************************************)

\* The instance, its child and the observer have their shape, and a handle
\* is held exactly while there is a child to reap.
TypeOK ==
    /\ inst \in Instance
    /\ child \in {"none", "boot", "up", "hung", "exited"}
    /\ sig \in {"none", "term", "kill"}
    /\ paths \subseteq {"ready", "live"} /\ due \subseteq paths
    /\ checkOk \in BOOLEAN
    /\ pc \in {"sleep", "reap", "stop", "spawn", "probe", "ready", "live"}
    /\ wait \in Nat
    /\ seen \in Seen
    /\ inst.handle <=> child # "none"

\* "crash backoff (doubles each crash)", "uptime that resets the crash
\* counter": a tick launches the child, or tries to, exactly when its check
\* passes and the observer has waited out the delay of the failures seen in a
\* row.  Stops, edits, failed launches and idle checks in between neither
\* shorten the wait nor prolong it.
Waited == checkOk /\ seen.since >= Delay(seen.streak)
BackoffIsExact ==
    [][pc = "spawn" /\ pc' = "probe" /\ child = "none" =>
          /\ inst' # inst => Waited
          /\ Waited => \/ child' = "boot"
                       \/ inst'.phase = "CrashLoopBackOff" /\ seen'.since = 0]_vars

\* SIGKILL never comes before the grace since the SIGTERM of the same child is
\* over, however old the deadlines are that earlier children left behind.
GraceIsGiven ==
    [][sig = "term" /\ sig' = "kill" => seen.since >= StopGrace]_vars

NeverReady == "ready" \in paths /\ ~seen.answered

\* An app that ignores SIGTERM gets its SIGKILL in the first tick after the
\* grace: a tick lasts TICK and the others' checks and probes, as an instance
\* that is Terminating is not probed.
Lap == Tick + 2 * Others
KilledInTime == Alive /\ sig = "term" => seen.since < StopGrace + Lap

\* "seconds to first-ready before a restart": a child that never answers is
\* asked to stop at the first readiness probe after ready_timeout ...
ReadyInTime ==
    Alive /\ sig = "none" /\ NeverReady =>
        seen.since < (ReadyTimeout + ReadyPeriod - 1) + Lap + (Others + ProbeTimeout)

\* ... and no probe stops a child for another reason than that, or for
\* live_failures liveness probes in a row that this child missed after it was
\* ready: no count and no deadline is inherited from the child before it.
StopsAreEarned ==
    [][sig = "none" /\ pc \in {"ready", "live"} /\ sig' = "term" =>
          IF NeverReady THEN seen.since >= ReadyTimeout
                        ELSE seen'.missed >= LiveFailures]_vars

\* A child that hangs for good is replaced in the end, if its app declares a
\* live_path: readiness takes it out of service, liveness restarts it.
HungEnds == "live" \in paths /\ child = "hung" ~> child # "hung"

=============================================================================
