------------------------------- MODULE Ownership -------------------------------
(***************************************************************************)
(* Who owns a cluster: the lock file (artzain-core/src/lock.rs), the state *)
(* file, what a new `up` does about the children of a dead one             *)
(* (reclaim_orphans in reconcile.rs), and `down` (artzain/src/main.rs).    *)
(*                                                                         *)
(* Several `up` processes may be started over the same manifest, one step  *)
(* of each at a time, and any of them may be SIGKILLed between two steps.  *)
(* Here a running `up` only starts, loses and records process groups; what *)
(* it does with them is the subject of Reconciler.                         *)
(***************************************************************************)
EXTENDS Naturals

CONSTANTS
    Pid,            \* process ids that an `up` may get
    Group,          \* process groups of children
    NoPid,          \* no process: what an absent file names
    Racing,         \* may an `up` start while another is reading the lock?
    Alone,          \* is an `up` started only when no other is alive?
    Reuse,          \* may a dead process's id be used again?
    MaxCrashes      \* bound: `up` processes that die without a destructor

ASSUME OwnershipAssumption ==
    /\ NoPid \notin Pid
    /\ Racing \in BOOLEAN /\ Alone \in BOOLEAN /\ Reuse \in BOOLEAN
    /\ MaxCrashes \in Nat

VARIABLES
    lock,       \* the pid in the lock file, NoPid if there is none
    state,      \* the state file: its owner_pid and the pgids it records
    proc,       \* what each pid is
    pc,         \* the step an `up` is at
    found,      \* the pgids an `up` read from a dead owner's state file
    held,       \* the groups an `up` has a handle on
    unlisted,   \* groups of apps that left the manifest: not in snapshots
    group,      \* whether each group was started and still exists
    sig,        \* the strongest signal each live group was sent
    down,       \* the `down` command: the check it is at, the pid it read
    asked,      \* whether `down` has sent each `up` a SIGTERM, and it heard it
    exposed,    \* history: the `up` processes whose lock may fail them
    crashes     \* unasked deaths without a destructor (bound MaxCrashes)

upVars == <<proc, pc, found, held>>
groupVars == <<unlisted, group, sig>>
downVars == <<down, asked>>
vars == <<lock, state, upVars, groupVars, downVars, exposed, crashes>>

NoState == [owner |-> NoPid, groups |-> {}]

\* kill(pid, 0) = 0, the test of lock.rs and main.rs: a process of another
\* user reads as dead.  In process.rs it reads as alive.
Signalable(p) == p \in Pid /\ proc[p] \in {"up", "stranger"}
IsPidAlive(p) == p \in Pid /\ proc[p] \in {"up", "stranger", "foreign"}

Live(g) == group[g] = "live"
Signalled(gs, s) ==
    [g \in Group |-> IF g \in gs /\ Live(g) /\ sig[g] # "kill" THEN s ELSE sig[g]]
Looping == {"published", "first", "wrote", "run", "stop"}
Owning == {p \in Pid : pc[p] \in Looping \union {"reclaim", "wait", "forget",
                                                 "forgetLock", "verify", "unlink"}}

Init ==
    /\ lock = NoPid /\ state = NoState
    /\ proc = [p \in Pid |-> "unused"] /\ pc = [p \in Pid |-> "off"]
    /\ found = [p \in Pid |-> {}] /\ held = [p \in Pid |-> {}]
    /\ unlisted = {}
    /\ group = [g \in Group |-> "unused"] /\ sig = [g \in Group |-> "none"]
    /\ down = [at |-> "idle", pid |-> NoPid] /\ asked = [p \in Pid |-> "no"]
    /\ exposed = {} /\ crashes = 0

Goto(p, from, to) == pc[p] = from /\ pc' = [pc EXCEPT ![p] = to]

-----------------------------------------------------------------------------
(***************************************************************************)
(* `up`, from the lock to its removal.                                     *)
(***************************************************************************)

Start(p) ==
    /\ proc[p] = "unused" \/ (Reuse /\ proc[p] = "dead")
    /\ Racing \/ \A q \in Pid : pc[q] \notin {"read", "write"}
    /\ Alone => \A q \in Pid : proc[q] # "up"
    /\ Goto(p, "off", "read") /\ proc' = [proc EXCEPT ![p] = "up"]
    /\ asked' = [asked EXCEPT ![p] = "no"]
    /\ UNCHANGED <<lock, state, found, held, groupVars, down, exposed, crashes>>

\* Lock::acquire reads the file, and writes it if its pid is dead or its own.
\* A refused `up` drops the Lock it had begun to make.
TakenUnread(p) == FALSE                                             \* mutant
Taken(p) == lock # p /\ Signalable(lock)
ReadLock(p) ==
    /\ Goto(p, "read", IF Taken(p) THEN "refused" ELSE "write")
    /\ UNCHANGED <<lock, state, proc, found, held, groupVars, downVars, exposed, crashes>>
\* One that writes while another has read, too, is exposed from then on.  When
\* the lock changes hands by the rules, those that are gone are forgotten.
Rivals(p) == {q \in Pid \ {p} : pc[q] = "write"}
WriteLock(p) ==
    /\ Goto(p, "write", "reclaim") /\ lock' = p
    /\ exposed' = IF Rivals(p) # {} THEN exposed \union {p}
                                     ELSE (exposed \intersect Owning) \ {p}
    /\ UNCHANGED <<state, proc, found, held, groupVars, downVars, crashes>>

\* reclaim_orphans: SIGTERM what a dead owner recorded, wait, SIGKILL what is
\* left, and remove the state file, then the lock file.
Abandoned == state # NoState /\ ~IsPidAlive(state.owner)
Reclaim(p) ==
    /\ Goto(p, "reclaim", IF Abandoned THEN "wait" ELSE "verify")
    /\ found' = [found EXCEPT ![p] = IF Abandoned THEN state.groups ELSE {}]
    /\ sig' = IF Abandoned THEN Signalled(state.groups, "term") ELSE sig
    /\ UNCHANGED <<lock, state, proc, held, unlisted, group, downVars, exposed, crashes>>
StragglersSpared(p) == {}                                           \* mutant
Stragglers(p) == {g \in found[p] : Live(g)}
AwaitOrphans(p) ==
    /\ Goto(p, "wait", "forget")
    /\ sig' = Signalled(Stragglers(p), "kill")
    /\ UNCHANGED <<lock, state, proc, found, held, unlisted, group, downVars, exposed, crashes>>
ForgetState(p) ==
    /\ Goto(p, "forget", "forgetLock") /\ state' = NoState
    /\ found' = [found EXCEPT ![p] = {}]
    /\ UNCHANGED <<lock, proc, held, groupVars, downVars, exposed, crashes>>
ForgetLock(p) ==
    /\ Goto(p, "forgetLock", "verify") /\ lock' = NoPid
    /\ exposed' = exposed \union {p} \union ({lock} \intersect Pid)
    /\ UNCHANGED <<state, proc, found, held, groupVars, downVars, crashes>>

\* verify_checks fails, or the first write_state publishes the new owner.
Refuse(p) ==
    /\ Goto(p, "verify", "refused")
    /\ UNCHANGED <<lock, state, proc, found, held, groupVars, downVars, exposed, crashes>>
Snapshot(p) == [owner |-> p, groups |-> held[p] \ unlisted]
Publish(p) ==
    /\ Goto(p, "verify", "published") /\ state' = Snapshot(p)
    /\ UNCHANGED <<lock, proc, found, held, groupVars, downVars, exposed, crashes>>

\* select! polls its two futures in either order.  shutdown_signal, when it is
\* polled, installs the signal handlers; the loop, when it comes first, gets as
\* far in its first tick as the first probe or, without one, past write_state.
Unarmed == {"read", "refused", "write", "reclaim", "wait", "forget", "forgetLock",
            "verify", "published", "first", "wrote"}
FirstTick(p) ==
    /\ Goto(p, "published", "first")
    /\ UNCHANGED <<lock, state, proc, found, held, groupVars, downVars, exposed, crashes>>
Arm(p) ==
    /\ pc[p] \in {"published", "first", "wrote"} /\ pc' = [pc EXCEPT ![p] = "run"]
    /\ UNCHANGED <<lock, state, proc, found, held, groupVars, downVars, exposed, crashes>>

\* The loop: it launches a child, harvests those that exited, stops those of an
\* app that left the manifest, and writes what it holds at the end of a tick.
Spawn(p, g) ==
    /\ pc[p] \in {"first", "run"} /\ group[g] = "unused"
    /\ group' = [group EXCEPT ![g] = "live"]
    /\ held' = [held EXCEPT ![p] = @ \union {g}]
    /\ UNCHANGED <<lock, state, proc, pc, found, unlisted, sig, downVars, exposed, crashes>>
Reap(p) ==
    /\ pc[p] = "run"
    /\ held' = [held EXCEPT ![p] = {g \in @ : Live(g)}]
    /\ UNCHANGED <<lock, state, proc, pc, found, groupVars, downVars, exposed, crashes>>
Unlist(p, g) ==
    /\ pc[p] = "run" /\ g \in held[p]
    /\ unlisted' = unlisted \union {g}
    /\ sig' = Signalled({g}, "term")
    /\ UNCHANGED <<lock, state, upVars, group, downVars, exposed, crashes>>
WriteState(p) ==
    /\ pc[p] \in {"first", "run"} /\ state' = Snapshot(p)
    /\ pc' = [pc EXCEPT ![p] = IF @ = "first" THEN "wrote" ELSE @]
    /\ UNCHANGED <<lock, proc, found, held, groupVars, downVars, exposed, crashes>>

\* A child that overstays the grace after its SIGTERM is SIGKILLed.
EscalateOnce(p, g) ==                                               \* mutant
    /\ pc[p] = "run" /\ g \in held[p] /\ sig[g] = "term"
    /\ sig' = Signalled({g}, "kill")
    /\ UNCHANGED <<lock, state, upVars, unlisted, group, downVars, exposed, crashes>>
Escalate(p, g) ==
    /\ pc[p] \in {"run", "stop"} /\ g \in held[p] /\ sig[g] = "term"
    /\ sig' = Signalled({g}, "kill")
    /\ UNCHANGED <<lock, state, upVars, unlisted, group, downVars, exposed, crashes>>

\* A signal ends the loop: teardown, then both files are removed, the lock
\* only if it still names this process.
Shutdown(p) ==
    /\ Goto(p, "run", "stop") /\ sig' = Signalled(held[p], "term")
    /\ UNCHANGED <<lock, state, proc, found, held, unlisted, group, downVars, exposed, crashes>>
TornDownAtDeadline(p) ==                                            \* mutant
    /\ Goto(p, "stop", "unlink")
    /\ UNCHANGED <<lock, state, proc, found, held, groupVars, downVars, exposed, crashes>>
TornDown(p) ==
    /\ Goto(p, "stop", "unlink") /\ \A g \in held[p] : ~Live(g)
    /\ held' = [held EXCEPT ![p] = {}]
    /\ UNCHANGED <<lock, state, proc, found, groupVars, downVars, exposed, crashes>>
UnlinkState(p) ==
    /\ Goto(p, "unlink", "drop") /\ state' = NoState
    /\ UNCHANGED <<lock, proc, found, held, groupVars, downVars, exposed, crashes>>
WithoutAny(p) == NoPid                                              \* mutant
Without(p) == IF lock = p THEN NoPid ELSE lock
DropLock(p) ==
    /\ pc[p] \in {"drop", "refused"} /\ pc' = [pc EXCEPT ![p] = "off"]
    /\ proc' = [proc EXCEPT ![p] = "dead"]
    /\ lock' = Without(p) /\ asked' = [asked EXCEPT ![p] = "no"]
    /\ UNCHANGED <<state, found, held, groupVars, down, exposed, crashes>>

\* A death without destructors: the children live on.  SIGKILL at any step,
\* or any other signal before the handlers are there.
Die(p) ==
    /\ proc[p] = "up"
    /\ proc' = [proc EXCEPT ![p] = "dead"] /\ pc' = [pc EXCEPT ![p] = "off"]
    /\ found' = [found EXCEPT ![p] = {}] /\ held' = [held EXCEPT ![p] = {}]
    /\ UNCHANGED <<lock, state, groupVars, exposed>>
Crash(p) ==
    /\ Die(p) /\ crashes < MaxCrashes /\ crashes' = crashes + 1
    /\ asked' = [asked EXCEPT ![p] = IF @ = "heard" THEN "killed" ELSE @]
    /\ UNCHANGED down

-----------------------------------------------------------------------------
(***************************************************************************)
(* The rest of the machine, and `down`.                                    *)
(***************************************************************************)

\* A child's group exits, of itself or of a signal.
Exit(g) ==
    /\ Live(g) /\ group' = [group EXCEPT ![g] = "gone"]
    /\ sig' = [sig EXCEPT ![g] = "none"]
    /\ UNCHANGED <<lock, state, upVars, unlisted, downVars, exposed, crashes>>

\* A dead process's id goes to an unrelated one, of this user or another.
Stranger(p) ==
    /\ Reuse /\ proc[p] = "dead"
    /\ \E kind \in {"stranger", "foreign"} : proc' = [proc EXCEPT ![p] = kind]
    /\ UNCHANGED <<lock, state, pc, found, held, groupVars, downVars, exposed, crashes>>

\* down: read the state file, compare the lock file and test its pid, signal.
DownRead ==
    /\ down.at = "idle" /\ state # NoState
    /\ down' = [at |-> "lock", pid |-> state.owner]
    /\ UNCHANGED <<lock, state, upVars, groupVars, asked, exposed, crashes>>
DownCheck ==
    /\ down.at = "lock"
    /\ down' = IF lock = down.pid /\ Signalable(down.pid)
               THEN [down EXCEPT !.at = "kill"]
               ELSE [at |-> "idle", pid |-> NoPid]
    /\ UNCHANGED <<lock, state, upVars, groupVars, asked, exposed, crashes>>
DownKill ==
    /\ down.at = "kill" /\ down' = [at |-> "idle", pid |-> NoPid]
    /\ \/ /\ pc[down.pid] \in Unarmed /\ Die(down.pid)
          /\ asked' = [asked EXCEPT ![down.pid] = "killed"] /\ UNCHANGED crashes
       \/ /\ pc[down.pid] \notin Unarmed
          /\ asked' = [asked EXCEPT ![down.pid] =
                          IF proc[down.pid] = "up" THEN "heard" ELSE @]
          /\ UNCHANGED <<lock, state, upVars, groupVars, exposed, crashes>>

Up(p) == \/ ReadLock(p) \/ WriteLock(p) \/ Reclaim(p) \/ AwaitOrphans(p)
         \/ ForgetState(p) \/ ForgetLock(p) \/ Refuse(p) \/ Publish(p)
         \/ FirstTick(p) \/ Arm(p) \/ Reap(p) \/ WriteState(p) \/ TornDown(p) \/ UnlinkState(p) \/ DropLock(p)
         \/ \E g \in Group : Spawn(p, g) \/ Unlist(p, g) \/ Escalate(p, g)
Next == \/ \E p \in Pid : Start(p) \/ Up(p) \/ Shutdown(p) \/ Crash(p) \/ Stranger(p)
        \/ \E g \in Group : Exit(g)
        \/ DownRead \/ DownCheck \/ DownKill

Spec == Init /\ [][Next]_vars

\* teardown runs to its end, SIGKILL works, and a signal that was sent arrives.
Fairness ==
    /\ \A p \in Pid : /\ WF_vars(TornDown(p)) /\ WF_vars(UnlinkState(p))
                      /\ WF_vars(DropLock(p))
                      /\ WF_vars(asked[p] = "heard" /\ Shutdown(p))
                      /\ \A g \in Group : WF_vars(pc[p] = "stop" /\ Escalate(p, g))
    /\ \A g \in Group : WF_vars(sig[g] = "kill" /\ Exit(g))
FairSpec == Spec /\ Fairness

-----------------------------------------------------------------------------
(***************************************************************************)
(* Properties.                                                             *)
(***************************************************************************)

\* The files, the processes and the groups have their shape, and only the loop
\* and the teardown have handles: `up` never gets past teardown holding one.
TypeOK ==
    /\ lock \in Pid \union {NoPid}
    /\ state \in [owner : Pid \union {NoPid}, groups : SUBSET Group]
    /\ proc \in [Pid -> {"unused", "up", "dead", "stranger", "foreign"}]
    /\ pc \in [Pid -> Looping \union Unarmed \union {"off", "unlink", "drop"}]
    /\ found \in [Pid -> SUBSET Group] /\ held \in [Pid -> SUBSET Group]
    /\ \A p \in Pid : held[p] # {} => pc[p] \in Looping \ {"published"}
    /\ unlisted \subseteq Group
    /\ group \in [Group -> {"unused", "live", "gone"}]
    /\ sig \in [Group -> {"none", "term", "kill"}]
    /\ down \in [at : {"idle", "lock", "kill"}, pid : Pid \union {NoPid}]
    /\ asked \in [Pid -> {"no", "heard", "killed"}]
    /\ exposed \subseteq Pid /\ crashes \in Nat

\* The lock admits one `up`, through crashes, races, reused ids and dead owners:
\* an `up` that has taken it is alone until it has removed the state file, but
\* for two holes of the code: it wrote the lock while another had passed the
\* test, too; or reclaim_orphans has taken its lock away.
LockExcludes == \A p, q \in Owning \ exposed : p = q

\* Until it has stopped its children, the lock names an `up` to `down` and to the
\* next `up`, unless it is exposed.  The state file names it too, if nobody has
\* been exposed since the lock last changed hands by the rules.
OwnerIsPublished ==
    \A p \in Pid : pc[p] \in Looping =>
        /\ p \notin exposed => lock = p
        /\ exposed = {} => state.owner = p

\* A group leaves the state file only when it is gone, was SIGKILLed, or is in
\* the hands of a live `up`: through crashes at any step of reclaim_orphans the
\* file remembers the children that nobody has stopped.
RecordIsKept ==
    [][\A g \in state.groups \ state'.groups :
          \/ ~Live(g)' \/ sig'[g] = "kill"
          \/ \E p \in Pid : g \in held'[p]]_vars

\* An `up` whose handlers are there when `down` signals it ends, and leaves
\* neither a file that names it nor a child, unless it is SIGKILLed meanwhile.
\* (One that is signalled earlier is killed by the signal.)
DownEnds ==
    \A p \in Pid :
        /\ asked[p] = "heard" ~>
              asked[p] = "killed" \/ (pc[p] = "off" /\ lock # p /\ state.owner # p)
        /\ \A g \in Group :
              asked[p] = "heard" /\ g \in held[p] ~> asked[p] = "killed" \/ ~Live(g)

-----------------------------------------------------------------------------
(***************************************************************************)
(* What the documentation says of the lock.                                *)
(***************************************************************************)

\* "prevents two `artzain up` invocations from fighting over the same ports and
\* state file": between taking the lock and removing the state file an `up` is
\* alone.
OneUp == \A p, q \in Owning : p = q

=============================================================================
