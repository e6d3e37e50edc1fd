---------------------------- MODULE OwnershipProofs ----------------------------
(***************************************************************************)
(* First, whom the lock admits and whom the files name, for any number of  *)
(* processes and groups, through races, crashes and reused process ids.    *)
(* Then the types, and that crashes lose no record.                        *)
(***************************************************************************)
EXTENDS Ownership, TLAPS

\* The processes that have written the state file and not yet removed it.
Publishing == {p \in Pid : pc[p] \in Looping \union {"unlink"}}

\* A step of `up` is taken by a live process.  The owners that are not exposed
\* have the lock; an `up` passes the test for it only when there is none, and as
\* long as nobody is exposed, the state file names whoever publishes it.
Guarded ==
    /\ pc \in [Pid -> Looping \union Unarmed \union {"off", "unlink", "drop"}]
    /\ proc \in [Pid -> {"unused", "up", "dead", "stranger", "foreign"}]
    /\ \A p \in Pid : pc[p] # "off" => proc[p] = "up"
    /\ \A p \in Owning \ exposed : lock = p
    /\ \A p \in Pid : pc[p] = "write" => Owning \subseteq exposed
    /\ exposed = {} => \A p \in Publishing : state.owner = p

LEMMA GuardedInit == Init => Guarded
  BY OwnershipAssumption DEF Init, Guarded, Owning, Publishing, Looping, Unarmed

\* A step that leaves the files, the steps and the processes alone.
LEMMA GuardedFrame ==
  ASSUME Guarded, UNCHANGED <<lock, state, proc, pc, exposed>>
  PROVE  Guarded'
  BY DEF Guarded, Owning, Publishing

\* Every step of the specification keeps it.
LEMMA GuardedStep == Guarded /\ [Next]_vars => Guarded'
<1> SUFFICES ASSUME Guarded, [Next]_vars  PROVE Guarded'
  OBVIOUS
<1> USE OwnershipAssumption
<1>1. CASE UNCHANGED vars
  BY <1>1, GuardedFrame DEF vars, upVars
<1>2. ASSUME NEW p \in Pid, Start(p)  PROVE Guarded'
  BY <1>2 DEF Start, Goto, Guarded, Owning, Publishing, Looping, Unarmed
<1>3. ASSUME NEW p \in Pid, ReadLock(p)  PROVE Guarded'
  <2>1. pc[p] = "read" /\ p \notin Owning
    BY <1>3 DEF ReadLock, Goto, Owning, Looping
  <2>2. ~Taken(p) => Owning \subseteq exposed
    BY <2>1 DEF Taken, Signalable, Guarded, Owning, Looping
  <2>. QED
    BY <1>3, <2>1, <2>2 DEF ReadLock, Goto, Guarded, Owning, Publishing, Looping, Unarmed
<1>4. ASSUME NEW p \in Pid, WriteLock(p)  PROVE Guarded'
  <2>1. /\ pc[p] = "write" /\ pc' = [pc EXCEPT ![p] = "reclaim"] /\ lock' = p
        /\ proc' = proc /\ state' = state /\ Owning \subseteq exposed
    BY <1>4 DEF WriteLock, Goto, Guarded
  <2>2. Owning' = Owning \union {p} /\ Publishing' = Publishing
    BY <2>1 DEF Owning, Publishing, Looping, Guarded
  <2>3. CASE Rivals(p) # {}
    <3>1. Owning' \subseteq exposed' /\ exposed' # {}
      BY <1>4, <2>1, <2>2, <2>3 DEF WriteLock
    <3>. QED
      BY <2>1, <3>1 DEF Guarded, Looping, Unarmed
  <2>4. CASE Rivals(p) = {}
    <3>1. exposed' = (exposed \intersect Owning) \ {p}
      BY <1>4, <2>4 DEF WriteLock
    <3>2. Owning' \ exposed' = {p}
      BY <2>1, <2>2, <3>1
    <3>3. \A q \in Pid : pc'[q] # "write"
      BY <2>1, <2>4 DEF Rivals, Guarded
    <3>4. p \notin Owning
      BY <2>1 DEF Owning, Looping
    <3>5. exposed' = {} => Publishing = {}
      BY <2>1, <3>1, <3>4 DEF Owning, Publishing
    <3>. QED
      BY <2>1, <2>2, <3>2, <3>3, <3>5 DEF Guarded, Looping, Unarmed
  <2>. QED
    BY <2>3, <2>4
<1>5. ASSUME NEW p \in Pid, Reclaim(p)  PROVE Guarded'
  BY <1>5 DEF Reclaim, Goto, Guarded, Owning, Publishing, Looping, Unarmed
<1>6. ASSUME NEW p \in Pid, AwaitOrphans(p)  PROVE Guarded'
  BY <1>6 DEF AwaitOrphans, Goto, Guarded, Owning, Publishing, Looping, Unarmed
<1>7. ASSUME NEW p \in Pid, ForgetState(p) \/ UnlinkState(p)  PROVE Guarded'
  <2>1. /\ pc[p] \in {"forget", "unlink"} /\ p \in Owning
        /\ \E to \in {"forgetLock", "drop"} : pc' = [pc EXCEPT ![p] = to]
        /\ UNCHANGED <<lock, proc, exposed>>
    BY <1>7 DEF ForgetState, UnlinkState, Goto, Owning
  <2>2. Owning' \subseteq Owning
    BY <2>1 DEF Owning, Looping, Guarded
  <2>3. exposed = {} => Publishing' = {}
    <3> SUFFICES ASSUME exposed = {}, NEW q \in Publishing'  PROVE FALSE
      OBVIOUS
    <3>1. q # p
      BY <2>1 DEF Publishing, Looping, Guarded
    <3>2. q \in Owning
      BY <2>1, <3>1 DEF Publishing, Owning, Guarded
    <3>. QED
      BY <2>1, <3>1, <3>2 DEF Guarded
  <2>. QED
    BY <2>1, <2>2, <2>3 DEF Guarded, Looping, Unarmed
<1>8. ASSUME NEW p \in Pid, ForgetLock(p)  PROVE Guarded'
  BY <1>8 DEF ForgetLock, Goto, Guarded, Owning, Publishing, Looping, Unarmed
<1>9. ASSUME NEW p \in Pid, Refuse(p)  PROVE Guarded'
  BY <1>9 DEF Refuse, Goto, Guarded, Owning, Publishing, Looping, Unarmed
<1>10. ASSUME NEW p \in Pid, Publish(p) \/ WriteState(p)  PROVE Guarded'
  <2>1. /\ p \in Owning /\ state'.owner = p
        /\ \E to \in Looping : pc' = [pc EXCEPT ![p] = to]
        /\ UNCHANGED <<lock, proc, exposed>>
    BY <1>10 DEF Publish, WriteState, Snapshot, Goto, Owning, Looping, Guarded
  <2>2. Owning' = Owning /\ Publishing' \subseteq Publishing \union {p}
    BY <2>1 DEF Owning, Publishing, Looping, Guarded
  <2>3. exposed = {} => \A q \in Publishing' : q = p
    BY <2>1, <2>2 DEF Guarded, Publishing, Owning
  <2>4. proc[p] = "up"
    BY <2>1 DEF Guarded, Owning, Looping
  <2>. QED
    BY <2>1, <2>2, <2>3, <2>4 DEF Guarded, Looping
<1>11. ASSUME NEW p \in Pid, FirstTick(p) \/ Arm(p) \/ Shutdown(p) \/ TornDown(p)
       PROVE  Guarded'
  BY <1>11 DEF FirstTick, Arm, Shutdown, TornDown, Goto, Guarded, Owning, Publishing,
     Looping, Unarmed
<1>12. ASSUME NEW p \in Pid, NEW g \in Group,
              Spawn(p, g) \/ Unlist(p, g) \/ Escalate(p, g)
       PROVE  Guarded'
  BY <1>12, GuardedFrame DEF Spawn, Unlist, Escalate, upVars
<1>13. ASSUME NEW p \in Pid, Reap(p)  PROVE Guarded'
  BY <1>13, GuardedFrame DEF Reap
<1>14. ASSUME NEW p \in Pid, DropLock(p)  PROVE Guarded'
  BY <1>14 DEF DropLock, Without, Guarded, Owning, Publishing, Looping, Unarmed
<1>15. ASSUME NEW p \in Pid, Die(p)  PROVE Guarded'
  BY <1>15 DEF Die, Guarded, Owning, Publishing, Looping, Unarmed
<1>16. ASSUME NEW p \in Pid, Stranger(p)  PROVE Guarded'
  BY <1>16 DEF Stranger, Guarded, Owning, Publishing
<1>17. ASSUME NEW g \in Group, Exit(g)  PROVE Guarded'
  BY <1>17, GuardedFrame DEF Exit, upVars
<1>18. CASE DownRead \/ DownCheck
  BY <1>18, GuardedFrame DEF DownRead, DownCheck, upVars
<1>19. CASE DownKill
  <2>1. CASE pc[down.pid] \in Unarmed /\ Die(down.pid)
    <3>1. down.pid \in Pid => Guarded'
      BY <2>1, <1>15
    <3>2. down.pid \notin Pid => pc' = pc /\ proc' = proc
      BY <2>1 DEF Die, Guarded
    <3>. QED
      BY <2>1, <3>1, <3>2, GuardedFrame DEF Die
  <2>2. CASE UNCHANGED <<lock, state, upVars, groupVars, exposed, crashes>>
    BY <2>2, GuardedFrame DEF upVars
  <2>. QED
    BY <1>19, <2>1, <2>2 DEF DownKill
<1>. QED
  BY <1>1, <1>2, <1>3, <1>4, <1>5, <1>6, <1>7, <1>8, <1>9, <1>10, <1>11, <1>12,
     <1>13, <1>14, <1>15, <1>16, <1>17, <1>18, <1>19 DEF Next, Up, Crash

\* Of the processes between taking the lock and removing the state file, at most
\* one is not exposed (lock.rs:46-83), through races, crashes, dead owners and
\* reused ids: a second owner needs two that wrote the lock at the same time, or
\* one whose lock reclaim_orphans removed (reconcile.rs:147).
THEOREM LockExcludesOthers == Spec => []LockExcludes
<1>1. Guarded => LockExcludes
  BY DEF Guarded, LockExcludes
<1>. QED
  BY <1>1, GuardedInit, GuardedStep, PTL DEF Spec

\* While the loop runs, the files name its process, what `down` compares (main.rs)
\* and what the next `up` tests, unless the lock had failed somebody.
THEOREM FilesNameTheOwner == Spec => []OwnerIsPublished
<1>1. Guarded => OwnerIsPublished
  BY DEF Guarded, OwnerIsPublished, Owning, Publishing
<1>. QED
  BY <1>1, GuardedInit, GuardedStep, PTL DEF Spec

-----------------------------------------------------------------------------
(***************************************************************************)
(* Types, and what `down` holds: it signals only a pid it found in use.    *)
(***************************************************************************)

Kept == TypeOK /\ (down.at = "kill" => down.pid \in Pid)

LEMMA KeptInit == Init => Kept
  BY OwnershipAssumption DEF Init, Kept, TypeOK, NoState

\* Signalling groups changes nothing but the signals.
LEMMA SignalledType ==
  ASSUME sig \in [Group -> {"none", "term", "kill"}], NEW gs, NEW s \in {"term", "kill"}
  PROVE  Signalled(gs, s) \in [Group -> {"none", "term", "kill"}]
  BY DEF Signalled

\* A process that dies takes its handles with it.
LEMMA DieKeeps ==
  ASSUME Kept, NEW p \in Pid, Die(p),
         down' \in [at : {"idle", "lock", "kill"}, pid : Pid \union {NoPid}],
         down'.at = "kill" => down'.pid \in Pid,
         asked' \in [Pid -> {"no", "heard", "killed"}], crashes' \in Nat
  PROVE  Kept'
<1> USE OwnershipAssumption
<1>1. held' \in [Pid -> SUBSET Group] /\ found' \in [Pid -> SUBSET Group]
  BY DEF Die, Kept, TypeOK
<1>2. \A q \in Pid : held'[q] # {} => pc'[q] \in Looping \ {"published"}
  BY DEF Die, Kept, TypeOK
<1>. QED
  BY <1>1, <1>2 DEF Die, Kept, TypeOK, groupVars, Looping

LEMMA KeptStep == Kept /\ [Next]_vars => Kept'
<1> SUFFICES ASSUME Kept, [Next]_vars  PROVE Kept'
  OBVIOUS
<1> USE OwnershipAssumption
<1>1. CASE UNCHANGED vars
  BY <1>1 DEF vars, upVars, groupVars, downVars, Kept, TypeOK, Live
<1>2. ASSUME NEW p \in Pid, Start(p)  PROVE Kept'
  BY <1>2 DEF Start, Goto, Kept, TypeOK, groupVars, Looping, Unarmed
<1>3. ASSUME NEW p \in Pid,
             \/ ReadLock(p) \/ WriteLock(p) \/ ForgetLock(p) \/ Refuse(p)
             \/ FirstTick(p) \/ Arm(p)
      PROVE  Kept'
  <2>1. CASE ReadLock(p) \/ Refuse(p) \/ FirstTick(p) \/ Arm(p)
    BY <2>1 DEF ReadLock, Refuse, FirstTick, Arm, Goto, Kept, TypeOK, groupVars, downVars,
       Looping, Unarmed
  <2>2. CASE WriteLock(p) \/ ForgetLock(p)
    <3>1. exposed' \subseteq Pid
      BY <2>2 DEF WriteLock, ForgetLock, Kept, TypeOK
    <3>. QED
      BY <2>2, <3>1 DEF WriteLock, ForgetLock, Goto, Kept, TypeOK, groupVars, downVars,
         Looping, Unarmed
  <2>. QED
    BY <1>3, <2>1, <2>2
<1>4. ASSUME NEW p \in Pid, Reclaim(p)  PROVE Kept'
  <2>1. sig' \in [Group -> {"none", "term", "kill"}]
    BY <1>4, SignalledType DEF Reclaim, Kept, TypeOK
  <2>2. found' \in [Pid -> SUBSET Group]
    BY <1>4 DEF Reclaim, Kept, TypeOK
  <2>. QED
    BY <1>4, <2>1, <2>2 DEF Reclaim, Goto, Kept, TypeOK, downVars, Looping, Unarmed
<1>5. ASSUME NEW p \in Pid, AwaitOrphans(p)  PROVE Kept'
  <2>1. sig' \in [Group -> {"none", "term", "kill"}]
    BY <1>5, SignalledType DEF AwaitOrphans, Kept, TypeOK
  <2>. QED
    BY <1>5, <2>1 DEF AwaitOrphans, Goto, Kept, TypeOK, downVars, Looping, Unarmed
<1>6. ASSUME NEW p \in Pid, ForgetState(p) \/ UnlinkState(p)  PROVE Kept'
  BY <1>6 DEF ForgetState, UnlinkState, NoState, Goto, Kept, TypeOK, groupVars, downVars,
     Looping, Unarmed
<1>7. ASSUME NEW p \in Pid, Publish(p) \/ WriteState(p)  PROVE Kept'
  <2>1. state' \in [owner : Pid \union {NoPid}, groups : SUBSET Group]
    BY <1>7 DEF Publish, WriteState, Snapshot, Kept, TypeOK
  <2>2. /\ pc' \in [Pid -> Looping \union Unarmed \union {"off", "unlink", "drop"}]
        /\ \A q \in Pid : held[q] # {} => pc'[q] \in Looping \ {"published"}
    BY <1>7 DEF Publish, WriteState, Goto, Kept, TypeOK, Looping
  <2>. QED
    BY <1>7, <2>1, <2>2 DEF Publish, WriteState, Kept, TypeOK, groupVars, downVars
<1>8. ASSUME NEW p \in Pid, NEW g \in Group, Spawn(p, g)  PROVE Kept'
  BY <1>8 DEF Spawn, Kept, TypeOK, downVars, Looping
<1>9. ASSUME NEW p \in Pid, Reap(p)  PROVE Kept'
  BY <1>9 DEF Reap, Kept, TypeOK, groupVars, downVars, Looping
<1>10. ASSUME NEW p \in Pid, NEW g \in Group, Unlist(p, g) \/ Escalate(p, g)  PROVE Kept'
  <2>1. sig' \in [Group -> {"none", "term", "kill"}]
    BY <1>10, SignalledType DEF Unlist, Escalate, Kept, TypeOK
  <2>. QED
    BY <1>10, <2>1 DEF Unlist, Escalate, Kept, TypeOK, upVars, downVars
<1>11. ASSUME NEW p \in Pid, Shutdown(p)  PROVE Kept'
  <2>1. sig' \in [Group -> {"none", "term", "kill"}]
    BY <1>11, SignalledType DEF Shutdown, Kept, TypeOK
  <2>. QED
    BY <1>11, <2>1 DEF Shutdown, Goto, Kept, TypeOK, downVars, Looping
<1>12. ASSUME NEW p \in Pid, TornDown(p)  PROVE Kept'
  BY <1>12 DEF TornDown, Goto, Kept, TypeOK, groupVars, downVars, Looping
<1>13. ASSUME NEW p \in Pid, Crash(p)  PROVE Kept'
  BY <1>13, DieKeeps DEF Crash, downVars, Kept, TypeOK
<1>14. ASSUME NEW p \in Pid, Stranger(p)  PROVE Kept'
  BY <1>14 DEF Stranger, Kept, TypeOK, groupVars, downVars
<1>15. ASSUME NEW g \in Group, Exit(g)  PROVE Kept'
  BY <1>15 DEF Exit, Live, Kept, TypeOK, upVars, downVars
<1>16. CASE DownRead \/ DownCheck
  BY <1>16 DEF DownRead, DownCheck, Signalable, Kept, TypeOK, upVars, groupVars
<1>17. CASE DownKill
  <2>1. /\ down.pid \in Pid /\ down' = [at |-> "idle", pid |-> NoPid]
        /\ asked' \in [Pid -> {"no", "heard", "killed"}]
    BY <1>17 DEF DownKill, Kept, TypeOK
  <2>2. CASE Die(down.pid) /\ UNCHANGED crashes
    <3>1. crashes' \in Nat
      BY <2>2 DEF Kept, TypeOK
    <3>. QED
      BY <2>1, <2>2, <3>1, DieKeeps
  <2>3. CASE UNCHANGED <<lock, state, upVars, groupVars, exposed, crashes>>
    BY <2>1, <2>3 DEF Kept, TypeOK, upVars, groupVars
  <2>. QED
    BY <1>17, <2>2, <2>3 DEF DownKill
<1>18. ASSUME NEW p \in Pid, DropLock(p)  PROVE Kept'
  BY <1>18 DEF DropLock, Without, Kept, TypeOK, groupVars, Looping
<1>. QED
  BY <1>1, <1>2, <1>3, <1>4, <1>5, <1>6, <1>7, <1>8, <1>9, <1>10, <1>11, <1>12, <1>13,
     <1>14, <1>15, <1>16, <1>17, <1>18 DEF Next, Up

\* The files, processes and groups keep their shape, and only the loop and the
\* teardown of an `up` have handles: teardown never ends holding one
\* (reconcile.rs:876-918), with any races, crashes and reused process ids.
THEOREM OwnershipTypes == Spec => []TypeOK
<1>1. Kept => TypeOK
  BY DEF Kept
<1>. QED
  BY <1>1, KeptInit, KeptStep, PTL DEF Spec

-----------------------------------------------------------------------------
(***************************************************************************)
(* That crashes lose no record: when `up` processes follow one another and *)
(* process ids are not reused, for any number of crashes.                  *)
(***************************************************************************)

\* Nobody has to remember the group any more.
Settled(g) == ~Live(g) \/ sig[g] = "kill"

\* One process at a time is an `up`, and its steps are those of a live one.
Successive ==
    /\ \A p \in Pid : proc[p] \in {"unused", "up", "dead"}
    /\ \A p \in Pid : pc[p] # "off" => proc[p] = "up"
    /\ \A p, q \in Pid : proc[p] = "up" /\ proc[q] = "up" => p = q

\* What the live `up` knows of the recorded groups at each of its steps: an `up`
\* that has not published yet is not the recorded owner; reclaim_orphans knows
\* all recorded groups, and has killed them when it forgets them; the loop has a
\* handle on each recorded group that lives.
Remembered ==
    \A p \in Pid :
        /\ proc[p] = "unused" \/ pc[p] \in Unarmed \ Looping => state.owner # p
        /\ pc[p] = "wait" => found[p] = state.groups
        /\ pc[p] = "forget" => \A g \in state.groups : Settled(g)
        /\ pc[p] \in {"forgetLock", "verify"} => state.groups = {}
        /\ pc[p] \in Looping =>
               \A g \in state.groups : Settled(g) \/ g \in held[p]
        /\ pc[p] = "unlink" => \A g \in state.groups : Settled(g)

Lasting == Kept /\ Successive /\ Remembered

LEMMA LastingInit == Init => Lasting
  BY OwnershipAssumption, KeptInit DEF Lasting, Successive, Remembered, Init, NoState

\* A step of the live `up` alone: every other process is off, before and after.
LEMMA SuccessiveStep ==
  ASSUME Lasting, NEW p \in Pid, pc[p] # "off", \A q \in Pid \ {p} : pc'[q] = pc[q],
         proc' = proc
  PROVE  Successive' /\ \A q \in Pid \ {p} : pc'[q] = "off"
  BY DEF Lasting, Kept, TypeOK, Successive

\* What the live `up` remembers is all there is to show of its step.
LEMMA RememberedBy ==
  ASSUME NEW p \in Pid, Lasting, proc' = proc,
         \A q \in Pid \ {p} : pc'[q] = "off", proc[p] = "up",
         state'.owner \in {state.owner, p, NoPid},
         pc'[p] \in Unarmed \ Looping => state'.owner # p,
         pc'[p] = "wait" => found'[p] = state'.groups,
         pc'[p] = "forget" => \A g \in state'.groups : Settled(g)',
         pc'[p] \in {"forgetLock", "verify"} => state'.groups = {},
         pc'[p] \in Looping =>
               \A g \in state'.groups : Settled(g)' \/ g \in held'[p],
         pc'[p] = "unlink" => \A g \in state'.groups : Settled(g)'
  PROVE  Remembered'
<1> USE OwnershipAssumption
<1>1. ASSUME NEW q \in Pid \ {p}  PROVE proc[q] = "unused" => state'.owner # q
  BY <1>1 DEF Lasting, Remembered
<1>2. "off" \notin Unarmed \union Looping
  BY DEF Unarmed, Looping
<1>. QED
  BY <1>1, <1>2 DEF Remembered

LEMMA LastingStep ==
  ASSUME Alone, ~Reuse
  PROVE  Lasting /\ [Next]_vars => Lasting'
<1> SUFFICES ASSUME Lasting, [Next]_vars  PROVE Successive' /\ Remembered'
  BY KeptStep DEF Lasting
<1> USE OwnershipAssumption DEF Lasting
<1>1. CASE UNCHANGED vars
  BY <1>1 DEF vars, upVars, groupVars, Successive, Remembered, Settled, Live
<1>2. ASSUME NEW p \in Pid, Start(p)  PROVE Successive' /\ Remembered'
  BY <1>2 DEF Start, Goto, Kept, TypeOK, Successive, Remembered, Unarmed, Looping, groupVars
<1>3. ASSUME NEW p \in Pid, ReadLock(p) \/ WriteLock(p)  PROVE Successive' /\ Remembered'
  BY <1>3 DEF ReadLock, WriteLock, Goto, Kept, TypeOK, Successive, Remembered, Unarmed, Looping,
     groupVars
<1>4. ASSUME NEW p \in Pid, Reclaim(p)  PROVE Successive' /\ Remembered'
  <2>1. pc[p] = "reclaim" /\ proc[p] = "up" /\ state.owner # p
    BY <1>4 DEF Reclaim, Goto, Successive, Remembered, Unarmed, Looping
  <2>2. ~Abandoned => state.groups = {}
    BY <2>1 DEF Abandoned, IsPidAlive, NoState, Kept, TypeOK, Successive
  <2>3. Abandoned => found'[p] = state.groups
    BY <1>4 DEF Reclaim, Kept, TypeOK
  <2>a. /\ pc[p] # "off" /\ pc'[p] = IF Abandoned THEN "wait" ELSE "verify"
        /\ (\A q \in Pid \ {p} : pc'[q] = pc[q]) /\ proc' = proc
    BY <1>4, <2>1 DEF Reclaim, Goto, Kept, TypeOK
  <2>4. /\ Successive' /\ \A q \in Pid \ {p} : pc'[q] = "off"
        /\ pc'[p] = IF Abandoned THEN "wait" ELSE "verify"
    BY <2>a, SuccessiveStep
  <2>. QED
    BY <1>4, <2>1, <2>2, <2>3, <2>4, RememberedBy DEF Reclaim, Looping
<1>5. ASSUME NEW p \in Pid, AwaitOrphans(p)  PROVE Successive' /\ Remembered'
  <2>1. pc[p] = "wait" /\ proc[p] = "up" /\ state.owner # p /\ found[p] = state.groups
    BY <1>5 DEF AwaitOrphans, Goto, Successive, Remembered, Unarmed, Looping
  <2>2. \A g \in state.groups : Settled(g)'
    BY <1>5, <2>1 DEF AwaitOrphans, Stragglers, Signalled, Settled, Live, Kept, TypeOK
  <2>a. /\ pc[p] # "off" /\ pc'[p] = "forget"
        /\ (\A q \in Pid \ {p} : pc'[q] = pc[q]) /\ proc' = proc
    BY <1>5, <2>1 DEF AwaitOrphans, Goto, Kept, TypeOK
  <2>3. Successive' /\ (\A q \in Pid \ {p} : pc'[q] = "off") /\ pc'[p] = "forget"
    BY <2>a, SuccessiveStep
  <2>. QED
    BY <1>5, <2>1, <2>2, <2>3, RememberedBy DEF AwaitOrphans
<1>6. ASSUME NEW p \in Pid, ForgetState(p) \/ UnlinkState(p)  PROVE Successive' /\ Remembered'
  BY <1>6 DEF ForgetState, UnlinkState, Goto, NoState, Kept, TypeOK, Successive, Remembered,
     Unarmed, groupVars
<1>7. ASSUME NEW p \in Pid, ForgetLock(p) \/ Refuse(p)  PROVE Successive' /\ Remembered'
  BY <1>7 DEF ForgetLock, Refuse, Goto, Kept, TypeOK, Successive, Remembered, Unarmed, Looping,
     groupVars
<1>8. ASSUME NEW p \in Pid, Publish(p)  PROVE Successive' /\ Remembered'
  <2>1. pc[p] = "verify" /\ proc[p] = "up"
    BY <1>8 DEF Publish, Goto, Successive
  <2>a. /\ pc[p] # "off" /\ pc'[p] = "published"
        /\ (\A q \in Pid \ {p} : pc'[q] = pc[q]) /\ proc' = proc
    BY <1>8, <2>1 DEF Publish, Goto, Kept, TypeOK
  <2>2. Successive' /\ (\A q \in Pid \ {p} : pc'[q] = "off") /\ pc'[p] = "published"
    BY <2>a, SuccessiveStep
  <2>3. state'.owner = p /\ state'.groups \subseteq held'[p]
    BY <1>8 DEF Publish, Snapshot
  <2>. QED
    BY <1>8, <2>1, <2>2, <2>3, RememberedBy DEF Publish, Unarmed, Looping
<1>9. ASSUME NEW p \in Pid, FirstTick(p) \/ Arm(p)  PROVE Successive' /\ Remembered'
  BY <1>9 DEF FirstTick, Arm, Goto, Kept, TypeOK, Successive, Remembered, Unarmed, Looping, groupVars,
     Settled, Live
<1>10. ASSUME NEW p \in Pid, NEW g \in Group, Spawn(p, g)  PROVE Successive' /\ Remembered'
  <2>1. Successive'
    BY <1>10 DEF Spawn, Successive
  <2>2. \A h \in state.groups : Settled(h) \/ h \in held[p]
    BY <1>10 DEF Spawn, Remembered, Looping
  <2>3. \A h \in state.groups : Settled(h)' \/ h \in held'[p]
    BY <1>10, <2>2 DEF Spawn, Kept, TypeOK, Settled, Live
  <2>4. \A q \in Pid \ {p} : pc[q] = "off"
    BY <1>10 DEF Spawn, Successive
  <2>. QED
    BY <1>10, <2>1, <2>3, <2>4 DEF Spawn, Remembered, Successive, Unarmed, Looping
<1>11. ASSUME NEW p \in Pid, Reap(p)  PROVE Successive' /\ Remembered'
  BY <1>11 DEF Reap, Kept, TypeOK, Successive, Remembered, Settled, Live, groupVars
<1>12. ASSUME NEW p \in Pid, NEW g \in Group, Unlist(p, g) \/ Escalate(p, g)
       PROVE  Successive' /\ Remembered'
  <2>1. \A h \in Group : Settled(h) => Settled(h)'
    BY <1>12 DEF Unlist, Escalate, Signalled, Settled, Live
  <2>. QED
    BY <1>12, <2>1 DEF Unlist, Escalate, Kept, TypeOK, Successive, Remembered, upVars
<1>13. ASSUME NEW p \in Pid, WriteState(p)  PROVE Successive' /\ Remembered'
  <2>1. /\ pc[p] \in {"first", "run"} /\ proc[p] = "up" /\ proc' = proc /\ held' = held
        /\ pc'[p] \in {"wrote", "run"} /\ \A q \in Pid \ {p} : pc'[q] = pc[q]
    BY <1>13 DEF WriteState, Successive, Kept, TypeOK
  <2>2. Successive' /\ \A q \in Pid \ {p} : pc'[q] = "off"
    BY <2>1, SuccessiveStep
  <2>3. state'.owner = p /\ state'.groups \subseteq held'[p]
    BY <1>13, <2>1 DEF WriteState, Snapshot
  <2>. QED
    BY <2>1, <2>2, <2>3, RememberedBy DEF Successive, Unarmed, Looping
<1>14. ASSUME NEW p \in Pid, Shutdown(p)  PROVE Successive' /\ Remembered'
  <2>1. \A h \in Group : Settled(h) => Settled(h)'
    BY <1>14 DEF Shutdown, Signalled, Settled, Live
  <2>. QED
    BY <1>14, <2>1 DEF Shutdown, Goto, Kept, TypeOK, Successive, Remembered, Unarmed, Looping
<1>15. ASSUME NEW p \in Pid, TornDown(p)  PROVE Successive' /\ Remembered'
  BY <1>15 DEF TornDown, Goto, Kept, TypeOK, Successive, Remembered, Unarmed, Looping, Settled, Live,
     groupVars
<1>16. ASSUME NEW p \in Pid, DropLock(p)  PROVE Successive' /\ Remembered'
  BY <1>16 DEF DropLock, Goto, Kept, TypeOK, Successive, Remembered, Unarmed, Looping, groupVars
<1>17. ASSUME NEW p \in Pid, Die(p)  PROVE Successive' /\ Remembered'
  BY <1>17 DEF Die, Kept, TypeOK, Successive, Remembered, Unarmed, Looping
<1>18. \A p \in Pid : ~Stranger(p)
  BY DEF Stranger
<1>19. ASSUME NEW g \in Group, Exit(g)  PROVE Successive' /\ Remembered'
  BY <1>19 DEF Exit, Kept, TypeOK, Successive, Remembered, Settled, Live, upVars
<1>20. CASE DownRead \/ DownCheck
  BY <1>20 DEF DownRead, DownCheck, Successive, Remembered, Settled, Live, upVars, groupVars
<1>21. CASE DownKill
  <2>1. down.pid \in Pid
    BY <1>21 DEF DownKill, Kept
  <2>2. CASE Die(down.pid)
    BY <2>1, <2>2, <1>17
  <2>3. CASE UNCHANGED <<lock, state, upVars, groupVars, exposed, crashes>>
    BY <2>3 DEF Successive, Remembered, Settled, Live, upVars, groupVars
  <2>. QED
    BY <1>21, <2>2, <2>3 DEF DownKill
<1>. QED
  BY <1>1, <1>2, <1>3, <1>4, <1>5, <1>6, <1>7, <1>8, <1>9, <1>10, <1>11, <1>12, <1>13,
     <1>14, <1>15, <1>16, <1>17, <1>18, <1>19, <1>20, <1>21 DEF Next, Up, Crash

\* The steps that leave the state file alone forget nothing; the four that write
\* it forget only what is settled or held.
LEMMA ForgetsSettled ==
  ASSUME Lasting, [Next]_vars
  PROVE  \A g \in state.groups \ state'.groups :
            Settled(g)' \/ \E p \in Pid : g \in held'[p]
<1> USE DEF Lasting
<1>1. CASE state' = state
  BY <1>1
<1>2. ASSUME NEW p \in Pid, ForgetState(p) \/ UnlinkState(p)
      PROVE  \A g \in state.groups : Settled(g)'
  BY <1>2 DEF ForgetState, UnlinkState, Goto, Remembered, Settled, Live, groupVars
<1>3. ASSUME NEW p \in Pid, Publish(p)  PROVE state.groups = {}
  BY <1>3 DEF Publish, Goto, Remembered
<1>4. ASSUME NEW p \in Pid, WriteState(p)
      PROVE  \A g \in state.groups : Settled(g)' \/ g \in held'[p]
  BY <1>4 DEF WriteState, Remembered, Settled, Live, groupVars, Looping
<1>. QED
  BY <1>1, <1>2, <1>3, <1>4 DEF Next, Up, Start, ReadLock, WriteLock, Reclaim, AwaitOrphans,
     ForgetLock, Refuse, FirstTick, Arm, Reap, TornDown, DropLock, Spawn, Unlist, Escalate, Shutdown,
     Crash, Die, Stranger, Exit, DownRead, DownCheck, DownKill, vars

\* Through any number of SIGKILLs of `up`, at any of its steps (reconcile.rs:79-
\* 149, 965-976), the state file remembers every child that nobody has stopped,
\* if each `up` starts after the last one's end and no process id is reused.
THEOREM RecordsLast ==
  ASSUME Alone, ~Reuse
  PROVE  Spec => RecordIsKept
<1>1. Lasting /\ [Next]_vars =>
        [\A g \in state.groups \ state'.groups :
            \/ ~Live(g)' \/ sig'[g] = "kill"
            \/ \E p \in Pid : g \in held'[p]]_vars
  BY ForgetsSettled DEF Settled
<1>. QED
  BY <1>1, LastingInit, LastingStep, PTL DEF Spec, RecordIsKept

=============================================================================
