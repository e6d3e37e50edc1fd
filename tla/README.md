# A verification development for artzain

artzain supervises prebuilt binaries on one machine the way a small cluster
manager would: `artzain up` reads `artzain.toml`, starts `replicas` children of
each app, probes them, restarts them with a backoff, applies edits of the file,
and stops everything on a signal. This directory holds TLA+ models of that
program, TLC runs over small instances, and TLAPS proofs for every instance.

Paths such as `reconcile.rs` mean `crates/artzain-core/src/reconcile.rs`; `main.rs` and
`logs.rs` are in `crates/artzain/src/`. `PROJECT.json` names, for each definition of a
model, the lines it stands for.

## 1. Inventory

| Component | State | Operations | What makes it correct |
|---|---|---|---|
| Control loop (`reconcile.rs`) | `Reconciler`: manifest, selection, instances, `slot_ports`, `checks_ok`, mtimes | the handlers of one tick, `teardown` | it settles on one serving child per wanted slot; a stop is signalled, final and escalates; what failing checks took down comes back; edits are applied, with `max_surge` without losing service |
| Timers of an instance (`reconcile.rs`) | `Instance`: restarts, backoff, deadlines, counts | `reap`, `begin_stop`, `spawn`, `probe` | each wait is as long as promised, and none is inherited from an earlier child |
| Manifest (`manifest.rs`) | the parsed file | `load`, `validate`, `apps_ordered`; `select_apps` | what it accepts, the loop can run: distinct ports, known dependencies |
| Manifest watch (`maybe_reload`) | `manifest_mtime`, `pending_mtime` | once per tick | a half-written file is never applied; the last good save is |
| Checks (`verify_checks`, `reverify_checks`) | `checks_ok` | at start, then every 10 s | dependents do not run while a check is known to fail |
| Probes (`probe.rs`) | none | `http_once`, `tcp_once` | a Ready instance serves |
| Child processes (`process.rs`) | a handle: child, process group | `spawn`, `terminate`, `kill`, drop (`kill_on_drop`) | no child is lost or killed while counted on |
| Lock (`lock.rs`) | `.artzain/lock` | `acquire`, `read`, drop | one `up` per manifest; it names the one that runs |
| State file (`state.rs`) | `.artzain/state.json` | `snapshot`, `write_state` | a successor can find the children of a dead `up` |
| Private files (`paths.rs`) | a file and its temporary sibling | `write_private_file` | readers see whole documents, through crashes and power failures |
| Orphan reclamation (`reclaim_orphans`) | reads and removes both files | at start | nothing a dead `up` started stays behind |
| `down` (`main.rs`) | none | read, check, SIGTERM | it stops the owner with its children, and nobody else |
| Logs (`process.rs`, `logs.rs`) | log files, open files, sizes | stream, rotate, follow | lines stay in order, files stay within their cap, a follower does not go back in a file |
| `plan` (`lib.rs`) | none | load, select, order, print | it shows what `up` would do |
| `status`, systemd units, fixture | none | print, generate | - |

How they interact. `up` takes the lock, reclaims, verifies the checks, writes
the state file and enters the loop; every 500 ms it calls the handlers in a fixed
order in one thread. It awaits in `reverify_checks`, in `probe` and between
ticks, and only there a signal can end it. Children run beside it: they exit, bind
ports and ignore signals at any moment, and the loop learns of it at the next
`reap` or probe. A writer task per child takes its lines and rotates the files of
its slot. The operator saves the file at any moment. `down`, a second `up` and
`logs --follow` are other processes that share only files and the kernel's table
of processes with it.

What is hard here: a child's exit between any two handlers; two instances of one
slot during a roll, of which either may die first; probes that go by port and
not by child; deadlines that race answers, kept in fields that outlive the child
they were set for; SIGKILL of `up` at any point, and a process id that comes back
as somebody else's; files that are read, tested and then written; rotations of
the same files by two tasks; sums of ports that wrap. `PROJECT.json` lists each
under `hazards`, with its line.

## 2. Plan

| Modules | Models | Proofs | Builds on |
|---|---|---|---|
| `Reconciler`, `MCReconciler` | the loop, its children, the clock, the operator | `ReconcilerProofs` | `ManifestFile` |
| `Cluster`, `ReconcilerScale`, `MCScale` | what the loop promises of its slots, and the loop under edits that only scale | `ReconcilerScaleProofs`, `ClusterProofs` | `Reconciler` |
| `InstanceTimers` | the waits of one instance, with clocks | `TimerProofs` | - |
| `Ownership`, `MCOwnership` | lock, state file, reclamation, `down` | `OwnershipProofs` | - |
| `Register`, `PrivateFile` | what the lock and the state file are taken for, and how they are written | `FileProofs` | - |
| `LogRotation`, `MCLog` | the writers of one slot and a follower | `LogProofs` | - |
| `ManifestFile` | what a manifest is and which are loadable, by definition | - | - |
| `Plan`, `MCPlan` | the code that computes these definitions, and `plan` | `PlanProofs` | `ManifestFile` |

Two pairs are an abstract specification and its implementation: `ReconcilerScale`
implements `Cluster`, `PrivateFile` implements `Register`. `ManifestFile` joins two
modules in another way: `Reconciler` takes loadability and selection from it, `Plan`
shows that `validate` and `select_apps` compute them. `Ownership` takes the write of a
file for one step, which `PrivateFile` justifies. `Reconciler` leaves the length of
a wait open, and `InstanceTimers` fills it in for one instance.

What is left to do: groups of more than one process, and group ids that are
reused, in `Ownership`; a promise for `--only` under edits, once the documents make
one; `InstanceTimers` for two instances whose probes delay each other, instead
of a bound on the delay.

## 3. The models

### Reconciler

One tick is a chain of steps held in `pc`, one action per handler:

| Action | Code | Action | Code |
|---|---|---|---|
| `MaybeReload` | `maybe_reload`, `only_names` | `SpawnMissing` | `spawn_missing`, `spawn` |
| `ReverifyChecks` | `reverify_checks` | `RetireStaleSurplus` | `retire_stale_surplus` |
| `Reap` | `reap` | `Probe`, `EndTick` | `probe`, per instance |
| `TerminateUndesired` | `terminate_undesired` | `Shutdown` | the signal branch of `up`, first half of `teardown` |
| `StopCheckBlocked` | `stop_check_blocked` | `TeardownPoll` | one poll of `teardown` |
| `RollStale` | `roll_stale`, `surge_port_for` | | |

Between any two of them a child may `Boot` (bind its port, or exit because it is
taken), `Crash`, `ObeySigterm` or be `Killed`; an instance's deadline may pass
(`Elapse`); the operator may `Save` or `Delete` the file; a dropped child's port is
`Released`. With `LateSave` the file may have been saved again after `up` loaded it and
before `Reconciler::new` looked at its mtime.

An instance is the struct of the code with its child: `phase`, `port`, `hash`,
`respawn` (`restart_after_stop`), `everReady`, `liveFails`, the process, the strongest
signal it was sent, and `timer`. The struct's deadlines become one timer because
an instance waits for one at a time: `backoff_until` without a child,
`ready_deadline` while Starting, `kill_deadline` while Terminating. Whether a periodic
probe is due is a free choice. The list of instances is a function on ids `<<slot,
generation>>`; the code uses the list's order only to choose one stale instance per
app to roll, and that choice is free here. A spec hash is the record of what it
hashes. Ports are `0 .. PortSpace - 1` with the code's u16 addition. `doomed` holds the
ports of children whose handle was dropped and who are dying of `kill_on_drop`: `reap`
and `terminate_undesired` drop by slot, so this happens to an instance that shares
its slot.

A probe is answered by whoever has bound the port, which is what an HTTP request
does: a replacement that has not bound its port yet is Ready if its predecessor
answers. Another app's server may answer either way. Writing the state file is
not in this module, since the loop never reads it.

### Cluster and ReconcilerScale

`Cluster` knows slots and nothing else. A slot is empty, waiting (for a backoff, a
dependency, a check), or has a child that is live, stopping or dead and not yet
noticed. The allowed moves are few: a child is launched only in a slot that is
wanted and has none; it is asked to stop once; it exits; only then is the slot
refilled or emptied. A handler moves many slots at once. `ReconcilerScale` is
`Reconciler` under `SameApps` and `DisjointPorts`, manifests that differ in which apps and
how many replicas they have; `CellAt` reads a slot's state off its instance.

### InstanceTimers

One instance, its child, and a tick that is a chain of awaits: the checks (up to
`Others`), the probes of the other instances (up to `Others`), its own two probes (up
to `ProbeTimeout` each) and the sleep. Time passes in units, one `Pass` at a time, and
only while the loop awaits; a deadline is the time left until it. `ReverifyChecks`,
`Reap`, `StopOrRoll`, `SpawnMissing`, `Probe`, `ProbeReady` and `ProbeLive` are the handlers as
one instance sees them; `StopOrRoll` is `stop_check_blocked` and, for an edit, `roll_stale`.
The child boots, hangs for good, exits or is killed when it likes. `seen` is the
history that an observer with a clock would keep (time since the last launch,
stop or failure; failures in a row; answers and misses of the child at hand), and
the properties compare the program's counters with it.

### Ownership

Every `up` is a process with a `pc`: `ReadLock`, `WriteLock` (the two halves of
`Lock::acquire`), `Reclaim`, `AwaitOrphans`, `ForgetState`, `ForgetLock` (`reclaim_orphans`),
`Refuse` or `Publish` (the checks, the first `write_state`). Then `select!` polls the loop
and `shutdown_signal` in either order: `Arm` is the first poll of the latter, which
installs the signal handlers, and it may come before the loop's first tick or after
as much of it as runs to its first await (`FirstTick`, with `Spawn` and `WriteState`). From
`Arm` on there are `Spawn`, `Reap`, `Unlist`, `WriteState`, `Escalate` in any order, `Shutdown`,
`TornDown`, `UnlinkState`, `DropLock`. `Crash` kills it at any step, and no destructor runs.
`DownRead`, `DownCheck` and `DownKill` are the three steps of `down`; a SIGTERM before `Arm`
kills, and children of a first tick live on. `Stranger` gives a dead process's id to
an unrelated process: of the same user, or of another one, whom `lock.rs` and
`main.rs` read as dead and `process.rs` as alive. A process group is one process here,
and group ids are not reused. An app that left the manifest does not come back
(`unlisted` only grows).

The code has two holes through which two `up` come to run at once: the test and the
write of the lock are two steps, and `reclaim_orphans` removes the lock of its own
process. The history variable `exposed` names the processes that went through one:
those that wrote the lock while another had passed the test, too, and those whose
lock reclamation took away. When the lock next changes hands by the rules, those
of them that are gone are forgotten. `LockExcludes` and `OwnerIsPublished` are stated of the
rest, so that they say: there is no third hole.

`Racing`, `Alone` and `Reuse` say what the environment may do: start an `up` while
another is between its read and its write of the lock, start one beside a live
one, reuse process ids.

### PrivateFile and Register

`write_private_file` call by call: `Open` (create and truncate the temporary file of
this pid), `Write`, `Sync`, `Rename`, `SyncDir` or `DirNotSynced` (best effort), and on a
failure of any of them `Undo` or `UndoFails`. A file has what is read of it and what of
it is on the disk; the path has what processes see and what the disk has. `FlushFile`
and `FlushDir` are the kernel's own writing back, `PowerLoss` ends every process and
leaves what the disk has, where a file that was not synced may be torn. `Register` is
a cell that is set and cleared in one step and may fall back to what it durably
held.

### LogRotation

The writers of one slot: a restarted child starts one while that of the last child
still drains its pipes, and a roll has two for long. Each call of `log_writer` and
`rotate_log` is a step that may fail: `Receive` finds the file full or not, then
`Truncate` (for `log_keep = 1`), or `RemoveOldest`, `Look` and `Move` for each backup, `Current`;
then `Reopen`, and `Write`. Names lead to inodes, and a writer appends to the inode it
has open whatever its name is by now. A line has size one. The follower lists the names
that exist when it starts, backups included (`List`), and goes round them (`MoveOn`),
with a position and a size for each. It takes the size (`Poll`), opens the file
that then has the name (`ReadFile`) and takes the size again (`Resize`). `printed` has
each line with the name it was read under.

### ManifestFile and Plan

`ManifestFile` defines manifests, `Loadable` and `SelectApps` as one would state them.
`Plan` is the code: a document is a list of app and check entries in which anything may
be wrong, `Validate` does the sums of `validate` modulo 2^16 and 2^32 (`PortSpace` and
`WordSpace`), `Select`, `Pop` and `SelectEnd` are the work list of `select_apps`, `Root`, `Dep` and
`Return` the recursive `visit` of `apps_ordered` with its stack in the open, `Show` a
turn of the loop that prints. Where the code walks a list whose order cannot matter, any element may
come next.

## 4. Runs

| Run | Specification | Properties | What it shows |
|---|---|---|---|
| `scale` | `FairSpec` | `OneInstancePerSlot`, `PortsAreExclusive`, `Converges`, `ImplementsCluster` | scaling never fills a slot twice nor launches onto a held port, settles, and moves slots as `Cluster` allows |
| `pair` | `FairSpec` | `TypeOK`, `TickSettles`, `DependentsRecover` | dependencies, a flapping check, a crash, removal of an app and of the file, a late first mtime |
| `edit` | `FairSpec` | `SurgeKeepsService`, `EditsAreApplied` | rolls of one replica, without surge and with a first one |
| `stops` | `FairSpec` | `PhaseMatchesHandle`, `StopIsSignalled`, `StopIsFinal`, `StopEnds`, `ShutdownEnds` | stops of every kind, spawn errors, and teardown |
| `timers` | `FairSpec` | `BackoffIsExact`, `GraceIsGiven`, `KilledInTime`, `ReadyInTime`, `StopsAreEarned`, `HungEnds` | each wait is that of the child at hand, and is kept to the tick |
| `owner` | `FairSpec` | `TypeOK`, `LockExcludes`, `OwnerIsPublished`, `DownEnds` | the lock and `down` through races, a SIGKILL, early signals and reused ids |
| `restart` | `Spec` | `RecordIsKept` | crashes of `up`, also within reclamation |
| `files` | `Spec` | `Durable`, `LitterByFaults`, `ImplementsRegister` | whole documents through failing calls, SIGKILLs and power failures |
| `logs` | `Spec` | `TypeOK`, `LinesInOrder`, `CapHolds`, `CapPerWriter`, `RecentLinesKept`, `FollowsInOrder` | rotation with two writers, a follower and a failing call |
| `plan` | `FairSpec` | `AcceptsTheLoadable`, `SelectsTheClosure`, `StartOrder`, `CyclesAreFound`, `PortsShown`, `PlanEnds` | the code of `validate`, `select_apps`, `apps_ordered` and `plan` against their definitions |

The types of `InstanceTimers`, `PrivateFile` and `Plan` are proved and not run.

Two more runs look for what a comment or a document says and the code does not
do; TLC finds each one violated, and `findings` in `PROJECT.json` quotes the text.

| Run | Property | What happens |
|---|---|---|
| `roll_budget` | `RollsOneAtATime` | replacements are Ready by the answers of the children they replace, and both replicas go |
| `lock_removed` | `OneUp` | `reclaim_orphans` removes the lock of the `up` that runs it |

`RollsOneAtATime` is checked with an operator who saves only while the cluster is
settled (`PatientSpec`), so that one edit alone is to blame. `lock_removed` has one crash
and no race, so that the removal alone is to blame.

### Other places where code and text differ

The models contain these too, and no run is spent on them. Where a bound is named,
the property fails if a run is given that bound.

Of the loop:

- A stale instance in backoff that `roll_stale` makes Terminating (`reconcile.rs:559`)
  has no child whose exit would end that, and stays so for good; `reconcile.rs:1002`
  takes every stopped instance to have one.
- A slot on its surge port is given that port again by `surge_port_for`
  (`reconcile.rs:983`), the replacement cannot bind, and the edit is never applied.
  `EditsAreApplied` and `SurgeKeepsService` fail with two edits of a one-replica app that has
  `max_surge = 1` from the start (`MaxCrashes = 0`, `MaxGen = 4`). Two replicas that surge
  at the same time get one port between them.
- A stale instance in backoff is respawned with the hash in force
  (`reconcile.rs:785`) beside its replacement, and the slot has two instances that
  are both what the manifest asks for, where `README.md` has one on each port. With
  two replicas it takes two crashes and one edit, with one replica three versions or
  a surge. That a slot has one instance is stated only of scaling.
- The tick of an edit starts a replacement on the old port even with `max_surge`,
  where `README.md:111` promises an upgrade without downtime.
- `teardown` signals all children in one loop (`reconcile.rs:885`): dependents are
  signalled first, but need not exit first.
- A save between the load and the first look at the mtime (`reconcile.rs:276`) is never
  applied, unless another one follows.
- `up` accepts a manifest whose dependencies form a cycle, since only `plan` and
  `teardown` call `apps_ordered` (`manifest.rs:438`); its apps wait for each other.

Of the files and processes:

- A child spawned since the last `write_state`, or of an app that left the
  manifest, is unknown to the next `up` (`reconcile.rs:764` and `:939`), where the
  specification of the hardening (`specs/001-production-hardening/spec.md:32`) wants every orphan reclaimed.
- A SIGTERM between the first `write_state` (`reconcile.rs:170`) and the first poll of
  `shutdown_signal` (`:178`) kills `up` without a teardown. `select!` picks the future it
  polls first at random, so a first tick may have launched children by then. They
  and both files are left, where `lib.rs:81-84` catches the signals so that no child is
  orphaned, and `main.rs:287` lets `down` rely on "its own teardown stops every child
  group". `DownEnds` fails if it is asked of every signalled `up`, and not only of one
  that hears it.
- Two `up` that race may both take the lock. `down` is refused after a restart that
  reclaimed, as the lock is gone, and it signals a stranger who got the pid of a
  crashed `up`.

Of the logs:

- A child that drains its pipes and the one that replaced it each count their own
  lines, so a file may outgrow `log_max_bytes` (`process.rs:256`, `deployment.md:163`);
  `CapPerWriter` says what still holds. After a failed call, and during a rotation,
  fewer than `log_keep` files are kept (`README.md:113`).
- `logs --follow` begins at size zero under each name it listed, backups included
  (`logs.rs:57-59`). So it prints again what the tail showed, and after a rotation it
  prints lines under a backup's name that it has printed under a newer one: they
  come twice, and after later ones, where `logs.rs:48` has "any new lines as they
  appear". `FollowsInOrder` says what still holds. A replacement that has grown past the
  old size by the next look is not read from its start. The command ends with an
  error when a file goes away between the look and the open, where `logs.rs:50` says
  that it runs until it is signalled.

Of `plan`: the last port of a window that ends at 65535 is computed through 65536
(`lib.rs:52`), which wraps back in a release build and panics in a debug build.

### Bounds, and why they are enough

- `MaxEdits`, `MaxCrashes` bound saves and unasked exits (in `Ownership`: deaths of `up`).
  Two edits make a roll meet another roll and a debounce meet a second save (`pair`
  and `stops` have one); one crash reaches every phase an exit can meet. After the
  bound the system goes on without them, so liveness says "once they stop".
- `MaxGen` bounds the instances of one slot at a time. It is a guard of `SpawnMissing`
  that would stop the loop; the liveness runs pass with it, so it is never reached
  for good there. `pair` has one generation: its edits never make an instance
  stale, and a mistake that asked for a second one would show as a deadlock. `scale`
  allows two so that a second instance of a slot could exist.
- `LiveFailures` is 1 or 2: a failure that restarts, or one that is counted first.
- `PortSpace` is just larger than the ports in use, so that a surge port exists. In
  `plan` there are 4 ports and replica counts modulo 8, so that windows overflow a
  port and counts overflow a window.
- `MaxReplicas` 2 has a replica beside the one that is rolled. `Only` is empty.
- `timers`: periods, delays and grace differ from each other and span several
  ticks; `Others` and `ProbeTimeout` make a tick last up to nine times as long as its
  sleep. `MaxRestarts` is where the backoff has reached `Cap`. `Horizon`
  clips the observer's clocks above every deadline.
- `Ownership`: in `restart` and `lock_removed` three processes are a dead owner, its successor
  and a rival or the successor's successor; two groups are one recorded and one
  not. `owner` has two ids, but reused without limit, so that any number of `up` follow
  one another; two of them race, or one meets what the other left.
- `files`: two pids with a document each, four writes and two faults, so that a file
  left by one fault meets a second one, and a pid meets its own litter.
- `logs`: files of one line, one file or three, four lines, one failing call. Two
  writers are the child and its predecessor; three files have a middle one.
- `plan`: all graphs over three apps and a check, and all windows of two apps.

Deadlock is checked except where the system may really stop: after a shutdown
(`stops`), after a printed plan (`plan`), when the writers and their lines are used up
(`logs`, `files`), and in `Ownership`, where no process need be started.

### Fairness, and why the code justifies it

The loop is one thread that calls its handlers one after another, and each
request has a timeout: `WF(Tick)`, `WF(TeardownPoll)`. A booting child binds or exits,
and SIGKILL is not ignored: `WF(Boot \/ Killed)`, `WF(Released)`. Time passes:
`WF(Elapse)`. A probe is due every second and a tick is half of one, so each running
instance is probed again and again: `SF(Due)`. Nothing is assumed of a crash, of a
child obeying SIGTERM, of the operator, or of a check's recovery: `DependentsRecover` has
that as its premise. `pair` has no spawn errors, since one that never ends would keep
a slot empty.

`InstanceTimers` has clocks in place of `Elapse` and `Due`: the loop goes on
(`WF(Loop)`), time passes while it awaits (`WF(Pass)`), SIGKILL takes effect
(`WF(Killed)`). That a probe comes in time is a consequence there. In `Ownership` only
the teardown is fair: its polls, its SIGKILLs, its unlinks, and the delivery of a
signal that was sent. `plan` is a sequential command: `WF(Next)`. `PrivateFile` and
`LogRotation` have no fairness, and state no liveness.

### Mutants

Each property of a passing run is broken by a plausible mistake in one
definition; the mistaken form stands before it in the module, marked `mutant`.

| Property | Mistake |
|---|---|
| `OneInstancePerSlot` | a slot counts as filled only by a Ready instance (`HasCurrentReady`) |
| `PortsAreExclusive` | a stopping instance is dropped before its child exits (`GoneAlready`) |
| `Converges` | only Pending instances are started (`StartableOnce`) |
| `ImplementsCluster` | an unparsable file counts as an empty one (`AcceptedEmpty`) |
| `TypeOK` | a reload skips validation (`AcceptedUnread`) |
| `PhaseMatchesHandle` | an exit does not change the phase (`BackedOffUnseen`) |
| `TickSettles` | undesired means only a high replica index (`UndesiredCount`) |
| `DependentsRecover` | only Pending instances are started (`StartableOnce`) |
| `SurgeKeepsService` | a replacement need not be Ready (`SupersededEarly`) |
| `EditsAreApplied` | Ready instances are never stale (`StaleReadyNone`) |
| `StopEnds` | no SIGKILL (`NeverEscalated`) |
| `StopIsSignalled` | the phase changes without a signal (`StopQuietly`) |
| `StopIsFinal` | Terminating instances are probed (`ProbedStopping`) |
| `ShutdownEnds` | teardown only waits (`HarvestedOnly`) |
| `BackoffIsExact` | a stable child does not reset the count (`FailuresKept`) |
| `GraceIsGiven` | a stop keeps the deadline of the last one (`StopKeepingDeadline`) |
| `KilledInTime` | a child to be restarted is not SIGKILLed (`OverstaysDoomed`) |
| `ReadyInTime` | a failed readiness probe always makes Unready, which has no timeout (`AskedUnready`) |
| `StopsAreEarned` | a launch keeps the count of missed liveness probes (`LaunchedRemembering`) |
| `HungEnds` | liveness counts only in the Ready phase (`LiveCountsReady`) |
| `TypeOK` of `Ownership` | teardown gives up at its deadline (`TornDownAtDeadline`) |
| `LockExcludes` | the lock's pid is not tested (`TakenUnread`) |
| `OwnerIsPublished` | a refused `up` removes whatever lock is there (`WithoutAny`) |
| `DownEnds` | no SIGKILL in teardown (`EscalateOnce`) |
| `RecordIsKept` | reclamation forgets groups that outlive SIGTERM (`StragglersSpared`) |
| `Durable` | the directory is not synced (`DirSyncedLater`) |
| `LitterByFaults` | a failed write leaves its temporary file (`Kept`) |
| `ImplementsRegister` | the file is not synced before the rename (`Unsynced`) |
| `TypeOK` of `LogRotation` | the oldest backup is renamed as well (`ShiftedWithOldest`) |
| `LinesInOrder` | a backup is linked, and stays under its old name (`Copy`) |
| `CapHolds` | a line too many before a rotation (`FullLate`) |
| `CapPerWriter` | a writer takes the file it opens for empty (`MeasureZero`) |
| `RecentLinesKept` | the wrong backup is removed (`OldestMissed`) |
| `FollowsInOrder` | a file of the same size counts as replaced (`ReplacedOrNot`) |
| `AcceptsTheLoadable` | replicas of one app are not compared (`ClaimedOnceAcross`) |
| `SelectsTheClosure` | only direct dependencies are selected (`QueuedDirect`) |
| `StartOrder` | `visit` leaves one dependency out (`FinishedEarly`) |
| `CyclesAreFound` | an app on the path counts as done (`DoneEarly`) |
| `PortsShown` | the last port is one too high (`LastPastEnd`) |
| `PlanEnds` | an app that is selected is queued again (`QueuedAgain`) |

## 5. Proofs

The theorems hold for all values of the constants that satisfy the named
assumptions of the modules, which TLC evaluates in the runs.

**ReconcilerProofs.** `TypeCorrect`, `PhaseCorrect` and `StopCorrect` say that `TypeOK`,
`PhaseMatchesHandle` and `StopIsSignalled` always hold. None of the three is inductive
alone: `reap` moves an instance to CrashLoopBackOff whatever its phase was, so that
the phase matches the handle depends on the child's having exited, and that a
Terminating child was signalled depends on every path into Terminating going through
`begin_stop` with a handle that the phase promises. `IInv` is their conjunction with
what an instance without a child may look like. The lemmas follow the code: one for
what `begin_stop` does to a record (`Stop`), one for each way a handler rewrites an
instance, then one step of the proof per action. `StopsAreFinal` needs of each
handler only that it leaves a Terminating instance with a live child alone, or
escalates (`KeepsStops`).

`TicksSettle` proves `TickSettles`, which is about one point of the tick. What it needs
at every other point is what the handlers so far have established: after
`terminate_undesired` no running child is unwanted, after `stop_check_blocked` none is
blocked, and no later handler launches one that is.

**ReconcilerScaleProofs.** Under `SameApps` and `DisjointPorts` (the manifests differ only in
which apps and how many replicas they have, and never give two slots one port)
`OneInstanceWhenScaling` and `PortsWhenScaling` hold. The strengthening `SInv` says why: no
instance is ever stale, so `roll_stale` and `retire_stale_surplus` do nothing, no surge port
is ever given and no handle is dropped with its child. A slot's instance always
carries the hash its slot asks for, so `spawn_missing` adds none.

**ClusterProofs.** `LoopImplementsCluster` shows the refinement under the same condition. The
invariant `RInv` joins `SInv` (a slot's cell is that of its only instance) to the invariant of
`TicksSettle` (what is launched is launched in a wanted slot). Each action of `Reconciler` is then one
lemma: it maps to a step of `Cluster`, which may move many slots at once, or to none.

**TimerProofs.** The inductive invariant `IInv` ties the counters to what an observer sees:
`PhaseOfChild` (a handle is held while there is a child to reap), `BackoffMeans` (the time
left is the delay of the failures in a row less the time since the last),
`GraceMeans` (likewise since SIGTERM), `ProbesMean` (answers and misses are those of the
child at hand). `BackoffIsExact`, `GraceIsGiven` and `StopsAreEarned` follow. `KilledInTime` and
`ReadyInTime` say that a deadline is not passed over for more than a tick, and need
`GraceLap` and `ReadyLap`: how far the tick has come since the deadline fell due.

**OwnershipProofs.** `LockExcludesOthers` and `FilesNameTheOwner` hold for any number of processes,
with races, crashes, early signals and reused ids; no constant is restricted.
`Guarded` is the inductive invariant: every owner that is not exposed has the lock, so
two of them are one; a process that has passed the test and not yet written
the lock meets exposed owners only, so its write may forget those of them that are
gone; while nobody is exposed the state file names whoever has written one, so that
reclamation, which would remove the lock, does not begin. `RecordsLast` has crashes
without limit, but one `up` at a time (`Alone`) and ids that are not reused:
`Successive` says that at most one `up` lives, `Remembered` what it knows of the recorded groups
at each of its steps, up to the loop, which has a handle on each of them that
lives. `OwnershipTypes` (from `Kept`) assumes nothing.

**FileProofs.** `FInv` has that no file is renamed before it is synced (`Whole`) and that what
the disk has under the path is an earlier rename than what processes see
(`Ordered`). From it `FileIsARegister` maps every call to a step of `Register`: the rename
sets the cell, a power failure may take it back to what it durably held, and all
else is a stutter. `WritesLast` and `LitterIsTakenAway` are two of its parts.

**LogProofs.** What these theorems say of names they get from inodes, which are
numbered as they are made. `OInv` has that an older name has an older file, that all
lines of an older file come before those of a newer one, writer by writer, and that no file
newer than the one a writer has open holds a line of it; each call of a rotation, also
one that fails or that another writer interrupts, keeps this, and `LinesStayInOrder` follows.

- `FollowerStaysInOrder`: under a name the follower may read the file of that name, or
  an older one that was renamed to it while it looked. `Behind` says that what was printed
  under a name, or under that of an older file, is at most as new as the file the
  name now leads to. `Reached` says that if a line of that very file was printed under
  its name, the line is behind the position there, and the file will not be taken
  for a new one; so the follower never goes back.
- `FilesStayCapped`: the only writer counts at least what its file holds (`Counted`).
- `SharedFilesStayCapped`: with several writers each count covers the writer's own lines in
  the file it has open (`Owned`), because a file it comes to has none of them yet, by `NoneNewer`; the
  shares add up by a pigeonhole over the writers, of which there are finitely many.
- `RotationKeepsRecent`: for one writer whose calls succeed, `KInv` gives the whole layout.
  File n holds the lines after the first (n - 1) * `MaxBytes`, all files but the
  newest are full, and during a rotation the newest files have the names in turn but
  for one free name (`Laid`), which the steps move down to 0.

**PlanProofs.** `LoadableAccepted` is arithmetic: a window that overflows is refused by the
32-bit sum, unless that wraps too, and then the app has more replicas than there are
ports and collides with itself. `ClosureSelected`
uses that what is selected or queued is in every closed set with the named apps.
`StartsInOrder` and `CyclesFound` are about a depth-first search with an explicit stack:
each app on the stack depends on the one above it, so an app met twice on it is on
a cycle; an app that is done has all it depends on done before it. `ShowsThePorts` takes
all of these together: what is printed is what has been selected (`QInv`), every such app is in
the order, once (`DInv`), and its window fits (`VInv`), so that the 16-bit sum of
`LastPort` may wrap to 0 and comes back by the subtraction.

**Only model-checked.** Everything under fairness (`Converges`, `DependentsRecover`,
`EditsAreApplied`, `StopEnds`, `ShutdownEnds`, `HungEnds`, `DownEnds`, `PlanEnds`), which this
prover does not reach, and `SurgeKeepsService`, whose proof would have to follow who
answers on a port from one probe to the next. Every invariant, every other action
property and both refinements of the passing runs are proved. Those of scaling and of
the record of orphans hold under a condition on the constants that the theorem names
(`SameApps` and `DisjointPorts`; `Alone` and no reuse of ids), without which the code
does not keep them.

## 6. Not modelled

`status` reads the state file and prints; `systemd` generates text; the fixture is the
server of the tests. Environments, privileges, umask and resource limits of
children. HTTP parsing. Parsing of the manifest, its variables and defaults, and the
look-up of accounts. `--force` of `down`, which makes no promise. The order of
the list of instances. A first `write_state` that fails. The permissions of files.

A process group is one process: members that outlive their leader
(`process.rs:157`) and group ids that come back are left out. The code looks at a group
as a whole only in reclamation.

Some handlers are one step where the code makes several calls with nothing of
this program between them: `MaybeReload` takes the mtime and reads the file (of a save
that falls between the two the code takes the body at once, and once more when it
has seen the mtime), `Probe` makes the readiness and the liveness request of an
instance with no change of its child between them (`InstanceTimers` has them apart),
`Write` appends a line and its newline.

Of the logs: the tail before a follow, the order of more than ten names (by string:
`.log.10` comes before `.log.2`), files of other apps, the copy to the console, lines that are not
UTF-8 or longer than the cap, the runtime's own buffering of a write, a `log_keep` of
zero, a size that cannot be read.

Of time: `Reconciler` has deadlines that are due or not, and `InstanceTimers` one instance
with a bound on what the others take. Times there are clipped at `Horizon`, the
restart counter at `MaxRestarts`. Three things it shows of the code are choices
and not promises, so no property is about them: the uptime that resets the counter
is taken at the reap and so includes the grace of a stop (as long as the default
`stable_after_secs`); a stop for a failed check counts as a crash; an instance that was
rolled starts with a fresh counter.
