------------------------------ MODULE LogRotation ------------------------------
(***************************************************************************)
(* The log of one slot: the writer task of each child that fills the slot  *)
(* (log_writer and rotate_log of artzain-core/src/process.rs), the files   *)
(* it rotates, and one `artzain logs --follow` (artzain/src/logs.rs).      *)
(*                                                                         *)
(* Every system call is a step of its own, and may fail.  The file of name *)
(* 0 is <app>-<replica>.log, that of name k is <app>-<replica>.log.k; a    *)
(* name leads to an inode, and a writer that has the inode open keeps      *)
(* appending to it whatever its name becomes.  Children of one slot share  *)
(* the names: a restarted child starts a writer while that of the last one *)
(* drains its pipes, and a roll has two of them run for long.              *)
(*                                                                         *)
(* A line has size one, and is known by its writer and a number that grows *)
(* in the order the lines are received.                                    *)
(***************************************************************************)
EXTENDS Integers, Sequences, FiniteSets

CONSTANTS
    Writer,     \* the writer tasks
    Keeps,      \* the values of log_keep to consider
    MaxBytes,   \* log_max_bytes; 0 disables rotation
    MaxLines,   \* bound: lines printed by the children
    MaxFaults   \* bound: system calls that fail

ASSUME LogAssumption ==
    /\ IsFiniteSet(Writer)
    /\ Keeps \subseteq Nat \ {0} /\ MaxBytes \in Nat
    /\ MaxLines \in Nat /\ MaxFaults \in Nat

Line == Writer \X (1 .. MaxLines)
NoFile == 0

VARIABLES
    keep,       \* log_keep
    body,       \* the inodes: a sequence of files, each a sequence of lines
    dir,        \* the inode of each name that exists
    task,       \* the writers
    received,   \* lines received so far
    faults,     \* calls that have failed
    shared,     \* have two writers ever run at once?
    reader,     \* the follower: the path it is at
    listed,     \* the names it found when it started, which it follows
    pos,        \* how far it has read under each name
    last,       \* the size it saw last under each name
    printed     \* what the follower printed, and from which name

follower == <<reader, listed, pos, last, printed>>
vars == <<keep, body, dir, task, received, faults, shared, follower>>
Name == 0 .. keep - 1
files == <<body, dir>>

Inode == 1 .. Len(body)
Task == [pc : {"off", "measure", "ready", "truncate", "oldest", "look", "move",
               "current", "open", "write"},
         file : Nat, size : Nat, k : Nat, line : Nat]
Reader == [pc : {"off", "poll", "read", "size", "dead"}, at : Nat, start : Nat]
Output == [from : Nat, line : Line]

File(k) == body[dir[k]]
Idle == [pc |-> "off", file |-> NoFile, size |-> 0, k |-> 0, line |-> 0]
Running(w) == task[w].pc # "off"

-----------------------------------------------------------------------------
(***************************************************************************)
(* The file system.                                                        *)
(***************************************************************************)

\* A call fails.
Fault == faults < MaxFaults /\ faults' = faults + 1
Fine == UNCHANGED faults

Remove(k) == /\ dir' = [l \in DOMAIN dir \ {k} |-> dir[l]]
             /\ UNCHANGED body
Copy(k) == /\ dir' = [l \in DOMAIN dir \union {k + 1} |->        \* mutant
                        IF l = k + 1 THEN dir[k] ELSE dir[l]]
           /\ UNCHANGED body
Rename(k) == /\ dir' = [l \in (DOMAIN dir \ {k}) \union {k + 1} |->
                          IF l = k + 1 THEN dir[k] ELSE dir[l]]
             /\ UNCHANGED body
\* open with create and append
Create == IF 0 \in DOMAIN dir
          THEN UNCHANGED files
          ELSE /\ body' = Append(body, <<>>)
               /\ dir' = [l \in DOMAIN dir \union {0} |->
                            IF l = 0 THEN Len(body') ELSE dir[l]]

-----------------------------------------------------------------------------
(***************************************************************************)
(* The writers.                                                            *)
(***************************************************************************)

Become(w, t) == /\ task' = [task EXCEPT ![w] = t]
                /\ UNCHANGED <<keep, follower>>
Goto(w, pc) == Become(w, [task[w] EXCEPT !.pc = pc])
\* `continue`: the line is dropped; the file stays closed, `size` as it was.
GiveUp(w) == Become(w, [task[w] EXCEPT !.pc = "ready", !.line = 0])

\* stream_logs: a child is spawned; its log is opened, or left closed.
Start(w) ==
    /\ task[w].pc = "off" /\ received < MaxLines
    /\ shared' = (shared \/ \E v \in Writer : Running(v))
    /\ \/ /\ Create /\ Fine
          /\ Become(w, [pc |-> "measure", file |-> dir'[0], size |-> 0, k |-> 0, line |-> 0])
       \/ /\ Fault /\ UNCHANGED files
          /\ Become(w, [pc |-> "measure", file |-> NoFile, size |-> 0, k |-> 0, line |-> 0])
    /\ UNCHANGED received

\* `size`, from the metadata of the open file.
MeasureZero(t) == 0                                                 \* mutant
Measured(t) == IF t.file = NoFile THEN 0 ELSE Len(body[t.file])
Measure(w) ==
    /\ task[w].pc = "measure"
    /\ Become(w, [task[w] EXCEPT !.pc = "ready", !.size = Measured(task[w])])
    /\ UNCHANGED <<files, received, faults, shared>>

\* The next line of either stream: it is written, or the files are rotated.
FullLate(t) == MaxBytes > 0 /\ t.size > MaxBytes                    \* mutant
Full(t) == MaxBytes > 0 /\ t.size + 1 > MaxBytes
Receive(w) ==
    /\ task[w].pc = "ready" /\ received < MaxLines
    /\ received' = received + 1
    /\ Become(w, IF Full(task[w])
                 THEN [task[w] EXCEPT !.line = received', !.file = NoFile,
                          !.pc = IF keep = 1 THEN "truncate" ELSE "oldest"]
                 ELSE [task[w] EXCEPT !.line = received', !.pc = "write"])
    /\ UNCHANGED <<files, faults, shared>>

\* Both pipes are closed.
End(w) ==
    /\ task[w].pc = "ready"
    /\ Become(w, Idle)
    /\ UNCHANGED <<files, received, faults, shared>>

\* log_keep = 1: the file is removed; that this may fail is ignored.
Truncate(w) ==
    /\ task[w].pc = "truncate"
    /\ (Remove(0) /\ Fine) \/ (UNCHANGED files /\ Fault)
    /\ Goto(w, "open") /\ UNCHANGED <<received, shared>>

\* rotate_log: the oldest backup goes, ...
BackupsFrom(w, k) == Become(w, [task[w] EXCEPT !.k = k,
                                   !.pc = IF k > 0 THEN "look" ELSE "current"])
OldestMissed == keep - 2                                            \* mutant
Oldest == keep - 1
ShiftedWithOldest == keep - 1                                       \* mutant
Shifted == keep - 2
RemoveOldest(w) ==
    /\ task[w].pc = "oldest"
    /\ (Remove(Oldest) /\ Fine) \/ (UNCHANGED files /\ Fault)
    /\ BackupsFrom(w, Shifted) /\ UNCHANGED <<received, shared>>

\* ... those that exist move up by one, from the oldest down, ...
Look(w) ==
    /\ task[w].pc = "look"
    /\ IF task[w].k \in DOMAIN dir THEN Goto(w, "move")
                                   ELSE BackupsFrom(w, task[w].k - 1)
    /\ UNCHANGED <<files, received, faults, shared>>
Move(w) ==
    /\ task[w].pc = "move"
    /\ \/ /\ task[w].k \in DOMAIN dir /\ Rename(task[w].k) /\ Fine
          /\ BackupsFrom(w, task[w].k - 1)
       \/ /\ task[w].k \notin DOMAIN dir /\ UNCHANGED files /\ Fine
          /\ GiveUp(w)
       \/ UNCHANGED files /\ Fault /\ GiveUp(w)
    /\ UNCHANGED <<received, shared>>

\* ... and the current file becomes the newest backup.
Current(w) ==
    /\ task[w].pc = "current"
    /\ \/ 0 \in DOMAIN dir /\ Rename(0) /\ Fine /\ Goto(w, "open")
       \/ 0 \notin DOMAIN dir /\ UNCHANGED files /\ Fine /\ GiveUp(w)
       \/ UNCHANGED files /\ Fault /\ GiveUp(w)
    /\ UNCHANGED <<received, shared>>

\* The current file is opened anew.
Reopen(w) ==
    /\ task[w].pc = "open"
    /\ \/ /\ Create /\ Fine
          /\ Become(w, [task[w] EXCEPT !.pc = "write", !.file = dir'[0], !.size = 0])
       \/ UNCHANGED files /\ Fault /\ GiveUp(w)
    /\ UNCHANGED <<received, shared>>

\* The line is appended if a file is open; that this may fail is ignored.
Write(w) ==
    LET t == task[w]
    IN  /\ t.pc = "write"
        /\ IF t.file = NoFile
           THEN GiveUp(w) /\ Fine /\ UNCHANGED files
           ELSE /\ Become(w, [t EXCEPT !.pc = "ready", !.line = 0, !.size = @ + 1])
                /\ UNCHANGED dir
                /\ \/ Fine /\ body' = [body EXCEPT ![t.file] = Append(@, <<w, t.line>>)]
                   \/ Fault /\ UNCHANGED body
        /\ UNCHANGED <<received, shared>>

-----------------------------------------------------------------------------
(***************************************************************************)
(* The follower of the slot's files: of the names it finds when it starts, *)
(* the backups among them, it polls one after the other.                   *)
(***************************************************************************)

\* log_files, once; without a file the command ends.  The names are sorted as
\* strings, which for up to ten of them is by age.
Least(names) == {k \in names : \A l \in names : k <= l}
List ==
    /\ reader.pc = "off" /\ DOMAIN dir # {}
    /\ listed' = DOMAIN dir
    /\ \E k \in Least(listed') : reader' = [reader EXCEPT !.pc = "poll", !.at = k]
    /\ UNCHANGED <<keep, files, task, received, faults, shared, pos, last, printed>>

\* The path after that of name k, round and round.
After(k) ==
    LET more == {l \in listed : l > k}
    IN  Least(IF more # {} THEN more ELSE listed)
MoveOn == \E k \in After(reader.at) : reader' = [reader EXCEPT !.pc = "poll", !.at = k]

\* A look at the size: smaller than before, the file was replaced, and is read
\* from its start; larger than what was read, the rest is read.  A path that
\* leads nowhere now is passed over.
ReplacedOrNot(k, size) == size <= last[k] \/ size < pos[k]           \* mutant
Replaced(k, size) == size < last[k] \/ size < pos[k]
Poll ==
    LET k == reader.at
        size == Len(File(k))
    IN  /\ reader.pc = "poll"
        /\ IF k \in DOMAIN dir /\ (Replaced(k, size) \/ size > pos[k])
           THEN /\ reader' = [reader EXCEPT !.pc = "read",
                                 !.start = IF Replaced(k, size) THEN 0 ELSE pos[k]]
                /\ UNCHANGED last
           ELSE /\ MoveOn
                /\ last' = [last EXCEPT ![k] = IF k \in DOMAIN dir THEN size ELSE @]
        /\ UNCHANGED <<keep, files, task, received, faults, shared, listed, pos, printed>>

\* read_from: whatever file has the name by now is opened and read to its end;
\* its absence ends the command.
Rest(k, start) == [i \in 1 .. Len(File(k)) - start |->
                      [from |-> k, line |-> File(k)[start + i]]]
ReadFile ==
    LET k == reader.at
    IN  /\ reader.pc = "read"
        /\ IF k \in DOMAIN dir
           THEN /\ printed' = printed \o Rest(k, reader.start)
                /\ reader' = [reader EXCEPT !.pc = "size", !.start = 0]
                /\ pos' = [pos EXCEPT ![k] = IF Len(File(k)) > reader.start
                                             THEN Len(File(k)) ELSE reader.start]
           ELSE reader' = [reader EXCEPT !.pc = "dead"] /\ UNCHANGED <<pos, printed>>
        /\ UNCHANGED <<keep, files, task, received, faults, shared, listed, last>>

\* ... and its size is taken, of whatever file has the name then.
Resize ==
    LET k == reader.at
    IN  /\ reader.pc = "size"
        /\ IF k \in DOMAIN dir
           THEN MoveOn /\ last' = [last EXCEPT ![k] = Len(File(k))]
           ELSE reader' = [reader EXCEPT !.pc = "dead"] /\ UNCHANGED last
        /\ UNCHANGED <<keep, files, task, received, faults, shared, listed, pos, printed>>

-----------------------------------------------------------------------------
Init ==
    /\ keep \in Keeps
    /\ body = <<>>
    /\ dir = [k \in {} |-> NoFile]
    /\ task = [w \in Writer |-> Idle]
    /\ received = 0
    /\ faults = 0
    /\ shared = FALSE
    /\ reader = [pc |-> "off", at |-> 0, start |-> 0]
    /\ listed = {}
    /\ pos = [k \in Name |-> 0] /\ last = [k \in Name |-> 0]
    /\ printed = <<>>

Rotate(w) == \/ Truncate(w) \/ RemoveOldest(w) \/ Look(w) \/ Move(w)
             \/ Current(w) \/ Reopen(w)
Log(w) == Start(w) \/ Measure(w) \/ Receive(w) \/ End(w) \/ Rotate(w) \/ Write(w)
Follow == List \/ Poll \/ ReadFile \/ Resize
Next == (\E w \in Writer : Log(w)) \/ Follow

Spec == Init /\ [][Next]_vars

-----------------------------------------------------------------------------
(***************************************************************************)
(* Properties.                                                             *)
(***************************************************************************)

\* The files, the writers and the follower have their shapes.
TypeOK ==
    /\ keep \in Keeps
    /\ body \in Seq(Seq(Line))
    /\ DOMAIN dir \subseteq Name
    /\ dir \in [DOMAIN dir -> Inode]
    /\ task \in [Writer -> Task]
    /\ \A w \in Writer : /\ task[w].file \in {NoFile} \union Inode
                         /\ task[w].line \in 0 .. received
    /\ received \in 0 .. MaxLines
    /\ faults \in Nat /\ shared \in BOOLEAN
    /\ reader \in Reader /\ listed \subseteq Name
    /\ pos \in [Name -> Nat] /\ last \in [Name -> Nat]
    /\ printed \in Seq(Output)

\* Reading the files from the oldest to the current one, the lines of a child
\* come in the order it printed them, none twice: whatever calls failed, in
\* the middle of a rotation, and with several children writing.
Before(l, m) == l[1] = m[1] => l[2] < m[2]
LinesInOrder ==
    \A k, l \in DOMAIN dir :
        \A i \in 1 .. Len(File(k)), j \in 1 .. Len(File(l)) :
            (k > l \/ (k = l /\ i < j)) => Before(File(k)[i], File(l)[j])

\* While one child writes at a time, no file of the slot outgrows
\* log_max_bytes, whichever calls fail and however often the child restarts;
\* except that a file whose removal failed is not counted when log_keep is 1.
CapHolds ==
    MaxBytes > 0 /\ ~shared /\ (keep > 1 \/ faults = 0) =>
        \A i \in Inode : Len(body[i]) <= MaxBytes

\* Children that write at once share the file, but each counts its own lines.
CapPerWriter ==
    MaxBytes > 0 /\ (keep > 1 \/ faults = 0) =>
        \A i \in Inode : Len(body[i]) <= Cardinality(Writer) * MaxBytes

\* While one child writes at a time and no call fails, rotation never costs a
\* line that no more than (log_keep - 1) * log_max_bytes others have followed.
Retained == UNION {{File(k)[i] : i \in 1 .. Len(File(k))} : k \in DOMAIN dir}
RecentLinesKept ==
    MaxBytes > 0 /\ ~shared /\ faults = 0 =>
        \A n \in 1 .. received :
            (n + (keep - 1) * MaxBytes >= received /\ \A w \in Writer : task[w].line # n)
                => \E w \in Writer : <<w, n>> \in Retained

\* After a line of a child, the follower prints from the same path, or from that
\* of a newer file, only later ones: however its three looks at a file fall in
\* rotations.  (A path of an older file repeats what it has moved there.)
FollowsInOrder ==
    \A i, j \in 1 .. Len(printed) :
        i < j /\ printed[j].from <= printed[i].from
            => Before(printed[i].line, printed[j].line)

=============================================================================
