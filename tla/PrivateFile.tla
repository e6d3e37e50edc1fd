------------------------------ MODULE PrivateFile ------------------------------
(***************************************************************************)
(* How the lock and the state file are written: write_private_file of      *)
(* artzain-core/src/paths.rs, one system call at a time, by several         *)
(* processes that write one path, each through a temporary file named after *)
(* its pid.  A process may be SIGKILLed at any step, a call may fail, and   *)
(* the power may fail.                                                      *)
(*                                                                         *)
(* The operating system is external: a rename moves a file to its new name  *)
(* in one step; of a file that was not synced anything may be left after a  *)
(* power failure; a directory is written back when it is synced, or sooner. *)
(* A reader opens the path and reads one file, which nobody writes to once  *)
(* it has that name, so it reads what the path held when it was opened.     *)
(***************************************************************************)
EXTENDS Naturals

CONSTANTS
    Pid,        \* processes that write the path
    Document,   \* what they write: the bytes of a lock or of a state file
    NoFile,     \* the absence of a file
    Torn,       \* bytes that are no whole document: empty, or cut short
    MaxWrites,  \* bound: calls of write_private_file
    MaxFaults   \* bound: SIGKILLs, power failures and failed removals

\* A file: its bytes as read, its bytes on the disk, and (ghost) its rename.
File == [mem : Document \union {Torn}, kept : Document \union {Torn}, stamp : Nat]

ASSUME FileAssumption ==
    /\ Torn \notin Document
    /\ NoFile \notin Document \union {Torn} \union File
    /\ MaxWrites \in Nat /\ MaxFaults \in Nat

VARIABLES
    path,       \* the file that the path names, as the processes see it
    disk,       \* the file that the path names on the disk
    tmp,        \* each process's temporary file
    pc,         \* the system call each process is at
    data,       \* the document it is writing
    calls,      \* calls made so far (bound MaxWrites)
    faults,     \* faults so far (bound MaxFaults)
    last,       \* ghost: renames so far, the stamp of the last one
    safe,       \* ghost: stamp of the last rename whose directory was synced,
                \* 0 if the file was removed since
    hit         \* ghost: processes whose last temporary file met a fault

files == <<path, disk, tmp>>
vars == <<files, pc, data, calls, faults, last, safe, hit>>

Empty == [mem |-> Torn, kept |-> Torn, stamp |-> 0]
\* What a power failure leaves of a file.
Found(f) == IF f = NoFile THEN NoFile ELSE [f EXCEPT !.mem = f.kept]

Init ==
    /\ path = NoFile /\ disk = NoFile /\ tmp = [p \in Pid |-> NoFile]
    /\ pc = [p \in Pid |-> "idle"] /\ data = [p \in Pid |-> Torn]
    /\ calls = 0 /\ faults = 0 /\ last = 0 /\ safe = 0 /\ hit = {}

Goto(p, from, to) == pc[p] = from /\ pc' = [pc EXCEPT ![p] = to]
Fault == faults < MaxFaults /\ faults' = faults + 1

-----------------------------------------------------------------------------
(***************************************************************************)
(* write_private_file, and the removal of the file.                        *)
(***************************************************************************)

Call(p, d) ==
    /\ Goto(p, "idle", "open") /\ calls < MaxWrites /\ calls' = calls + 1
    /\ data' = [data EXCEPT ![p] = d]
    /\ UNCHANGED <<files, faults, last, safe, hit>>

\* The directory cannot be made: an early return, before the temporary file.
NoDirectory(p) ==
    /\ Goto(p, "open", "idle")
    /\ UNCHANGED <<files, data, calls, faults, last, safe, hit>>

\* create + truncate: a file that a killed process of this pid left is emptied.
Open(p) ==
    /\ Goto(p, "open", "write") /\ tmp' = [tmp EXCEPT ![p] = Empty]
    /\ UNCHANGED <<path, disk, data, calls, faults, last, safe, hit>>
Write(p) ==
    /\ Goto(p, "write", "sync") /\ tmp' = [tmp EXCEPT ![p].mem = data[p]]
    /\ UNCHANGED <<path, disk, data, calls, faults, last, safe, hit>>
Unsynced(f) == f                                                    \* mutant
Synced(f) == [f EXCEPT !.kept = f.mem]
Sync(p) ==
    /\ Goto(p, "sync", "rename") /\ tmp' = [tmp EXCEPT ![p] = Synced(tmp[p])]
    /\ UNCHANGED <<path, disk, data, calls, faults, last, safe, hit>>
Rename(p) ==
    /\ Goto(p, "rename", "syncdir")
    /\ last' = last + 1 /\ path' = [tmp[p] EXCEPT !.stamp = last']
    /\ tmp' = [tmp EXCEPT ![p] = NoFile]
    /\ hit' = hit \ {p}
    /\ UNCHANGED <<disk, data, calls, faults, safe>>

\* Best effort: what sync_parent_dir cannot sync it leaves.
DirSyncedLater(p) == UNCHANGED disk                                 \* mutant
DirSynced(p) == disk' = path
SyncDir(p) ==
    /\ Goto(p, "syncdir", "idle") /\ DirSynced(p)
    /\ safe' = IF path = NoFile THEN 0 ELSE path.stamp
    /\ UNCHANGED <<path, tmp, data, calls, faults, last, hit>>
DirNotSynced(p) ==
    /\ Goto(p, "syncdir", "idle")
    /\ UNCHANGED <<files, data, calls, faults, last, safe, hit>>

\* A call failed: the temporary file is removed, if it can be.
Fail(p) ==
    /\ pc[p] \in {"open", "write", "sync", "rename"}
    /\ pc' = [pc EXCEPT ![p] = "undo"]
    /\ UNCHANGED <<files, data, calls, faults, last, safe, hit>>
Kept(p) == tmp[p]                                                   \* mutant
Undone(p) == NoFile
Undo(p) ==
    /\ Goto(p, "undo", "idle") /\ tmp' = [tmp EXCEPT ![p] = Undone(p)]
    /\ hit' = hit \ {p}
    /\ UNCHANGED <<path, disk, data, calls, faults, last, safe>>
UndoFails(p) ==
    /\ Goto(p, "undo", "idle") /\ Fault /\ hit' = hit \union {p}
    /\ UNCHANGED <<files, data, calls, last, safe>>

\* The end of `up`, Lock::drop and reclaim_orphans: the directory is not synced.
Remove(p) ==
    /\ pc[p] = "idle" /\ path # NoFile /\ path' = NoFile /\ safe' = 0
    /\ UNCHANGED <<disk, tmp, pc, data, calls, faults, last, hit>>

-----------------------------------------------------------------------------
(***************************************************************************)
(* The operating system, and the end of a process.                         *)
(***************************************************************************)

\* It writes back the directory, or a file, when it likes.
FlushDir ==
    /\ disk # path /\ disk' = path
    /\ UNCHANGED <<path, tmp, pc, data, calls, faults, last, safe, hit>>
FlushFile(p) ==
    /\ tmp[p] # NoFile /\ tmp[p].kept # tmp[p].mem
    /\ tmp' = [tmp EXCEPT ![p].kept = tmp[p].mem]
    /\ UNCHANGED <<path, disk, pc, data, calls, faults, last, safe, hit>>

\* SIGKILL in the middle of a call.  A process of the same pid may come later.
Crash(p) ==
    /\ pc[p] # "idle" /\ Fault /\ pc' = [pc EXCEPT ![p] = "idle"]
    /\ hit' = hit \union {p}
    /\ UNCHANGED <<files, data, calls, last, safe>>

\* A power failure ends every process; their temporary files may be left.
PowerLoss ==
    /\ Fault /\ pc' = [p \in Pid |-> "idle"]
    /\ path' = Found(disk)
    /\ \E gone \in SUBSET Pid :
          tmp' = [p \in Pid |-> IF p \in gone THEN NoFile ELSE Found(tmp[p])]
    /\ hit' = Pid
    /\ UNCHANGED <<disk, data, calls, last, safe>>

Process(p) ==
    \/ \E d \in Document : Call(p, d)
    \/ NoDirectory(p) \/ Open(p) \/ Write(p) \/ Sync(p) \/ Rename(p)
    \/ SyncDir(p) \/ DirNotSynced(p) \/ Fail(p) \/ Undo(p) \/ UndoFails(p)
    \/ Remove(p)
Next == \/ \E p \in Pid : Process(p) \/ FlushFile(p) \/ Crash(p)
        \/ FlushDir \/ PowerLoss

Spec == Init /\ [][Next]_vars

-----------------------------------------------------------------------------
(***************************************************************************)
(* Properties.                                                             *)
(***************************************************************************)

\* The files have their shape, and a process has its temporary file from its
\* creation to its rename: no step works on a file that is not there.
TypeOK ==
    /\ path \in File \union {NoFile} /\ disk \in File \union {NoFile}
    /\ tmp \in [Pid -> File \union {NoFile}]
    /\ pc \in [Pid -> {"idle", "open", "write", "sync", "rename", "syncdir", "undo"}]
    /\ \A p \in Pid : pc[p] \in {"write", "sync", "rename"} => tmp[p] # NoFile
    /\ data \in [Pid -> Document \union {Torn}]
    /\ calls \in Nat /\ faults \in Nat /\ last \in Nat /\ safe \in Nat
    /\ hit \subseteq Pid

\* A write that returned, with its directory synced, is not undone by a power
\* failure: until the file is removed the disk holds that document or a later one.
Durable ==
    safe # 0 => /\ path # NoFile /\ path.stamp >= safe
                /\ disk # NoFile /\ disk.stamp >= safe

\* Nothing but a fault leaves a temporary file behind, whichever call failed, and
\* the next call of a process with that pid that gets to its end takes it away.
LitterByFaults == \A p \in Pid : pc[p] = "idle" /\ tmp[p] # NoFile => p \in hit

\* Through calls that fail half-way, SIGKILLs, several writers and power
\* failures, whoever reads the path finds a whole document or no file, and the
\* file changes in one step: lock.rs and reconcile.rs parse what they read, and
\* an `up` that finds half a lock refuses to start.
Cell == INSTANCE Register WITH
            value   <- IF path = NoFile THEN NoFile ELSE path.mem,
            durable <- IF disk = NoFile THEN NoFile ELSE disk.kept
ImplementsRegister == Cell!Spec

=============================================================================
