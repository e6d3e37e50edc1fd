------------------------------- MODULE FileProofs ------------------------------
(***************************************************************************)
(* That write_private_file makes a register of a file, for any number of   *)
(* processes, documents, calls, SIGKILLs and power failures.               *)
(***************************************************************************)
EXTENDS PrivateFile, TLAPS

\* A whole document, in memory and on the disk.
IsWhole(f) == f # NoFile => f.mem \in Document /\ f.kept = f.mem

\* Only whole documents get the name: a file is written before it is synced, and
\* synced before it is renamed.
Whole ==
    /\ IsWhole(path) /\ IsWhole(disk)
    /\ \A p \in Pid :
        /\ pc[p] \in {"open", "write", "sync", "rename"} => data[p] \in Document
        /\ pc[p] \in {"sync", "rename"} => tmp[p].mem = data[p]
        /\ pc[p] = "rename" => tmp[p].kept = data[p]

\* The disk is never ahead of what the processes see.
Ordered ==
    /\ safe <= last
    /\ path # NoFile => path.stamp <= last
    /\ disk # NoFile => disk.stamp <= last
    /\ path # NoFile /\ disk # NoFile => disk.stamp <= path.stamp

\* A process at a step that needs no temporary file has none, or met a fault.
Clean == \A p \in Pid :
            pc[p] \in {"idle", "open", "syncdir"} /\ tmp[p] # NoFile => p \in hit

FInv == TypeOK /\ Whole /\ Ordered /\ Durable /\ Clean

LEMMA FInvInit == Init => FInv
  BY FileAssumption
     DEF Init, FInv, TypeOK, Whole, IsWhole, Ordered, Durable, Clean, File

\* The empty file and what a power failure leaves are files, or none.
LEMMA FileShapes ==
  /\ Empty \in File /\ Empty # NoFile
  /\ \A f \in File \union {NoFile} : Found(f) \in File \union {NoFile}
  /\ \A f \in File : f # NoFile => Found(f) # NoFile /\ Found(f).stamp = f.stamp
<1> USE FileAssumption
<1>1. Empty \in File /\ Empty # NoFile
  BY DEF Empty, File
<1>2. ASSUME NEW f \in File  PROVE Found(f) \in File /\ Found(f).stamp = f.stamp
  BY <1>2 DEF File, Found
<1>3. Found(NoFile) = NoFile
  BY DEF Found
<1>. QED
  BY <1>1, <1>2, <1>3

-----------------------------------------------------------------------------
LEMMA FInvStep == FInv /\ [Next]_vars => FInv'
<1> SUFFICES ASSUME FInv, [Next]_vars  PROVE FInv'
  OBVIOUS
<1> USE FileAssumption DEF FInv
<1>1. CASE UNCHANGED vars
  BY <1>1 DEF vars, files, TypeOK, Whole, IsWhole, Ordered, Durable, Clean
<1>2. ASSUME NEW p \in Pid, NEW d \in Document, Call(p, d)  PROVE FInv'
  BY <1>2 DEF Call, Goto, files, TypeOK, Whole, IsWhole, Ordered, Durable, Clean
<1>3. ASSUME NEW p \in Pid, NoDirectory(p) \/ DirNotSynced(p) \/ Fail(p)  PROVE FInv'
  BY <1>3 DEF NoDirectory, DirNotSynced, Fail, Goto, files,
     TypeOK, Whole, IsWhole, Ordered, Durable, Clean
<1>4. ASSUME NEW p \in Pid, Open(p)  PROVE FInv'
  BY <1>4, FileShapes DEF Open, Goto, TypeOK, Whole, IsWhole, Ordered, Durable, Clean
<1>5. ASSUME NEW p \in Pid, Write(p)  PROVE FInv'
  BY <1>5 DEF Write, Goto, File, TypeOK, Whole, IsWhole, Ordered, Durable, Clean
<1>6. ASSUME NEW p \in Pid, Sync(p)  PROVE FInv'
  BY <1>6 DEF Sync, Synced, Goto, File, TypeOK, Whole, IsWhole, Ordered, Durable, Clean
<1>7. ASSUME NEW p \in Pid, Rename(p)  PROVE FInv'
  <2>1. /\ pc[p] = "rename" /\ tmp[p] \in File /\ last \in Nat
        /\ tmp[p].mem \in Document /\ tmp[p].kept = tmp[p].mem
    BY <1>7 DEF Rename, Goto, TypeOK, Whole
  <2>2. /\ path' \in File /\ path' # NoFile /\ path'.stamp = last + 1
        /\ path'.mem \in Document /\ path'.kept = path'.mem
    BY <1>7, <2>1 DEF Rename, File
  <2>3. TypeOK'
    BY <1>7, <2>1, <2>2 DEF Rename, Goto, TypeOK
  <2>4. Whole'
    BY <1>7, <2>2 DEF Rename, Goto, TypeOK, Whole, IsWhole
  <2>5. Ordered' /\ Durable'
    BY <1>7, <2>2 DEF Rename, TypeOK, File, Ordered, Durable
  <2>6. Clean'
    BY <1>7 DEF Rename, Goto, TypeOK, Clean
  <2>. QED
    BY <2>3, <2>4, <2>5, <2>6
<1>8. ASSUME NEW p \in Pid, SyncDir(p)  PROVE FInv'
  BY <1>8 DEF SyncDir, DirSynced, Goto, File, TypeOK, Whole, IsWhole, Ordered, Durable, Clean
<1>9. ASSUME NEW p \in Pid, Undo(p) \/ UndoFails(p)  PROVE FInv'
  BY <1>9 DEF Undo, Undone, UndoFails, Fault, Goto, files,
     TypeOK, Whole, IsWhole, Ordered, Durable, Clean
<1>10. ASSUME NEW p \in Pid, Remove(p)  PROVE FInv'
  BY <1>10 DEF Remove, TypeOK, Whole, IsWhole, Ordered, Durable, Clean
<1>11. CASE FlushDir
  BY <1>11 DEF FlushDir, File, TypeOK, Whole, IsWhole, Ordered, Durable, Clean
<1>12. ASSUME NEW p \in Pid, FlushFile(p)  PROVE FInv'
  BY <1>12 DEF FlushFile, File, TypeOK, Whole, IsWhole, Ordered, Durable, Clean
<1>13. ASSUME NEW p \in Pid, Crash(p)  PROVE FInv'
  BY <1>13 DEF Crash, Fault, files, TypeOK, Whole, IsWhole, Ordered, Durable, Clean
<1>14. CASE PowerLoss
  <2>1. tmp' \in [Pid -> File \union {NoFile}]
    BY <1>14, FileShapes DEF PowerLoss, TypeOK
  <2>2. path' = Found(disk) /\ disk' = disk /\ pc' = [p \in Pid |-> "idle"] /\ hit' = Pid
    BY <1>14 DEF PowerLoss
  <2>3. TypeOK'
    BY <1>14, <2>1, <2>2, FileShapes DEF PowerLoss, Fault, TypeOK
  <2>4. Whole'
    BY <2>2 DEF Whole, IsWhole, Found, TypeOK, File
  <2>5. Ordered' /\ Durable'
    BY <1>14, <2>2, FileShapes DEF PowerLoss, Found, TypeOK, File, Ordered, Durable
  <2>6. Clean'
    BY <2>2 DEF Clean
  <2>. QED
    BY <2>3, <2>4, <2>5, <2>6
<1>. QED
  BY <1>1, <1>2, <1>3, <1>4, <1>5, <1>6, <1>7, <1>8, <1>9, <1>10, <1>11, <1>12, <1>13,
     <1>14 DEF Next, Process

\* The files keep their shape, and no call works on a file that is not there
\* (paths.rs:23-49).
THEOREM FileTypes == Spec => []TypeOK
<1>1. FInv => TypeOK
  BY DEF FInv
<1>. QED
  BY <1>1, FInvInit, FInvStep, PTL DEF Spec

\* What was written and synced outlives any power failure (paths.rs:28-32).
THEOREM WritesLast == Spec => []Durable
<1>1. FInv => Durable
  BY DEF FInv
<1>. QED
  BY <1>1, FInvInit, FInvStep, PTL DEF Spec

\* Failed calls leave nothing behind; what a fault left, the next call of that
\* pid takes away (paths.rs:33-36, 40-45).
THEOREM LitterIsTakenAway == Spec => []LitterByFaults
<1>1. FInv => LitterByFaults
  BY DEF FInv, Clean, LitterByFaults
<1>. QED
  BY <1>1, FInvInit, FInvStep, PTL DEF Spec

-----------------------------------------------------------------------------
\* Every step of a writer and of the operating system is one step of the
\* register, or none.
LEMMA StepsOfRegister == FInv /\ FInv' /\ [Next]_vars => [Cell!Next]_(Cell!vars)
<1> SUFFICES ASSUME FInv, FInv', [Next]_vars
             PROVE  Cell!Next \/ UNCHANGED Cell!vars
  OBVIOUS
<1>1. CASE path' = path /\ disk' = disk
  BY <1>1 DEF Cell!vars
<1>2. ASSUME NEW p \in Pid, Rename(p)  PROVE Cell!Next
  <2>1. path' # NoFile /\ path'.mem \in Document
    <3>1. tmp[p] \in File /\ tmp[p].mem \in Document
      BY <1>2 DEF Rename, Goto, FInv, TypeOK, Whole
    <3>. QED
      BY <1>2, <3>1, FileAssumption DEF Rename, File, FInv, TypeOK
  <2>2. Cell!Put(path'.mem)
    BY <1>2, <2>1 DEF Rename, Cell!Put
  <2>. QED
    BY <2>1, <2>2 DEF Cell!Next
<1>3. CASE disk' = path /\ path' = path
  BY <1>3 DEF FInv, Whole, IsWhole, Cell!Next, Cell!Persist
<1>4. ASSUME NEW p \in Pid, Remove(p)  PROVE Cell!Clear
  BY <1>4 DEF Remove, Cell!Clear
<1>5. CASE PowerLoss
  BY <1>5, FileAssumption DEF PowerLoss, Found, FInv, TypeOK, File, Cell!Next, Cell!Lose
<1>. QED
  BY <1>1, <1>2, <1>3, <1>4, <1>5 DEF Next, Process, vars, files, Call, NoDirectory, Open,
     Write, Sync, SyncDir, DirSynced, DirNotSynced, Fail, Undo, UndoFails, FlushDir,
     FlushFile, Crash, Cell!Next

\* write_private_file implements the register that the lock and the state file
\* are elsewhere taken for: no reader ever sees half a document, and each write
\* takes effect in one step.
THEOREM FileIsARegister == Spec => ImplementsRegister
<1>1. Init => Cell!Init
  BY DEF Init, Cell!Init
<1>. QED
  BY <1>1, FInvInit, FInvStep, StepsOfRegister, PTL DEF Spec, ImplementsRegister, Cell!Spec

=============================================================================
