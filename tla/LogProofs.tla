------------------------------- MODULE LogProofs -------------------------------
(***************************************************************************)
(* Proofs about the log of a slot: types, the order of the lines in the    *)
(* files and of those the follower prints, the cap on a file, and what     *)
(* rotation keeps, with any number of backups, writers and failing calls.  *)
(*                                                                         *)
(* Everything rests on OInv: inodes are numbered as they come about, older *)
(* names have older files (NamesInOrder), and no file newer than the one a *)
(* writer has open holds a line of it (NoneNewer).  RInv adds, for each    *)
(* name that is followed, how far the follower is in the files it has      *)
(* printed of under it, CInv and PInv that a writer's count is never below *)
(* what it has put into its file, and KInv, for one writer without         *)
(* failures, where in a half-done rotation each file is and which lines it *)
(* holds.                                                                  *)
(***************************************************************************)
EXTENDS LogRotation, SequenceTheorems, FiniteSetTheorems, TLAPS

Rotating == {"truncate", "oldest", "look", "move", "current", "open"}
Writing == Rotating \union {"write"}

\* A task, when the inodes are I and n lines have been received.
Fit(t, I, n) ==
    /\ t \in Task
    /\ t.file \in {NoFile} \union I
    /\ t.line \in 0 .. n
    /\ t.pc \in Writing => t.line # 0
    /\ t.pc \in Rotating => t.file = NoFile
    /\ t.pc = "truncate" => keep = 1
    /\ t.pc \in {"oldest", "look", "move", "current"} => keep >= 2
    /\ t.pc \in {"look", "move"} => t.k \in 1 .. keep - 2
TaskOK(w) == Fit(task[w], Inode, received)
TasksOK ==
    /\ task = [w \in Writer |-> task[w]]
    /\ \A w \in Writer : TaskOK(w)
FilesOK ==
    /\ keep \in Keeps
    /\ body \in Seq(Seq(Line))
    /\ DOMAIN dir \subseteq Name
    /\ dir \in [DOMAIN dir -> Inode]
CountsOK == received \in 0 .. MaxLines /\ faults \in Nat /\ shared \in BOOLEAN
ReaderOK ==
    /\ reader \in Reader /\ listed \subseteq Name /\ printed \in Seq(Output)
    /\ pos \in [Name -> Nat] /\ last \in [Name -> Nat]
    /\ reader.pc # "off" => reader.at \in listed

TInv == FilesOK /\ TasksOK /\ CountsOK /\ ReaderOK

-----------------------------------------------------------------------------
(***************************************************************************)
(* Types.                                                                  *)
(***************************************************************************)

\* What the file system's calls do to the files.
LEMMA RemoveType == ASSUME FilesOK, NEW k, Remove(k), UNCHANGED keep
                    PROVE  FilesOK' /\ Inode' = Inode
BY DEF FilesOK, Remove, Name, Inode

LEMMA RenameType ==
    ASSUME FilesOK, NEW k \in DOMAIN dir, k + 1 <= keep - 1, Rename(k), UNCHANGED keep
    PROVE  FilesOK' /\ Inode' = Inode
<1>1. k \in 0 .. keep - 1 /\ keep \in Nat
  BY LogAssumption DEF FilesOK, Name
<1> QED
  BY <1>1 DEF FilesOK, Rename, Name, Inode

LEMMA CreateType ==
    ASSUME FilesOK, Create, UNCHANGED keep
    PROVE  FilesOK' /\ Inode \subseteq Inode' /\ dir'[0] \in Inode'
<1>1. CASE 0 \in DOMAIN dir
  BY <1>1 DEF FilesOK, Create, Name, Inode, files
<1>2. CASE 0 \notin DOMAIN dir
  <2>1. /\ body' = Append(body, <<>>)
        /\ dir' = [l \in DOMAIN dir \union {0} |-> IF l = 0 THEN Len(body') ELSE dir[l]]
    BY <1>2 DEF Create
  <2>2. <<>> \in Seq(Line)
    BY EmptySeq
  <2>3. body' \in Seq(Seq(Line)) /\ Len(body') = Len(body) + 1 /\ Len(body) \in Nat
    BY <2>1, <2>2 DEF FilesOK
  <2>4. Inode \subseteq Inode' /\ Len(body') \in Inode'
    BY <2>3 DEF Inode
  <2>5. 0 \in Name
    BY LogAssumption DEF FilesOK, Name
  <2> QED
    BY <2>1, <2>3, <2>4, <2>5 DEF FilesOK, Name
<1> QED
  BY <1>1, <1>2

LEMMA AppendType ==
    ASSUME FilesOK, NEW n \in Inode, NEW l \in Line,
           body' = [body EXCEPT ![n] = Append(@, l)], UNCHANGED <<keep, dir>>
    PROVE  /\ FilesOK' /\ Inode' = Inode
           /\ body[n] \in Seq(Line) /\ body'[n] = Append(body[n], l)
           /\ \A m \in Inode : m # n => body'[m] = body[m]
<1>1. body[n] \in Seq(Line)
  BY ElementOfSeq DEF FilesOK, Inode
<1>2. Append(body[n], l) \in Seq(Line)
  BY <1>1
<1>3. body' \in Seq(Seq(Line)) /\ Len(body') = Len(body)
  BY <1>2, ExceptSeq DEF FilesOK, Inode
<1>4. \A m \in Inode : body'[m] = IF m = n THEN Append(body[n], l) ELSE body[m]
  BY <1>2, ExceptSeq DEF FilesOK, Inode
<1> QED
  BY <1>1, <1>3, <1>4 DEF FilesOK, Inode, Name

\* A writer's step leaves the other tasks as they are.
LEMMA BecomeType ==
    ASSUME TInv, NEW w \in Writer, NEW t, Become(w, t), Inode \subseteq Inode',
           received' \in Nat, received <= received', Fit(t, Inode', received')
    PROVE  TasksOK' /\ ReaderOK' /\ keep' = keep /\ task'[w] = t
<1>1. /\ task' = [task EXCEPT ![w] = t] /\ keep' = keep
      /\ UNCHANGED follower
  BY DEF Become, follower
<1>2. task = [v \in Writer |-> task[v]] /\ received \in Nat
  BY DEF TInv, TasksOK, CountsOK
<1>3. ASSUME NEW v \in Writer PROVE TaskOK(v)'
  <2>1. CASE v = w
    BY <1>1, <1>2, <2>1 DEF TaskOK, Fit
  <2>2. CASE v # w
    <3>1. task'[v] = task[v]
      BY <1>1, <1>2, <2>2
    <3>2. TaskOK(v)
      BY DEF TInv, TasksOK
    <3> QED
      BY <1>1, <1>2, <3>1, <3>2 DEF TaskOK, Fit
  <2> QED
    BY <2>1, <2>2
<1> QED
  BY <1>1, <1>2, <1>3 DEF TasksOK, ReaderOK, TInv, Reader, follower, Name

\* The changes a writer makes to its task.
LEMMA FitChanges ==
    ASSUME NEW I, NEW n \in Nat, NEW t, Fit(t, I, n), keep \in Nat \ {0}
    PROVE  /\ Fit([t EXCEPT !.pc = "ready", !.line = 0], I, n)
           /\ \A s \in Nat : Fit([t EXCEPT !.pc = "ready", !.size = s], I, n)
           /\ Fit(Idle, I, n)
           /\ Fit([t EXCEPT !.pc = "ready", !.line = 0, !.size = @ + 1], I, n)
<1> DEFINE a == [t EXCEPT !.pc = "ready", !.line = 0]
           b(s) == [a EXCEPT !.size = s]
<1>a. t \in Task /\ t.file \in {NoFile} \union I
  BY DEF Fit
<1>b. /\ a \in Task /\ a.pc = "ready" /\ a.line = 0 /\ a.file = t.file
  BY <1>a DEF Task
<1>c. ASSUME NEW s \in Nat
      PROVE  /\ b(s) \in Task /\ b(s).pc = "ready" /\ b(s).line = 0 /\ b(s).file = t.file
  BY <1>b DEF Task
<1>1. Fit(a, I, n)
  <2> HIDE DEF a
  <2> QED
    BY <1>a, <1>b DEF Fit, Writing, Rotating
<1>2. \A s \in Nat : Fit([t EXCEPT !.pc = "ready", !.size = s], I, n)
  BY DEF Fit, Task, Writing, Rotating
<1>3. Fit(Idle, I, n)
  BY DEF Idle, Fit, Task, Writing, Rotating, NoFile
<1>4. Fit([t EXCEPT !.pc = "ready", !.line = 0, !.size = @ + 1], I, n)
  <2>1. t.size + 1 \in Nat
    BY <1>a DEF Task
  <2>2. b(t.size + 1) = [t EXCEPT !.pc = "ready", !.line = 0, !.size = @ + 1]
    BY <1>a DEF Task
  <2>3. Fit(b(t.size + 1), I, n)
    <3> HIDE DEF b
    <3> QED
      BY <1>a, <1>c, <2>1 DEF Fit, Writing, Rotating
  <2> QED
    BY <2>2, <2>3
<1> QED
  BY <1>1, <1>2, <1>3, <1>4

\* ... and those in the middle of a rotation.
LEMMA FitRotation ==
    ASSUME NEW I, NEW n \in Nat, NEW t, Fit(t, I, n), t.line # 0, t.file = NoFile,
           keep \in Nat \ {0}
    PROVE  /\ Fit([t EXCEPT !.pc = "open"], I, n)
           /\ t.pc = "look" => Fit([t EXCEPT !.pc = "move"], I, n)
           /\ keep >= 2 => \A k \in 0 .. keep - 2 :
                Fit([t EXCEPT !.k = k, !.pc = IF k > 0 THEN "look" ELSE "current"], I, n)
           /\ \A f \in I : f \in Nat =>
                Fit([t EXCEPT !.pc = "write", !.file = f, !.size = 0], I, n)
<1>1. Fit([t EXCEPT !.pc = "open"], I, n)
  BY DEF Fit, Task, Writing, Rotating
<1>2. t.pc = "look" => Fit([t EXCEPT !.pc = "move"], I, n)
  BY DEF Fit, Task, Writing, Rotating
<1>3. ASSUME keep >= 2, NEW k \in 0 .. keep - 2
      PROVE  Fit([t EXCEPT !.k = k, !.pc = IF k > 0 THEN "look" ELSE "current"], I, n)
  <2> DEFINE pc == IF k > 0 THEN "look" ELSE "current"
             a == [t EXCEPT !.k = k, !.pc = pc]
  <2>1. k \in Nat /\ pc \in {"look", "current"} /\ (pc = "look" => k \in 1 .. keep - 2)
    BY <1>3
  <2> HIDE DEF pc
  <2>2. t \in Task /\ t.file \in {NoFile} \union I /\ t.line \in 0 .. n
    BY DEF Fit
  <2>3. /\ a \in Task /\ a.pc = pc /\ a.k = k /\ a.line = t.line /\ a.file = t.file
    BY <2>1, <2>2 DEF Task
  <2>4. Fit(a, I, n)
    <3> HIDE DEF a
    <3> QED
      BY <1>3, <2>1, <2>2, <2>3 DEF Fit, Writing, Rotating
  <2> QED
    BY <2>4 DEF pc
<1>4. ASSUME NEW f \in I, f \in Nat
      PROVE  Fit([t EXCEPT !.pc = "write", !.file = f, !.size = 0], I, n)
  BY <1>4 DEF Fit, Task, Writing, Rotating
<1> QED
  BY <1>1, <1>2, <1>3, <1>4

\* Steps that touch no file keep them.
LEMMA SameFilesType == ASSUME FilesOK, UNCHANGED files, UNCHANGED keep
                       PROVE  FilesOK' /\ Inode' = Inode
BY DEF FilesOK, files, Name, Inode

\* Every step of a writer.
LEMMA LogType == ASSUME TInv, NEW w \in Writer, Log(w) PROVE TInv'
<1> DEFINE t == task[w]
<1>1. /\ Fit(t, Inode, received) /\ t \in Task
      /\ t.pc \in Writing => t.line # 0
      /\ t.pc \in Rotating => t.file = NoFile
      /\ keep \in Nat \ {0} /\ received \in Nat /\ faults \in Nat
  BY LogAssumption DEF TInv, TasksOK, TaskOK, FilesOK, CountsOK, Fit
<1>2. CASE Start(w)
  <2> DEFINE r(f) == [pc |-> "measure", file |-> f, size |-> 0, k |-> 0, line |-> 0]
  <2>1. CountsOK' /\ received' = received
    BY <1>1, <1>2 DEF Start, Fault, Fine, TInv, CountsOK
  <2>2. ASSUME NEW f \in {NoFile} \union Inode' PROVE Fit(r(f), Inode', received)
    BY <1>1, <2>2 DEF Fit, Task, Writing, Rotating, NoFile, Inode
  <2>3. CASE Create /\ Become(w, r(dir'[0]))
    <3>1. FilesOK' /\ Inode \subseteq Inode' /\ dir'[0] \in Inode'
      BY <2>3, CreateType DEF TInv, Become
    <3> HIDE DEF r
    <3> QED
      BY <1>1, <2>1, <2>2, <2>3, <3>1, BecomeType DEF TInv
  <2>4. CASE UNCHANGED files /\ Become(w, r(NoFile))
    <3>1. FilesOK' /\ Inode' = Inode
      BY <2>4, SameFilesType DEF TInv, Become
    <3> HIDE DEF r
    <3> QED
      BY <1>1, <2>1, <2>2, <2>4, <3>1, BecomeType DEF TInv
  <2> QED
    BY <1>2, <2>3, <2>4 DEF Start
<1>3. CASE Measure(w)
  <2>1. /\ Become(w, [t EXCEPT !.pc = "ready", !.size = Measured(t)])
        /\ UNCHANGED <<files, received, faults, shared>>
    BY <1>3 DEF Measure
  <2>2. FilesOK' /\ Inode' = Inode
    BY <2>1, SameFilesType DEF TInv, Become
  <2>3. Measured(t) \in Nat
    <3>1. CASE t.file = NoFile
      BY <3>1 DEF Measured
    <3>2. CASE t.file # NoFile
      <4>1. body[t.file] \in Seq(Line)
        BY <1>1, <3>2, ElementOfSeq DEF Fit, TInv, FilesOK, Inode
      <4> QED
        BY <3>2, <4>1 DEF Measured
    <3> QED
      BY <3>1, <3>2
  <2>4. Fit([t EXCEPT !.pc = "ready", !.size = Measured(t)], Inode', received')
    BY <1>1, <2>1, <2>2, <2>3, FitChanges
  <2>5. TasksOK' /\ ReaderOK'
    BY <1>1, <2>1, <2>2, <2>4, BecomeType
  <2> QED
    BY <2>1, <2>2, <2>5 DEF TInv, CountsOK
<1>4. CASE Receive(w)
  <2> DEFINE r == IF Full(t)
                  THEN [t EXCEPT !.line = received', !.file = NoFile,
                          !.pc = IF keep = 1 THEN "truncate" ELSE "oldest"]
                  ELSE [t EXCEPT !.line = received', !.pc = "write"]
  <2>1. /\ Become(w, r) /\ UNCHANGED <<files, faults, shared>>
        /\ received < MaxLines /\ received' = received + 1
    BY <1>4 DEF Receive
  <2>2. FilesOK' /\ Inode' = Inode
    BY <2>1, SameFilesType DEF TInv, Become
  <2>3. Fit(r, Inode, received')
    <3>0. received' \in Nat \ {0} /\ t.file \in {NoFile} \union Inode
      BY <1>1, <2>1 DEF Fit
    <3>1. CASE ~Full(t)
      <4>1. /\ r \in Task /\ r.pc = "write" /\ r.line = received' /\ r.file = t.file
        BY <1>1, <3>0, <3>1 DEF Task
      <4> HIDE DEF r
      <4> QED
        BY <3>0, <4>1 DEF Fit, Writing, Rotating
    <3>2. CASE Full(t)
      <4> DEFINE pc == IF keep = 1 THEN "truncate" ELSE "oldest"
      <4>1. /\ pc \in {"truncate", "oldest"}
            /\ pc = "oldest" => keep >= 2
            /\ pc = "truncate" => keep = 1
        BY <1>1
      <4>2. r = [t EXCEPT !.line = received', !.file = NoFile, !.pc = pc]
        BY <3>2
      <4> HIDE DEF pc, r
      <4>3. /\ r \in Task /\ r.pc = pc /\ r.line = received' /\ r.file = NoFile
        BY <1>1, <3>0, <4>1, <4>2 DEF Task, NoFile
      <4> QED
        BY <3>0, <4>1, <4>3 DEF Fit, Writing, Rotating
    <3> QED
      BY <3>1, <3>2
  <2> HIDE DEF r
  <2>4. received' \in 0 .. MaxLines
    BY <1>1, <2>1, LogAssumption
  <2>5. TasksOK' /\ ReaderOK'
    BY <1>1, <2>1, <2>2, <2>3, BecomeType
  <2> QED
    BY <2>1, <2>2, <2>4, <2>5 DEF TInv, CountsOK
<1>5. CASE End(w)
  <2>1. /\ Become(w, Idle)
        /\ UNCHANGED <<files, received, faults, shared>>
    BY <1>5 DEF End
  <2>2. FilesOK' /\ Inode' = Inode
    BY <2>1, SameFilesType DEF TInv, Become
  <2>3. Fit(Idle, Inode', received')
    BY <1>1, <2>1, <2>2, FitChanges
  <2>4. TasksOK' /\ ReaderOK'
    BY <1>1, <2>1, <2>2, <2>3, BecomeType
  <2> QED
    BY <2>1, <2>2, <2>4 DEF TInv, CountsOK
<1>6. ASSUME UNCHANGED <<received, shared>>, faults' \in Nat,
             FilesOK', Inode \subseteq Inode',
             NEW r, Become(w, r), Fit(r, Inode', received)
      PROVE  TInv'
  <2>1. TasksOK' /\ ReaderOK'
    BY <1>1, <1>6, BecomeType
  <2> QED
    BY <1>6, <2>1 DEF TInv, CountsOK
<1>7. ASSUME Fit(t, Inode', received), GiveUp(w)
      PROVE  \E r : Become(w, r) /\ Fit(r, Inode', received)
  BY <1>1, <1>7, FitChanges DEF GiveUp
<1>8. CASE Truncate(w) \/ RemoveOldest(w)
  <2>1. UNCHANGED <<received, shared>> /\ faults' \in Nat /\ t.line # 0 /\ t.file = NoFile
    BY <1>1, <1>8 DEF Truncate, RemoveOldest, Fault, Fine, Writing, Rotating
  <2>2. UNCHANGED keep /\ (UNCHANGED files \/ \E k : Remove(k))
    BY <1>8 DEF Truncate, RemoveOldest, Become, Goto, BackupsFrom
  <2>3. FilesOK' /\ Inode' = Inode
    BY <2>2, SameFilesType, RemoveType DEF TInv
  <2>4. CASE Truncate(w)
    BY <1>1, <1>6, <2>1, <2>3, <2>4, FitRotation DEF Truncate, Goto
  <2>5. CASE RemoveOldest(w)
    <3>1. keep >= 2
      BY <1>1, <2>5 DEF RemoveOldest, Fit
    <3>2. keep - 2 \in 0 .. keep - 2
      BY <1>1, <3>1
    <3> QED
      BY <1>1, <1>6, <2>1, <2>3, <2>5, <3>1, <3>2, FitRotation
         DEF RemoveOldest, BackupsFrom, Shifted
  <2> QED
    BY <1>8, <2>4, <2>5
<1>9. CASE Look(w) \/ Move(w)
  <2>1. t.k \in 1 .. keep - 2 /\ keep >= 2 /\ t.line # 0 /\ t.file = NoFile
    BY <1>1, <1>9 DEF Look, Move, Fit, Writing, Rotating
  <2>2. UNCHANGED <<received, shared>> /\ faults' \in Nat
    BY <1>1, <1>9 DEF Look, Move, Fault, Fine
  <2>3. /\ UNCHANGED keep
        /\ UNCHANGED files \/ (t.k \in DOMAIN dir /\ Rename(t.k))
    BY <1>9 DEF Look, Move, Become, Goto, BackupsFrom, GiveUp
  <2>4. FilesOK' /\ Inode' = Inode
    BY <1>1, <2>1, <2>3, SameFilesType, RenameType DEF TInv
  <2>5. t.k - 1 \in 0 .. keep - 2
    BY <1>1, <2>1
  <2>6. BackupsFrom(w, t.k - 1) => \E r : Become(w, r) /\ Fit(r, Inode', received)
    BY <1>1, <2>1, <2>4, <2>5, FitRotation DEF BackupsFrom
  <2>7. t.pc = "look" /\ Goto(w, "move") => \E r : Become(w, r) /\ Fit(r, Inode', received)
    BY <1>1, <2>1, <2>4, FitRotation DEF Goto
  <2>8. \E r : Become(w, r) /\ Fit(r, Inode', received)
    BY <1>1, <1>7, <1>9, <2>4, <2>6, <2>7 DEF Look, Move
  <2> QED
    BY <1>6, <2>2, <2>4, <2>8
<1>10. CASE Current(w)
  <2>1. keep >= 2 /\ t.line # 0 /\ t.file = NoFile
    BY <1>1, <1>10 DEF Current, Fit, Writing, Rotating
  <2>2. UNCHANGED <<received, shared>> /\ faults' \in Nat
    BY <1>1, <1>10 DEF Current, Fault, Fine
  <2>3. UNCHANGED keep /\ (UNCHANGED files \/ (0 \in DOMAIN dir /\ Rename(0)))
    BY <1>10 DEF Current, Become, Goto, GiveUp
  <2>4. FilesOK' /\ Inode' = Inode
    BY <1>1, <2>1, <2>3, SameFilesType, RenameType DEF TInv
  <2>5. Goto(w, "open") => \E r : Become(w, r) /\ Fit(r, Inode', received)
    BY <1>1, <2>1, <2>4, FitRotation DEF Goto
  <2>6. \E r : Become(w, r) /\ Fit(r, Inode', received)
    BY <1>1, <1>7, <1>10, <2>4, <2>5 DEF Current
  <2> QED
    BY <1>6, <2>2, <2>4, <2>6
<1>11. CASE Reopen(w)
  <2>1. UNCHANGED <<received, shared>> /\ faults' \in Nat /\ t.line # 0 /\ t.file = NoFile
    BY <1>1, <1>11 DEF Reopen, Fault, Fine, Writing, Rotating
  <2>2. CASE UNCHANGED files /\ GiveUp(w)
    <3>1. FilesOK' /\ Inode' = Inode
      BY <2>2, SameFilesType DEF TInv, GiveUp, Become
    <3> QED
      BY <1>1, <1>6, <1>7, <2>1, <2>2, <3>1
  <2>3. CASE /\ Create
             /\ Become(w, [t EXCEPT !.pc = "write", !.file = dir'[0], !.size = 0])
    <3>1. FilesOK' /\ Inode \subseteq Inode' /\ dir'[0] \in Inode'
      BY <2>3, CreateType DEF TInv, Become
    <3>2. dir'[0] \in Nat
      BY <3>1 DEF Inode
    <3>3. Fit(t, Inode', received)
      BY <1>1, <3>1 DEF Fit
    <3> QED
      BY <1>1, <1>6, <2>1, <2>3, <3>1, <3>2, <3>3, FitRotation
  <2> QED
    BY <1>11, <2>2, <2>3 DEF Reopen
<1>12. CASE Write(w)
  <2>1. UNCHANGED <<received, shared>> /\ faults' \in Nat /\ t.line # 0
    BY <1>1, <1>12 DEF Write, Fault, Fine, Writing, Rotating
  <2>2. CASE UNCHANGED files /\ GiveUp(w)
    <3>1. FilesOK' /\ Inode' = Inode
      BY <2>2, SameFilesType DEF TInv, GiveUp, Become
    <3> QED
      BY <1>1, <1>6, <1>7, <2>1, <2>2, <3>1
  <2>3. CASE /\ t.file # NoFile /\ UNCHANGED dir
             /\ Become(w, [t EXCEPT !.pc = "ready", !.line = 0, !.size = @ + 1])
             /\ \/ body' = [body EXCEPT ![t.file] = Append(@, <<w, t.line>>)]
                \/ UNCHANGED body
    <3>0. t.line \in 1 .. MaxLines
      BY <1>1, <2>1, LogAssumption DEF Fit, TInv, CountsOK
    <3>1. t.file \in Inode /\ <<w, t.line>> \in Line
      BY <1>1, <2>3, <3>0 DEF Fit, Line
    <3>2. FilesOK' /\ Inode' = Inode
      BY <2>3, <3>1, AppendType, SameFilesType DEF TInv, Become, files
    <3> QED
      BY <1>1, <1>6, <2>1, <2>3, <3>2, FitChanges
  <2> QED
    BY <1>12, <2>2, <2>3 DEF Write
<1> QED
  BY <1>2, <1>3, <1>4, <1>5, <1>8, <1>9, <1>10, <1>11, <1>12 DEF Log, Rotate

\* The next path is one of those listed.
LEMMA MoveOnType ==
    ASSUME ReaderOK, reader.pc # "off", MoveOn
    PROVE  /\ reader' \in Reader /\ reader'.at \in listed
           /\ reader'.pc = "poll" /\ reader'.start = reader.start
<1>1. PICK k \in After(reader.at) : reader' = [reader EXCEPT !.pc = "poll", !.at = k]
  BY DEF MoveOn
<1>2. k \in listed
  BY <1>1 DEF After, Least
<1>3. k \in Nat
  BY <1>2, LogAssumption DEF ReaderOK, Name
<1> QED
  BY <1>1, <1>2, <1>3 DEF ReaderOK, Reader

\* What a reading prints.
LEMMA RestType ==
    ASSUME FilesOK, NEW k \in DOMAIN dir, NEW start \in Nat
    PROVE  /\ File(k) \in Seq(Line) /\ Len(File(k)) \in Nat
           /\ Rest(k, start) \in Seq(Output)
           /\ \A i \in 1 .. Len(Rest(k, start)) :
                 /\ start + i \in start + 1 .. Len(File(k))
                 /\ Rest(k, start)[i] = [from |-> k, line |-> File(k)[start + i]]
<1> DEFINE f == File(k)
           rest == [i \in 1 .. Len(f) - start |-> [from |-> k, line |-> f[start + i]]]
<1>1. f \in Seq(Line) /\ Len(f) \in Nat /\ k \in Nat
  BY ElementOfSeq, LogAssumption DEF FilesOK, Inode, File, Name
<1> HIDE DEF f
<1>2. rest \in Seq(Output) /\ Len(rest) = IF start <= Len(f) THEN Len(f) - start ELSE 0
  <2>1. ASSUME NEW i \in 1 .. Len(f) - start
        PROVE  [from |-> k, line |-> f[start + i]] \in Output
    <3>1. start + i \in 1 .. Len(f)
      BY <1>1
    <3>2. f[start + i] \in Line
      BY <1>1, <3>1, ElementOfSeq
    <3> QED
      BY <1>1, <3>2 DEF Output
  <2>2. CASE start <= Len(f)
    <3> DEFINE m == Len(f) - start
    <3>1. m \in Nat
      BY <1>1, <2>2
    <3> HIDE DEF m
    <3>2. rest \in [1 .. m -> Output]
      BY <2>1 DEF m
    <3> HIDE DEF rest
    <3>3. rest \in Seq(Output) /\ Len(rest) = m
      BY <3>1, <3>2
    <3> QED
      BY <1>1, <2>2, <3>3 DEF m
  <2>3. CASE start > Len(f)
    <3>1. 1 .. Len(f) - start = {} /\ 1 .. 0 = {}
      BY <1>1, <2>3
    <3>2. rest \in [1 .. 0 -> Output]
      BY <3>1
    <3> HIDE DEF rest
    <3>3. rest \in Seq(Output) /\ Len(rest) = 0
      BY <3>2
    <3> QED
      BY <1>1, <2>3, <3>3
  <2> HIDE DEF rest
  <2> QED
    BY <1>1, <2>2, <2>3
<1>3. ASSUME NEW i \in 1 .. Len(rest)
      PROVE  /\ start + i \in start + 1 .. Len(f)
             /\ rest[i] = [from |-> k, line |-> f[start + i]]
  <2>1. i \in 1 .. Len(f) - start
    <3> HIDE DEF rest
    <3> QED
      BY <1>1, <1>2, <1>3
  <2> QED
    BY <1>1, <2>1
<1>4. Rest(k, start) = rest
  BY DEF Rest, f
<1> QED
  BY <1>1, <1>2, <1>3, <1>4 DEF f

\* Every step of the follower.
LEMMA FollowType == ASSUME TInv, Follow PROVE TInv'
<1>1. UNCHANGED <<keep, files, task, received, faults, shared>>
  BY DEF Follow, List, Poll, ReadFile, Resize
<1>2. FilesOK' /\ TasksOK' /\ CountsOK' /\ Name' = Name
  BY <1>1 DEF TInv, FilesOK, TasksOK, TaskOK, Fit, CountsOK, files, Name, Inode
<1>3. /\ ReaderOK /\ FilesOK /\ DOMAIN dir \subseteq Name
      /\ reader.start \in Nat /\ reader \in Reader
  BY DEF TInv, FilesOK, ReaderOK, Reader
<1>4. ASSUME NEW k \in DOMAIN dir PROVE Len(File(k)) \in Nat
  BY <1>3, <1>4, RestType
<1>5. ReaderOK'
  <2>1. CASE List
    <3>1. PICK k \in DOMAIN dir : reader' = [reader EXCEPT !.pc = "poll", !.at = k]
      BY <2>1 DEF List, Least
    <3>2. k \in Nat
      BY <1>3, LogAssumption DEF FilesOK, Name
    <3>3. reader' \in Reader /\ reader'.at = k
      BY <1>3, <3>1, <3>2 DEF Reader
    <3> QED
      BY <1>2, <1>3, <2>1, <3>3 DEF List, ReaderOK
  <2>2. CASE Poll
    <3> DEFINE k == reader.at
    <3>1. k \in Name /\ reader.pc # "off" /\ k \in listed
      BY <1>3, <2>2 DEF Poll, ReaderOK
    <3>2. CASE k \in DOMAIN dir /\ (Replaced(k, Len(File(k))) \/ Len(File(k)) > pos[k])
      <4>1. PICK st \in Nat : reader' = [reader EXCEPT !.pc = "read", !.start = st]
        BY <1>3, <2>2, <3>1, <3>2 DEF Poll, ReaderOK
      <4>2. reader' \in Reader /\ reader'.at = k
        BY <1>3, <4>1 DEF Reader
      <4> QED
        BY <1>2, <1>3, <2>2, <3>1, <3>2, <4>2 DEF Poll, ReaderOK
    <3>3. CASE ~ (k \in DOMAIN dir /\ (Replaced(k, Len(File(k))) \/ Len(File(k)) > pos[k]))
      <4>1. /\ MoveOn /\ UNCHANGED <<listed, pos, printed>>
            /\ last' = [last EXCEPT ![k] = IF k \in DOMAIN dir THEN Len(File(k)) ELSE @]
        BY <2>2, <3>3 DEF Poll
      <4>2. last' \in [Name -> Nat]
        BY <1>3, <1>4, <3>1, <4>1 DEF ReaderOK
      <4>3. reader' \in Reader /\ reader'.at \in listed
        BY <1>3, <3>1, <4>1, MoveOnType
      <4> QED
        BY <1>2, <1>3, <4>1, <4>2, <4>3 DEF ReaderOK
    <3> QED
      BY <3>2, <3>3
  <2>3. CASE ReadFile
    <3> DEFINE k == reader.at
    <3>1. k \in Name /\ reader.pc # "off" /\ k \in listed
      BY <1>3, <2>3 DEF ReadFile, ReaderOK
    <3>2. CASE k \notin DOMAIN dir
      BY <1>2, <1>3, <2>3, <3>1, <3>2 DEF ReadFile, ReaderOK, Reader
    <3>3. CASE k \in DOMAIN dir
      <4>1. /\ printed' = printed \o Rest(k, reader.start)
            /\ reader' = [reader EXCEPT !.pc = "size", !.start = 0]
            /\ pos' = [pos EXCEPT ![k] = IF Len(File(k)) > reader.start
                                         THEN Len(File(k)) ELSE reader.start]
            /\ UNCHANGED <<listed, last>>
        BY <2>3, <3>3 DEF ReadFile
      <4>2. Rest(k, reader.start) \in Seq(Output) /\ Len(File(k)) \in Nat
        BY <1>3, <3>3, RestType
      <4>3. printed' \in Seq(Output)
        BY <1>3, <4>1, <4>2, ConcatProperties DEF ReaderOK
      <4>4. reader' \in Reader /\ reader'.at = k
        BY <1>3, <4>1 DEF Reader
      <4>5. pos' \in [Name -> Nat]
        BY <1>3, <3>1, <4>1, <4>2 DEF ReaderOK
      <4> QED
        BY <1>2, <1>3, <3>1, <4>1, <4>3, <4>4, <4>5 DEF ReaderOK
    <3> QED
      BY <3>2, <3>3
  <2>4. CASE Resize
    <3> DEFINE k == reader.at
    <3>1. k \in Name /\ reader.pc # "off" /\ k \in listed
      BY <1>3, <2>4 DEF Resize, ReaderOK
    <3>2. CASE k \notin DOMAIN dir
      BY <1>2, <1>3, <2>4, <3>1, <3>2 DEF Resize, ReaderOK, Reader
    <3>3. CASE k \in DOMAIN dir
      <4>1. /\ MoveOn /\ UNCHANGED <<listed, pos, printed>>
            /\ last' = [last EXCEPT ![k] = Len(File(k))]
        BY <2>4, <3>3 DEF Resize
      <4>2. last' \in [Name -> Nat]
        BY <1>3, <1>4, <3>1, <3>3, <4>1 DEF ReaderOK
      <4>3. reader' \in Reader /\ reader'.at \in listed
        BY <1>3, <3>1, <4>1, MoveOnType
      <4> QED
        BY <1>2, <1>3, <4>1, <4>2, <4>3 DEF ReaderOK
    <3> QED
      BY <3>2, <3>3
  <2> QED
    BY <2>1, <2>2, <2>3, <2>4 DEF Follow
<1> QED
  BY <1>2, <1>5 DEF TInv

LEMMA InitType == Init => TInv
<1> SUFFICES ASSUME Init PROVE TInv
  OBVIOUS
<1>1. FilesOK
  BY EmptySeq DEF Init, FilesOK, Name, Inode
<1>2. TasksOK
  BY DEF Init, Idle, TasksOK, TaskOK, Fit, Task, Writing, Rotating, NoFile
<1>3. CountsOK
  <2>1. 0 \in 0 .. MaxLines
    BY LogAssumption
  <2> QED
    BY <2>1 DEF Init, CountsOK
<1>4. ReaderOK
  BY EmptySeq DEF Init, ReaderOK, Reader, Output
<1> QED
  BY <1>1, <1>2, <1>3, <1>4 DEF TInv

LEMMA NextType == TInv /\ [Next]_vars => TInv'
<1> SUFFICES ASSUME TInv, [Next]_vars PROVE TInv'
  OBVIOUS
<1>1. CASE UNCHANGED vars
  BY <1>1 DEF TInv, FilesOK, TasksOK, TaskOK, Fit, CountsOK, ReaderOK, vars, follower,
           Name, Inode
<1> QED
  BY <1>1, LogType, FollowType DEF Next

\* The log is well formed, whatever calls fail.
THEOREM LogTypes == Spec => []TypeOK
<1>1. TInv => TypeOK
  BY DEF TInv, FilesOK, TasksOK, TaskOK, Fit, CountsOK, ReaderOK, TypeOK
<1> QED
  BY <1>1, InitType, NextType, PTL DEF Spec

-----------------------------------------------------------------------------
(***************************************************************************)
(* The order of the lines.                                                 *)
(***************************************************************************)

Lines(n) == {body[n][i] : i \in 1 .. Len(body[n])}
Ordered(n) == \A i, j \in 1 .. Len(body[n]) : i < j => Before(body[n][i], body[n][j])

\* Inodes are numbered in the order they come about: an older name has an
\* older file, and the current file is the newest of all.
NamesInOrder ==
    /\ \A k, l \in DOMAIN dir : k < l => dir[l] < dir[k]
    /\ 0 \in DOMAIN dir => dir[0] = Len(body)
OrderedFiles == \A n \in Inode : Ordered(n)
OrderedInodes == \A m, n \in Inode : m < n =>
                     \A a \in Lines(m), b \in Lines(n) : Before(a, b)
NoneNewer(w) == task[w].file # NoFile =>
                    \A n \in Inode : n > task[w].file => \A l \in Lines(n) : l[1] # w
Fresh(w) == \A n \in Inode : \A l \in Lines(n) : l[1] = w =>
                /\ l[2] <= received
                /\ task[w].line # 0 => l[2] < task[w].line
OInv == /\ NamesInOrder /\ OrderedFiles /\ OrderedInodes
        /\ \A w \in Writer : NoneNewer(w) /\ Fresh(w)

\* No call turns the order of the names round.
LEMMA RemoveNames == ASSUME NamesInOrder, NEW k, Remove(k) PROVE NamesInOrder'
BY DEF NamesInOrder, Remove

LEMMA RenameNames ==
    ASSUME FilesOK, NamesInOrder, NEW k \in DOMAIN dir, Rename(k)
    PROVE  NamesInOrder'
<1> DEFINE was(x) == IF x = k + 1 THEN k ELSE x
<1>1. DOMAIN dir \subseteq Nat
  BY LogAssumption DEF FilesOK, Name
<1>2. /\ DOMAIN dir' = (DOMAIN dir \ {k}) \union {k + 1}
      /\ \A x \in DOMAIN dir' : dir'[x] = dir[was(x)] /\ was(x) \in DOMAIN dir
      /\ UNCHANGED body
  BY DEF Rename
<1>3. ASSUME NEW x \in DOMAIN dir', NEW y \in DOMAIN dir', x < y
      PROVE  dir'[y] < dir'[x]
  <2>1. was(x) < was(y)
    BY <1>1, <1>2, <1>3
  <2> QED
    BY <1>2, <2>1 DEF NamesInOrder
<1>4. 0 \in DOMAIN dir' => dir'[0] = Len(body')
  BY <1>1, <1>2 DEF NamesInOrder
<1> QED
  BY <1>3, <1>4 DEF NamesInOrder

\* What opening the current file does: it may add an empty file, the newest.
LEMMA CreateBody ==
    ASSUME FilesOK, NamesInOrder, Create
    PROVE  /\ Inode \subseteq Inode' /\ \A n \in Inode : body'[n] = body[n]
           /\ \A n \in Inode' \ Inode : n = dir'[0] /\ body'[n] = <<>>
           /\ dir'[0] = Len(body') /\ dir'[0] \in Inode'
           /\ 0 \in DOMAIN dir => UNCHANGED files
           /\ 0 \notin DOMAIN dir => dir'[0] = Len(body) + 1 /\ body'[dir'[0]] = <<>>
<1>1. CASE 0 \in DOMAIN dir
  <2>1. UNCHANGED <<body, dir>>
    BY <1>1 DEF Create, files
  <2>2. dir[0] = Len(body) /\ dir[0] \in Inode
    BY <1>1 DEF NamesInOrder, FilesOK
  <2> QED
    BY <1>1, <2>1, <2>2 DEF Inode, files
<1>2. CASE 0 \notin DOMAIN dir
  <2>1. body' = Append(body, <<>>) /\ dir'[0] = Len(body')
    BY <1>2 DEF Create
  <2>2. body \in Seq(Seq(Line)) /\ <<>> \in Seq(Line) /\ Len(body) \in Nat
    BY EmptySeq DEF FilesOK
  <2>3. /\ Len(body') = Len(body) + 1 /\ body'[Len(body) + 1] = <<>>
        /\ \A n \in 1 .. Len(body) : body'[n] = body[n]
    BY <2>1, <2>2, AppendProperties
  <2>4. Inode = 1 .. Len(body) /\ Inode' = 1 .. Len(body) + 1
    BY <2>3 DEF Inode
  <2>5. \A n \in Inode' \ Inode : n = Len(body) + 1
    BY <2>2, <2>4
  <2>6. Inode \subseteq Inode' /\ Len(body) + 1 \in Inode'
    BY <2>2, <2>4
  <2> QED
    BY <1>2, <2>1, <2>3, <2>4, <2>5, <2>6
<1> QED
  BY <1>1, <1>2

LEMMA CreateNames == ASSUME FilesOK, NamesInOrder, Create PROVE NamesInOrder'
<1>1. CASE 0 \in DOMAIN dir
  BY <1>1 DEF Create, files, NamesInOrder
<1>2. CASE 0 \notin DOMAIN dir
  <2>1. dir' = [l \in DOMAIN dir \union {0} |-> IF l = 0 THEN Len(body') ELSE dir[l]]
    BY <1>2 DEF Create
  <2>2. dir'[0] = Len(body') /\ dir'[0] = Len(body) + 1
    BY <1>2, CreateBody
  <2>3. DOMAIN dir \subseteq Nat /\ Len(body) \in Nat /\ \A l \in DOMAIN dir : dir[l] \in Inode
    BY LogAssumption DEF FilesOK, Name
  <2>4. DOMAIN dir' = DOMAIN dir \union {0} /\ \A l \in DOMAIN dir : dir'[l] = dir[l]
    BY <1>2, <2>1
  <2>5. ASSUME NEW k \in DOMAIN dir', NEW l \in DOMAIN dir', k < l
        PROVE  dir'[l] < dir'[k]
    <3>1. l \in DOMAIN dir
      BY <2>3, <2>4, <2>5
    <3>2. CASE k \in DOMAIN dir
      BY <2>4, <2>5, <3>1, <3>2 DEF NamesInOrder
    <3>3. CASE k = 0
      <4>1. dir'[l] \in Inode
        BY <2>3, <2>4, <3>1
      <4> QED
        BY <2>2, <2>3, <3>3, <4>1 DEF Inode
    <3> QED
      BY <2>4, <3>2, <3>3
  <2> QED
    BY <2>2, <2>5 DEF NamesInOrder
<1> QED
  BY <1>1, <1>2

\* A writer's new task, when the files keep their lines.
LEMMA QuietOrder ==
    ASSUME TInv, OInv, NEW w \in Writer, NEW t, Become(w, t), UNCHANGED body, NamesInOrder',
           received' = received \/ received' = received + 1,
           t.file = NoFile \/ t.file = task[w].file,
           t.line \in {0, task[w].line} \/ t.line = received + 1
    PROVE  OInv'
<1>1. Inode' = Inode /\ \A n \in Inode : Lines(n)' = Lines(n) /\ Ordered(n)' = Ordered(n)
  BY DEF Inode, Lines, Ordered
<1>2. OrderedFiles' /\ OrderedInodes'
  BY <1>1 DEF OInv, OrderedFiles, OrderedInodes
<1>3. \A v \in Writer : task'[v] = IF v = w THEN t ELSE task[v]
  BY DEF Become, TInv, TasksOK
<1>4. received \in Nat /\ \A n \in Inode : \A l \in Lines(n) : l[2] \in Nat
  <2>1. ASSUME NEW n \in Inode, NEW i \in 1 .. Len(body[n]) PROVE body[n][i][2] \in Nat
    <3>1. body[n] \in Seq(Line)
      BY ElementOfSeq DEF TInv, FilesOK, Inode
    <3>2. body[n][i] \in Line
      BY <3>1, ElementOfSeq
    <3> QED
      BY <3>2, LogAssumption DEF Line
  <2> QED
    BY <2>1 DEF Lines, TInv, CountsOK
<1>5. ASSUME NEW v \in Writer PROVE NoneNewer(v)'
  <2>1. task'[v].file = NoFile \/ task'[v].file = task[v].file
    BY <1>3
  <2> QED
    BY <1>1, <2>1 DEF OInv, NoneNewer
<1>6. ASSUME NEW v \in Writer PROVE Fresh(v)'
  <2>1. ASSUME NEW n \in Inode, NEW l \in Lines(n), l[1] = v
        PROVE  l[2] <= received' /\ (task'[v].line # 0 => l[2] < task'[v].line)
    <3>1. l[2] \in Nat /\ l[2] <= received /\ (task[v].line # 0 => l[2] < task[v].line)
      BY <1>4, <2>1 DEF OInv, Fresh
    <3> QED
      BY <1>3, <1>4, <3>1
  <2> QED
    BY <1>1, <2>1 DEF Fresh
<1> QED
  BY <1>2, <1>5, <1>6 DEF OInv

\* ... when it opens the current file, ...
LEMMA CreateOrder ==
    ASSUME TInv, OInv, NEW w \in Writer, NEW t, Become(w, t), Create,
           UNCHANGED received, t.file = dir'[0], t.line \in {0, task[w].line}
    PROVE  OInv'
<1>1. FilesOK /\ NamesInOrder
  BY DEF TInv, OInv
<1>2. /\ Inode \subseteq Inode' /\ \A n \in Inode : body'[n] = body[n]
      /\ \A n \in Inode' \ Inode : n = dir'[0] /\ body'[n] = <<>>
      /\ dir'[0] = Len(body') /\ dir'[0] \in Inode'
  BY <1>1, CreateBody
<1>3. \A n \in Inode : Lines(n)' = Lines(n) /\ Ordered(n)' = Ordered(n)
  BY <1>2 DEF Lines, Ordered
<1>4. \A n \in Inode' \ Inode : Lines(n)' = {} /\ Ordered(n)'
  BY <1>2 DEF Lines, Ordered
<1>5. \A v \in Writer : task'[v] = IF v = w THEN t ELSE task[v]
  BY DEF Become, TInv, TasksOK
<1>6. NamesInOrder'
  BY <1>1, CreateNames
<1>7. OrderedFiles'
  BY <1>3, <1>4 DEF OInv, OrderedFiles
<1>8. OrderedInodes'
  <2>1. ASSUME NEW m \in Inode', NEW n \in Inode', m < n
        PROVE  \A a \in Lines(m)', b \in Lines(n)' : Before(a, b)
    <3>1. CASE m \in Inode /\ n \in Inode
      BY <1>3, <2>1, <3>1 DEF OInv, OrderedInodes
    <3>2. CASE m \notin Inode \/ n \notin Inode
      BY <1>4, <3>2
    <3> QED
      BY <3>1, <3>2
  <2> QED
    BY <2>1 DEF OrderedInodes
<1>9. ASSUME NEW v \in Writer PROVE NoneNewer(v)'
  <2>1. CASE v = w
    <3>1. \A n \in Inode' : ~ (n > task'[v].file)
      BY <1>2, <1>5, <2>1 DEF Inode
    <3> QED
      BY <3>1 DEF NoneNewer
  <2>2. CASE v # w
    BY <1>3, <1>4, <1>5, <2>2 DEF OInv, NoneNewer
  <2> QED
    BY <2>1, <2>2
<1>10. ASSUME NEW v \in Writer PROVE Fresh(v)'
  <2>1. ASSUME NEW n \in Inode', NEW l \in Lines(n)', l[1] = v
        PROVE  l[2] <= received' /\ (task'[v].line # 0 => l[2] < task'[v].line)
    <3>1. n \in Inode /\ l \in Lines(n)
      BY <1>3, <1>4
    <3>2. l[2] <= received /\ (task[v].line # 0 => l[2] < task[v].line)
      BY <2>1, <3>1 DEF OInv, Fresh
    <3> QED
      BY <1>5, <3>2
  <2> QED
    BY <2>1 DEF Fresh
<1> QED
  BY <1>6, <1>7, <1>8, <1>9, <1>10 DEF OInv

\* A line appended to a file.
LEMMA AppendLines ==
    ASSUME FilesOK, NEW n \in Inode, NEW l \in Line,
           body' = [body EXCEPT ![n] = Append(@, l)]
    PROVE  /\ Inode' = Inode /\ Lines(n)' = Lines(n) \union {l}
           /\ \A m \in Inode : m # n => body'[m] = body[m] /\ Lines(m)' = Lines(m)
           /\ Len(body'[n]) = Len(body[n]) + 1 /\ Len(body[n]) \in Nat
           /\ Len(body') = Len(body)
           /\ \A i \in 1 .. Len(body[n]) : body'[n][i] = body[n][i]
           /\ body'[n][Len(body[n]) + 1] = l
           /\ \A i \in 1 .. Len(body'[n]) : i \in 1 .. Len(body[n]) \/ i = Len(body[n]) + 1
<1>0. body[n] \in Seq(Line) /\ body \in Seq(Seq(Line)) /\ n \in 1 .. Len(body)
  BY ElementOfSeq DEF FilesOK, Inode
<1>1. Append(body[n], l) \in Seq(Line)
  BY <1>0
<1>2. /\ Len(body') = Len(body) /\ Inode' = Inode
      /\ \A m \in Inode : body'[m] = IF m = n THEN Append(body[n], l) ELSE body[m]
  BY <1>0, <1>1, ExceptSeq DEF Inode
<1>3. /\ Len(body'[n]) = Len(body[n]) + 1 /\ Len(body[n]) \in Nat
      /\ \A i \in 1 .. Len(body[n]) : body'[n][i] = body[n][i]
      /\ body'[n][Len(body[n]) + 1] = l
  BY <1>0, <1>2, AppendProperties
<1>4. \A i : i \in 1 .. Len(body'[n]) <=> i \in 1 .. Len(body[n]) \/ i = Len(body[n]) + 1
  BY <1>3
<1>5. \A m \in Inode : m # n => Lines(m)' = Lines(m)
  BY <1>2 DEF Lines
<1>6. Lines(n)' = Lines(n) \union {l}
  <2>1. ASSUME NEW a \in Lines(n) PROVE a \in Lines(n)'
    <3>1. PICK i \in 1 .. Len(body[n]) : a = body[n][i]
      BY <2>1 DEF Lines
    <3> QED
      BY <1>3, <1>4, <3>1 DEF Lines
  <2>2. l \in Lines(n)'
    <3>1. Len(body[n]) + 1 \in 1 .. Len(body'[n])
      BY <1>4
    <3> QED
      BY <1>3, <3>1 DEF Lines
  <2>3. ASSUME NEW a \in Lines(n)' PROVE a \in Lines(n) \union {l}
    <3>1. PICK i \in 1 .. Len(body'[n]) : a = body'[n][i]
      BY <2>3 DEF Lines
    <3>2. CASE i \in 1 .. Len(body[n])
      BY <1>3, <3>1, <3>2 DEF Lines
    <3>3. CASE i = Len(body[n]) + 1
      BY <1>3, <3>1, <3>3
    <3> QED
      BY <1>4, <3>2, <3>3
  <2> QED
    BY <2>1, <2>2, <2>3
<1> QED
  BY <1>2, <1>3, <1>4, <1>5, <1>6

\* ... and when its line is appended to the file it has open.
LEMMA AppendOrder ==
    ASSUME TInv, OInv, NEW w \in Writer, NEW t, Become(w, t), UNCHANGED <<dir, received>>,
           NEW n \in Inode, n = task[w].file, NEW x \in 1 .. MaxLines, x = task[w].line,
           x <= received, body' = [body EXCEPT ![n] = Append(@, <<w, x>>)],
           t.file = n, t.line = 0
    PROVE  OInv'
<1> DEFINE l == <<w, x>>
<1>1. l \in Line /\ FilesOK
  BY DEF Line, TInv
<1>2. /\ Inode' = Inode /\ Lines(n)' = Lines(n) \union {l}
      /\ \A m \in Inode : m # n => body'[m] = body[m] /\ Lines(m)' = Lines(m)
      /\ Len(body') = Len(body)
  BY <1>1, AppendLines
<1>3. /\ Len(body'[n]) = Len(body[n]) + 1 /\ Len(body[n]) \in Nat
      /\ \A i \in 1 .. Len(body[n]) : body'[n][i] = body[n][i]
      /\ body'[n][Len(body[n]) + 1] = l
      /\ \A i \in 1 .. Len(body'[n]) : i \in 1 .. Len(body[n]) \/ i = Len(body[n]) + 1
  BY <1>1, AppendLines
<1>4. \A m \in Inode : m # n => Ordered(m)' = Ordered(m)
  BY <1>2 DEF Ordered
<1>5. l[1] = w /\ l[2] = x
  OBVIOUS
<1> HIDE DEF l
<1>6. \A m \in Inode : \A a \in Lines(m) : Before(a, l)
  BY <1>5 DEF OInv, Fresh, Before
<1>7. Ordered(n)'
  <2>1. Ordered(n) /\ \A i \in 1 .. Len(body[n]) : Before(body[n][i], l)
    BY <1>6 DEF OInv, OrderedFiles, Lines
  <2>2. ASSUME NEW i \in 1 .. Len(body'[n]), NEW j \in 1 .. Len(body'[n]), i < j
        PROVE  Before(body'[n][i], body'[n][j])
    <3>1. i \in 1 .. Len(body[n])
      BY <1>3, <2>2
    <3>2. CASE j \in 1 .. Len(body[n])
      BY <1>3, <2>1, <2>2, <3>1, <3>2 DEF Ordered
    <3>3. CASE j = Len(body[n]) + 1
      BY <1>3, <2>1, <3>1, <3>3
    <3> QED
      BY <1>3, <3>2, <3>3
  <2> QED
    BY <2>2 DEF Ordered
<1>8. OrderedFiles' /\ NamesInOrder'
  BY <1>2, <1>4, <1>7 DEF OInv, OrderedFiles, NamesInOrder
<1>9. OrderedInodes'
  <2>1. ASSUME NEW m \in Inode, NEW o \in Inode, m < o
        PROVE  \A a \in Lines(m)', b \in Lines(o)' : Before(a, b)
    <3>1. \A a \in Lines(m), b \in Lines(o) : Before(a, b)
      BY <2>1 DEF OInv, OrderedInodes
    <3>2. CASE m = n
      <4>1. NoneNewer(w) /\ n # NoFile
        BY DEF OInv, Inode, NoFile
      <4>2. o # n /\ \A b \in Lines(o) : b[1] # w
        BY <2>1, <3>2, <4>1 DEF NoneNewer, Inode
      <4>3. \A b \in Lines(o) : Before(l, b)
        BY <1>5, <4>2 DEF Before
      <4> QED
        BY <1>2, <3>1, <3>2, <4>2, <4>3
    <3>3. CASE m # n
      BY <1>2, <1>6, <3>1, <3>3
    <3> QED
      BY <3>2, <3>3
  <2> QED
    BY <1>2, <2>1 DEF OrderedInodes
<1>10. \A v \in Writer : task'[v] = IF v = w THEN t ELSE task[v]
  BY DEF Become, TInv, TasksOK
<1>11. ASSUME NEW v \in Writer PROVE NoneNewer(v)'
  <2>1. task'[v].file = task[v].file
    BY <1>10
  <2>2. ASSUME task[v].file # NoFile, NEW o \in Inode, o > task[v].file
        PROVE  \A a \in Lines(o)' : a[1] # v
    <3>1. \A a \in Lines(o) : a[1] # v
      BY <2>2 DEF OInv, NoneNewer
    <3>2. v = w => o # n
      BY <2>2 DEF Inode
    <3> QED
      BY <1>2, <1>5, <3>1, <3>2
  <2> QED
    BY <1>2, <2>1, <2>2 DEF NoneNewer
<1>12. ASSUME NEW v \in Writer PROVE Fresh(v)'
  <2>1. ASSUME NEW m \in Inode, NEW a \in Lines(m)', a[1] = v
        PROVE  a[2] <= received /\ (task'[v].line # 0 => a[2] < task'[v].line)
    <3>1. CASE a \in Lines(m)
      BY <1>10, <2>1, <3>1 DEF OInv, Fresh
    <3>2. CASE a \notin Lines(m)
      <4>1. a = l
        BY <1>2, <2>1, <3>2
      <4>2. v = w /\ a[2] = x
        BY <1>5, <2>1, <4>1
      <4> QED
        BY <1>10, <4>2
    <3> QED
      BY <3>1, <3>2
  <2> QED
    BY <1>2, <2>1 DEF Fresh
<1> QED
  BY <1>8, <1>9, <1>11, <1>12 DEF OInv

\* Every step of a writer keeps the order.
LEMMA LogOrder == ASSUME TInv, OInv, NEW w \in Writer, Log(w) PROVE OInv'
<1> DEFINE t == task[w]
<1>1. /\ t \in Task /\ FilesOK /\ t.line \in 0 .. received /\ t.file \in {NoFile} \union Inode
      /\ t.pc \in Writing => t.line # 0
  BY DEF TInv, TasksOK, TaskOK, Fit
<1>2. ASSUME NEW r, Become(w, r),
             r.file \in {NoFile, t.file},
             \/ r.line \in {0, t.line} /\ UNCHANGED received
             \/ r.line = received + 1 /\ received' = received + 1,
             UNCHANGED files \/ \E k : Remove(k) \/ (k \in DOMAIN dir /\ Rename(k))
      PROVE  OInv'
  <2>1. UNCHANGED body
    BY <1>2 DEF files, Remove, Rename
  <2>2. NamesInOrder
    BY DEF OInv
  <2>3. NamesInOrder'
    <3>1. CASE UNCHANGED files
      BY <2>2, <3>1 DEF files, NamesInOrder
    <3>2. CASE \E k : Remove(k) \/ (k \in DOMAIN dir /\ Rename(k))
      BY <1>1, <2>2, <3>2, RemoveNames, RenameNames
    <3> QED
      BY <1>2, <3>1, <3>2
  <2> QED
    BY <1>2, <2>1, <2>3, QuietOrder
<1>3. ASSUME UNCHANGED received, GiveUp(w),
             UNCHANGED files \/ \E k : Remove(k) \/ (k \in DOMAIN dir /\ Rename(k))
      PROVE  OInv'
  <2> DEFINE r == [t EXCEPT !.pc = "ready", !.line = 0]
  <2>1. r.file = t.file /\ r.line = 0 /\ Become(w, r)
    BY <1>1, <1>3 DEF GiveUp, Task
  <2> HIDE DEF r
  <2> QED
    BY <1>2, <1>3, <2>1
<1>4. ASSUME UNCHANGED received, NEW pc, Goto(w, pc),
             UNCHANGED files \/ \E k : Remove(k) \/ (k \in DOMAIN dir /\ Rename(k))
      PROVE  OInv'
  <2> DEFINE r == [t EXCEPT !.pc = pc]
  <2>1. r.file = t.file /\ r.line = t.line /\ Become(w, r)
    BY <1>1, <1>4 DEF Goto, Task
  <2> HIDE DEF r
  <2> QED
    BY <1>2, <1>4, <2>1
<1>5. ASSUME UNCHANGED received, NEW k, BackupsFrom(w, k),
             UNCHANGED files \/ \E l : Remove(l) \/ (l \in DOMAIN dir /\ Rename(l))
      PROVE  OInv'
  <2> DEFINE r == [t EXCEPT !.k = k, !.pc = IF k > 0 THEN "look" ELSE "current"]
  <2>1. r.file = t.file /\ r.line = t.line /\ Become(w, r)
    BY <1>1, <1>5 DEF BackupsFrom, Task
  <2> HIDE DEF r
  <2> QED
    BY <1>2, <1>5, <2>1
<1>6. CASE Start(w)
  <2> DEFINE r(f) == [pc |-> "measure", file |-> f, size |-> 0, k |-> 0, line |-> 0]
  <2>1. \A f : r(f).file = f /\ r(f).line = 0
    OBVIOUS
  <2>2. /\ UNCHANGED received
        /\ \/ Create /\ Become(w, r(dir'[0]))
           \/ UNCHANGED files /\ Become(w, r(NoFile))
    BY <1>6 DEF Start
  <2> HIDE DEF r
  <2> QED
    BY <1>2, <2>1, <2>2, CreateOrder
<1>7. CASE Measure(w)
  <2> DEFINE r == [t EXCEPT !.pc = "ready", !.size = Measured(t)]
  <2>1. r.file = t.file /\ r.line = t.line /\ Become(w, r) /\ UNCHANGED <<files, received>>
    BY <1>1, <1>7 DEF Measure, Task
  <2> HIDE DEF r
  <2> QED
    BY <1>2, <2>1
<1>8. CASE Receive(w)
  <2> DEFINE r == IF Full(t)
                  THEN [t EXCEPT !.line = received', !.file = NoFile,
                          !.pc = IF keep = 1 THEN "truncate" ELSE "oldest"]
                  ELSE [t EXCEPT !.line = received', !.pc = "write"]
  <2>1. Become(w, r) /\ UNCHANGED files /\ received' = received + 1
    BY <1>8 DEF Receive
  <2>2. r.file \in {NoFile, t.file} /\ r.line = received'
    BY <1>1 DEF Task
  <2> HIDE DEF r
  <2> QED
    BY <1>2, <2>1, <2>2
<1>9. CASE End(w)
  <2> DEFINE r == Idle
  <2>1. r.file = NoFile /\ r.line = 0 /\ Become(w, r) /\ UNCHANGED <<files, received>>
    BY <1>1, <1>9 DEF End, Idle
  <2> HIDE DEF r
  <2> QED
    BY <1>2, <2>1
<1>10. CASE Rotate(w) /\ ~ Reopen(w)
  <2>1. UNCHANGED received
    BY <1>10 DEF Rotate, Truncate, RemoveOldest, Look, Move, Current
  <2>2. UNCHANGED files \/ \E k : Remove(k) \/ (k \in DOMAIN dir /\ Rename(k))
    BY <1>10 DEF Rotate, Truncate, RemoveOldest, Look, Move, Current
  <2>3. GiveUp(w) \/ (\E pc : Goto(w, pc)) \/ (\E k : BackupsFrom(w, k))
    BY <1>10 DEF Rotate, Truncate, RemoveOldest, Look, Move, Current
  <2> QED
    BY <1>3, <1>4, <1>5, <2>1, <2>2, <2>3
<1>11. CASE Reopen(w)
  <2> DEFINE r == [t EXCEPT !.pc = "write", !.file = dir'[0], !.size = 0]
  <2>1. r.file = dir'[0] /\ r.line = t.line
    BY <1>1 DEF Task
  <2>2. /\ UNCHANGED received
        /\ \/ Create /\ Become(w, r)
           \/ UNCHANGED files /\ GiveUp(w)
    BY <1>11 DEF Reopen
  <2> HIDE DEF r
  <2> QED
    BY <1>3, <2>1, <2>2, CreateOrder
<1>12. CASE Write(w)
  <2> DEFINE r == [t EXCEPT !.pc = "ready", !.line = 0, !.size = @ + 1]
  <2>1. UNCHANGED received /\ t.line # 0
    BY <1>1, <1>12 DEF Write, Writing, Rotating
  <2>2. r.file = t.file /\ r.line = 0
    BY <1>1 DEF Task
  <2>3. \/ UNCHANGED files /\ GiveUp(w)
        \/ /\ t.file # NoFile /\ UNCHANGED dir /\ Become(w, r)
           /\ body' = [body EXCEPT ![t.file] = Append(@, <<w, t.line>>)] \/ UNCHANGED body
    BY <1>12 DEF Write
  <2> HIDE DEF r
  <2>4. CASE UNCHANGED body /\ UNCHANGED dir /\ Become(w, r)
    BY <1>2, <2>1, <2>2, <2>4 DEF files
  <2>5. CASE /\ t.file # NoFile /\ UNCHANGED dir /\ Become(w, r)
             /\ body' = [body EXCEPT ![t.file] = Append(@, <<w, t.line>>)]
    <3>1. t.file \in Inode /\ t.line \in 1 .. MaxLines /\ t.line <= received
      BY <1>1, <2>1, <2>5, LogAssumption DEF TInv, CountsOK
    <3> QED
      BY <2>1, <2>2, <2>5, <3>1, AppendOrder
  <2> QED
    BY <1>3, <2>1, <2>3, <2>4, <2>5
<1> QED
  BY <1>6, <1>7, <1>8, <1>9, <1>10, <1>11, <1>12 DEF Log, Rotate

LEMMA OrderStep == TInv /\ OInv /\ [Next]_vars => OInv'
<1> SUFFICES ASSUME TInv, OInv, [Next]_vars PROVE OInv'
  OBVIOUS
<1>1. CASE UNCHANGED vars \/ Follow
  <2>1. UNCHANGED <<body, dir, task, received>>
    BY <1>1 DEF vars, files, follower, Follow, List, Poll, ReadFile, Resize
  <2> QED
    BY <2>1 DEF OInv, NamesInOrder, OrderedFiles, OrderedInodes, NoneNewer, Fresh, Lines,
                Ordered, Inode
<1> QED
  BY <1>1, LogOrder DEF Next

\* With any number of children, and whatever calls fail, the files read from
\* the oldest to the current one hold each child's lines in their order.
THEOREM LinesStayInOrder == Spec => []LinesInOrder
<1>1. Init => OInv
  BY DEF Init, OInv, NamesInOrder, OrderedFiles, OrderedInodes, NoneNewer, Fresh, Inode
<1>2. TInv /\ OInv => LinesInOrder
  <2> SUFFICES ASSUME TInv, OInv,
                      NEW k \in DOMAIN dir, NEW l \in DOMAIN dir,
                      NEW i \in 1 .. Len(File(k)), NEW j \in 1 .. Len(File(l)),
                      k > l \/ (k = l /\ i < j)
               PROVE  Before(File(k)[i], File(l)[j])
    BY DEF LinesInOrder
  <2>1. dir[k] \in Inode /\ dir[l] \in Inode
    BY DEF TInv, FilesOK
  <2>2. CASE k = l /\ i < j
    BY <2>1, <2>2 DEF OInv, OrderedFiles, Ordered, File
  <2>3. CASE k > l
    <3>1. File(k)[i] \in Lines(dir[k]) /\ File(l)[j] \in Lines(dir[l])
      BY DEF Lines, File
    <3>2. dir[k] < dir[l]
      BY <2>3 DEF OInv, NamesInOrder, FilesOK, Name, TInv
    <3> QED
      BY <2>1, <3>1, <3>2 DEF OInv, OrderedInodes
  <2> QED
    BY <2>2, <2>3
<1> QED
  BY <1>1, <1>2, InitType, NextType, OrderStep, PTL DEF Spec

-----------------------------------------------------------------------------
(***************************************************************************)
(* The order of what the follower prints.                                  *)
(***************************************************************************)

Seen == {printed[i] : i \in 1 .. Len(printed)}

\* A printed line is in a file that was under its path then; files only move to
\* older names, so what the path and those of newer files lead to is as new.
Behind ==
    \A o \in Seen : \E n \in Inode :
        /\ o.line \in Lines(n)
        /\ \A l \in DOMAIN dir : /\ l < o.from => n < dir[l]
                                 /\ l = o.from => n <= dir[l]

\* Once the follower has printed, from the path that leads there, a line of a
\* file, that line is behind its position, and it cannot take the file for one
\* that was replaced.
Caught(k, i) ==
    /\ i <= pos[k] /\ pos[k] <= Len(File(k))
    /\ reader.at = k /\ reader.pc = "read" => reader.start = pos[k]
    /\ (reader.at = k /\ reader.pc \in {"size", "dead"}) \/ last[k] <= Len(File(k))
Reached ==
    \A k \in DOMAIN dir : \A i \in 1 .. Len(File(k)) :
        \A o \in Seen : o.from = k /\ o.line = File(k)[i] => Caught(k, i)
RInv == Behind /\ Reached /\ FollowsInOrder

LEMMA SeenType == ASSUME TInv, NEW o \in Seen PROVE o \in Output /\ o.from \in Nat
<1>1. o \in Output
  BY ElementOfSeq DEF Seen, TInv, ReaderOK
<1> QED
  BY <1>1 DEF Output

\* A line is in one file only.
LEMMA OneHome ==
    ASSUME TInv, OInv, NEW m \in Inode, NEW n \in Inode, NEW a, a \in Lines(m), a \in Lines(n)
    PROVE  m = n
<1>1. body[m] \in Seq(Line) /\ m \in Nat /\ n \in Nat
  BY ElementOfSeq DEF TInv, FilesOK, Inode
<1>2. a \in Line
  BY <1>1, ElementOfSeq DEF Lines
<1>3. a[2] \in Nat
  BY <1>2, LogAssumption DEF Line
<1>4. ~ Before(a, a)
  BY <1>3 DEF Before
<1> QED
  BY <1>1, <1>4 DEF OInv, OrderedInodes

\* What a writer's step does to the files.
LEMMA Bodies ==
    ASSUME TInv, OInv, NEW w \in Writer, Log(w)
    PROVE  /\ UNCHANGED follower
           /\ \/ UNCHANGED body /\ ( \/ UNCHANGED dir \/ (\E k : Remove(k))
                                     \/ \E k \in DOMAIN dir : Rename(k) )
              \/ Create
              \/ \E n \in Inode, x \in 1 .. MaxLines :
                    /\ Write(w) /\ n = task[w].file /\ UNCHANGED dir
                    /\ body' = [body EXCEPT ![n] = Append(@, <<w, x>>)]
                    /\ \A m \in Inode : \A a \in Lines(m) : a # <<w, x>>
<1>1. UNCHANGED follower
  BY DEF Log, Rotate, Start, Measure, Receive, End, Truncate, RemoveOldest, Look, Move,
         Current, Reopen, Write, Goto, BackupsFrom, GiveUp, Become
<1>2. CASE Start(w) \/ Measure(w) \/ Receive(w) \/ End(w) \/ Look(w) \/ Reopen(w)
  BY <1>1, <1>2 DEF Start, Measure, Receive, End, Look, Reopen, files
<1>3. CASE Truncate(w) \/ RemoveOldest(w)
  <2>1. UNCHANGED files \/ \E k : Remove(k)
    BY <1>3 DEF Truncate, RemoveOldest
  <2> QED
    BY <1>1, <2>1 DEF files, Remove
<1>4. CASE Move(w) \/ Current(w)
  <2>1. UNCHANGED files \/ \E k \in DOMAIN dir : Rename(k)
    BY <1>4 DEF Move, Current
  <2> QED
    BY <1>1, <2>1 DEF files, Rename
<1>5. CASE Write(w)
  <2>1. CASE UNCHANGED body
    BY <1>1, <1>5, <2>1 DEF Write, files
  <2>2. CASE /\ task[w].file # NoFile /\ UNCHANGED dir
             /\ body' = [body EXCEPT ![task[w].file] = Append(@, <<w, task[w].line>>)]
    <3>1. task[w].line \in 1 .. MaxLines /\ task[w].file \in Inode /\ task[w].line # 0
      BY <1>5, <2>2, LogAssumption
         DEF TInv, TasksOK, TaskOK, Fit, CountsOK, Write, Writing, Rotating
    <3>2. \A m \in Inode : \A a \in Lines(m) : a # <<w, task[w].line>>
      BY <3>1 DEF OInv, Fresh
    <3> QED
      BY <1>1, <1>5, <2>2, <3>1, <3>2
  <2> QED
    BY <1>5, <2>1, <2>2 DEF Write, files
<1> QED
  BY <1>2, <1>3, <1>4, <1>5 DEF Log, Rotate

\* A writer takes nothing away that was printed, and puts nothing before it.
LEMMA LogFollowed == ASSUME TInv, OInv, RInv, NEW w \in Writer, Log(w) PROVE RInv'
<1>1. UNCHANGED <<reader, pos, last, printed>> /\ FilesOK /\ NamesInOrder
  BY Bodies DEF TInv, OInv, follower
<1>2. FollowsInOrder' /\ Seen' = Seen
  BY <1>1 DEF RInv, FollowsInOrder, Seen
<1>a. DOMAIN dir \subseteq Nat /\ \A l \in DOMAIN dir : dir[l] \in Inode
  BY LogAssumption DEF TInv, FilesOK, Name
<1>b. Inode \subseteq Nat
  BY DEF Inode
<1>3. CASE UNCHANGED body /\ (UNCHANGED dir \/ \E k : Remove(k))
  <2>1. /\ DOMAIN dir' \subseteq DOMAIN dir /\ \A l \in DOMAIN dir' : dir'[l] = dir[l]
        /\ Inode' = Inode /\ \A n \in Inode : Lines(n)' = Lines(n)
    BY <1>3 DEF Remove, Inode, Lines
  <2>2. Behind'
    BY <1>2, <2>1 DEF RInv, Behind
  <2>3. \A l \in DOMAIN dir' : File(l)' = File(l)
    BY <1>3, <2>1 DEF File
  <2>4. Reached'
    BY <1>1, <1>2, <2>1, <2>3 DEF RInv, Reached, Caught
  <2> QED
    BY <1>2, <2>2, <2>4 DEF RInv
<1>4. ASSUME NEW k \in DOMAIN dir, Rename(k)  PROVE RInv'
  <2>1. /\ body' = body /\ DOMAIN dir' = (DOMAIN dir \ {k}) \union {k + 1}
        /\ dir'[k + 1] = dir[k] /\ \A l \in DOMAIN dir' : l # k + 1 => dir'[l] = dir[l]
        /\ Inode' = Inode /\ \A n \in Inode : Lines(n)' = Lines(n)
    BY <1>4 DEF Rename, Inode, Lines
  <2>2. Behind'
    <3> SUFFICES ASSUME NEW o \in Seen
                 PROVE  \E n \in Inode : /\ o.line \in Lines(n)
                            /\ \A l \in DOMAIN dir' : /\ l < o.from => n < dir'[l]
                                                      /\ l = o.from => n <= dir'[l]
      BY <1>2, <2>1 DEF Behind
    <3>1. PICK n \in Inode : /\ o.line \in Lines(n)
                            /\ \A l \in DOMAIN dir : /\ l < o.from => n < dir[l]
                                                     /\ l = o.from => n <= dir[l]
      BY DEF RInv, Behind
    <3>2. o.from \in Nat
      BY SeenType
    <3>3. ASSUME NEW l \in DOMAIN dir'
          PROVE  /\ l < o.from => n < dir'[l]
                 /\ l = o.from => n <= dir'[l]
      <4>1. CASE l # k + 1
        BY <2>1, <3>1, <4>1
      <4>2. CASE l = k + 1
        <5>1. (k < o.from => n < dir[k]) /\ dir'[l] = dir[k]
          BY <2>1, <3>1, <4>2
        <5>2. k \in Nat /\ n \in Nat /\ dir[k] \in Nat
          BY <1>a, <1>b
        <5>3. l <= o.from => n < dir[k]
          BY <3>2, <4>2, <5>1, <5>2
        <5> QED
          BY <3>2, <4>2, <5>1, <5>2, <5>3
      <4> QED
        BY <4>1, <4>2
    <3> QED
      BY <3>1, <3>3
  <2>3. \A l \in DOMAIN dir' : l # k + 1 => l \in DOMAIN dir /\ File(l)' = File(l)
    BY <2>1 DEF File
  <2>4. ASSUME NEW o \in Seen, o.from = k + 1  PROVE o.line \notin Lines(dir[k])
    <3>1. PICK n \in Inode : o.line \in Lines(n) /\ (k < o.from => n < dir[k])
      BY DEF RInv, Behind
    <3>a. n \in Nat /\ dir[k] \in Inode /\ dir[k] \in Nat /\ k \in Nat
      BY <1>a, <1>b
    <3>2. k < o.from /\ n \in Nat /\ dir[k] \in Nat /\ dir[k] \in Inode
      BY <2>4, <3>a
    <3>3. n # dir[k]
      BY <3>1, <3>2
    <3> QED
      BY <3>1, <3>2, <3>3, OneHome
  <2>5. \A i \in 1 .. Len(File(k + 1)') : File(k + 1)'[i] \in Lines(dir[k])
    BY <2>1 DEF File, Lines
  <2>6. ASSUME NEW l \in DOMAIN dir', NEW i \in 1 .. Len(File(l)'), NEW o \in Seen,
               o.from = l, o.line = File(l)'[i]
        PROVE  Caught(l, i)'
    <3>1. l # k + 1
      BY <2>4, <2>5, <2>6
    <3>2. l \in DOMAIN dir /\ File(l)' = File(l)
      BY <2>3, <3>1
    <3>3. Caught(l, i)
      BY <2>6, <3>2 DEF RInv, Reached
    <3> QED
      BY <1>1, <3>2, <3>3 DEF Caught
  <2>7. Reached'
    BY <1>2, <2>6 DEF Reached
  <2> QED
    BY <1>2, <2>2, <2>7 DEF RInv
<1>5. CASE Create /\ 0 \notin DOMAIN dir
  <2>1. /\ Inode \subseteq Inode' /\ \A n \in Inode : body'[n] = body[n]
        /\ dir'[0] = Len(body) + 1 /\ body'[dir'[0]] = <<>>
    BY <1>1, <1>5, CreateBody
  <2>2. \A n \in Inode : Lines(n)' = Lines(n)
    BY <2>1 DEF Lines
  <2>3. /\ DOMAIN dir' = DOMAIN dir \union {0}
        /\ \A l \in DOMAIN dir : dir'[l] = dir[l] /\ File(l)' = File(l)
    <3>1. dir' = [l \in DOMAIN dir \union {0} |-> IF l = 0 THEN Len(body') ELSE dir[l]]
      BY <1>5 DEF Create
    <3>2. \A l \in DOMAIN dir : dir'[l] = dir[l]
      BY <1>5, <3>1
    <3> QED
      BY <1>a, <2>1, <3>1, <3>2 DEF File
  <2>4. \A n \in Inode : n < dir'[0]
    BY <2>1 DEF Inode, TInv, FilesOK
  <2>5. Behind'
    <3> SUFFICES ASSUME NEW o \in Seen
                 PROVE  \E n \in Inode' : /\ o.line \in Lines(n)'
                            /\ \A l \in DOMAIN dir' : /\ l < o.from => n < dir'[l]
                                                      /\ l = o.from => n <= dir'[l]
      BY <1>2 DEF Behind
    <3>1. PICK n \in Inode : /\ o.line \in Lines(n)
                            /\ \A l \in DOMAIN dir : /\ l < o.from => n < dir[l]
                                                     /\ l = o.from => n <= dir[l]
      BY DEF RInv, Behind
    <3>2. n < dir'[0] /\ n <= dir'[0]
      <4>1. n < dir'[0] /\ n \in Int /\ dir'[0] \in Int
        BY <1>b, <2>1, <2>4 DEF TInv, FilesOK
      <4> QED
        BY <4>1
    <3>3. ASSUME NEW l \in DOMAIN dir'
          PROVE  /\ l < o.from => n < dir'[l]
                 /\ l = o.from => n <= dir'[l]
      <4>1. CASE l = 0
        BY <3>2, <4>1
      <4>2. CASE l \in DOMAIN dir
        BY <2>3, <3>1, <4>2
      <4> QED
        BY <2>3, <4>1, <4>2
    <3>4. n \in Inode' /\ o.line \in Lines(n)'
      BY <2>1, <2>2, <3>1
    <3> QED
      BY <3>3, <3>4
  <2>6. ASSUME NEW l \in DOMAIN dir', NEW i \in 1 .. Len(File(l)'), NEW o \in Seen,
               o.from = l, o.line = File(l)'[i]
        PROVE  Caught(l, i)'
    <3>1. Len(File(0)') = 0
      BY <2>1 DEF File
    <3>2. l \in DOMAIN dir /\ File(l)' = File(l)
      BY <2>3, <2>6, <3>1
    <3>3. Caught(l, i)
      BY <2>6, <3>2 DEF RInv, Reached
    <3> QED
      BY <1>1, <3>2, <3>3 DEF Caught
  <2>7. Reached'
    BY <1>2, <2>6 DEF Reached
  <2> QED
    BY <1>2, <2>5, <2>7 DEF RInv
<1>6. ASSUME NEW n \in Inode, NEW x \in 1 .. MaxLines, UNCHANGED dir,
             body' = [body EXCEPT ![n] = Append(@, <<w, x>>)],
             \A m \in Inode : \A a \in Lines(m) : a # <<w, x>>
      PROVE  RInv'
  <2> DEFINE l == <<w, x>>
  <2>1. l \in Line /\ \A m \in Inode : l \notin Lines(m)
    BY <1>6 DEF Line
  <2>2. /\ Inode' = Inode /\ Lines(n)' = Lines(n) \union {l}
        /\ \A m \in Inode : m # n => body'[m] = body[m] /\ Lines(m)' = Lines(m)
    BY <1>1, <1>6, <2>1, AppendLines
  <2>3. /\ Len(body'[n]) = Len(body[n]) + 1 /\ Len(body[n]) \in Nat
        /\ \A i \in 1 .. Len(body[n]) : body'[n][i] = body[n][i]
        /\ body'[n][Len(body[n]) + 1] = l
        /\ \A i \in 1 .. Len(body'[n]) : i \in 1 .. Len(body[n]) \/ i = Len(body[n]) + 1
    BY <1>1, <1>6, <2>1, AppendLines
  <2> HIDE DEF l
  <2>4. Behind'
    <3>1. \A m \in Inode : Lines(m) \subseteq Lines(m)'
      BY <2>2
    <3> QED
      BY <1>2, <1>6, <2>2, <3>1 DEF RInv, Behind
  <2>5. \A o \in Seen : o.line # l
    BY <2>1 DEF RInv, Behind
  <2>6. ASSUME NEW k \in DOMAIN dir, NEW i \in 1 .. Len(File(k)'), NEW o \in Seen,
               o.from = k, o.line = File(k)'[i]
        PROVE  Caught(k, i)'
    <3>1. File(k)' = body'[dir[k]] /\ File(k) = body[dir[k]]
      BY <1>6 DEF File
    <3>2. i \in 1 .. Len(File(k)) /\ File(k)'[i] = File(k)[i]
      <4>1. CASE dir[k] = n
        <5>1. i = Len(body[n]) + 1 => FALSE
          BY <2>3, <2>5, <2>6, <3>1, <4>1
        <5> QED
          BY <2>3, <2>6, <3>1, <4>1, <5>1
      <4>2. CASE dir[k] # n
        BY <1>a, <2>2, <2>6, <3>1, <4>2
      <4> QED
        BY <4>1, <4>2
    <3>3. Caught(k, i)
      BY <2>6, <3>2 DEF RInv, Reached
    <3>4. Len(File(k)) <= Len(File(k)') /\ Len(File(k)) \in Nat /\ Len(File(k)') \in Nat
      <4>1. CASE dir[k] = n
        BY <2>3, <3>1, <4>1
      <4>2. CASE dir[k] # n
        <5>1. File(k)' = File(k)
          BY <1>a, <2>2, <3>1, <4>2
        <5>2. body[dir[k]] \in Seq(Line)
          BY <1>1, <1>a, ElementOfSeq DEF FilesOK, Inode
        <5> QED
          BY <3>1, <5>1, <5>2
      <4> QED
        BY <4>1, <4>2
    <3>5. pos[k] \in Nat /\ last[k] \in Nat
      BY DEF TInv, ReaderOK, FilesOK
    <3> HIDE DEF File
    <3> QED
      BY <1>1, <3>3, <3>4, <3>5 DEF Caught
  <2>7. Reached'
    BY <1>2, <1>6, <2>6 DEF Reached
  <2> QED
    BY <1>2, <2>4, <2>7 DEF RInv
<1>7. CASE Create /\ 0 \in DOMAIN dir
  <2>1. UNCHANGED <<body, dir>>
    BY <1>7 DEF Create, files
  <2> QED
    BY <1>3, <2>1
<1> QED
  BY <1>3, <1>4, <1>5, <1>6, <1>7, Bodies

\* What one reading prints comes after all that was printed from there.
LEMMA ReadFollowed == ASSUME TInv, OInv, RInv, ReadFile PROVE RInv'
<1> DEFINE k == reader.at
           s == reader.start
           f == File(k)
<1>1. UNCHANGED <<body, dir, last>> /\ reader.pc = "read"
  BY DEF ReadFile, files
<1>2. /\ Inode' = Inode /\ \A n \in Inode : Lines(n)' = Lines(n)
      /\ \A l : File(l)' = File(l)
  BY <1>1 DEF Inode, Lines, File
<1>3. /\ reader \in Reader /\ printed \in Seq(Output) /\ k \in listed /\ k \in Name /\ s \in Nat
      /\ pos \in [Name -> Nat] /\ last \in [Name -> Nat]
  BY <1>1 DEF TInv, ReaderOK, Reader
<1>4. CASE k \notin DOMAIN dir
  <2>1. UNCHANGED <<pos, printed>> /\ reader' = [reader EXCEPT !.pc = "dead"]
    BY <1>4 DEF ReadFile
  <2>2. reader'.pc = "dead" /\ reader'.at = k
    BY <1>3, <2>1 DEF Reader
  <2>3. Seen' = Seen
    BY <2>1 DEF Seen
  <2>4. Behind' /\ FollowsInOrder'
    BY <1>1, <1>2, <2>1, <2>3 DEF RInv, Behind, FollowsInOrder
  <2>5. \A l \in DOMAIN dir : \A i : Caught(l, i) => Caught(l, i)'
    BY <1>1, <1>2, <1>4, <2>1, <2>2 DEF Caught
  <2>6. Reached'
    BY <1>1, <1>2, <2>3, <2>5 DEF RInv, Reached
  <2> QED
    BY <2>4, <2>6 DEF RInv
<1>5. CASE k \in DOMAIN dir
  <2> DEFINE rest == Rest(k, s)
             n == dir[k]
  <2>1. n \in Inode /\ n \in Nat /\ k \in Nat /\ f = body[n]
    BY <1>5, LogAssumption DEF TInv, FilesOK, Inode, Name, File
  <2>2. /\ f \in Seq(Line) /\ Len(f) \in Nat /\ rest \in Seq(Output)
        /\ \A i \in 1 .. Len(rest) : /\ s + i \in s + 1 .. Len(f)
                                     /\ rest[i] = [from |-> k, line |-> f[s + i]]
    BY <1>3, <1>5, RestType DEF TInv
  <2>3. /\ printed' = printed \o rest
        /\ reader' = [reader EXCEPT !.pc = "size", !.start = 0]
        /\ pos' = [pos EXCEPT ![k] = IF Len(f) > s THEN Len(f) ELSE s]
    BY <1>5 DEF ReadFile
  <2>4. /\ reader'.pc = "size" /\ reader'.at = k
        /\ pos'[k] = IF Len(f) > s THEN Len(f) ELSE s
        /\ \A l \in Name : l # k => pos'[l] = pos[l]
    BY <1>3, <2>3 DEF Reader
  <2>5. \A i \in 1 .. Len(f) : \A o \in Seen :
            o.from = k /\ o.line = f[i] => i <= s /\ s <= Len(f)
    BY <1>1, <1>5 DEF RInv, Reached, Caught
  <2>6. \A i \in 1 .. Len(f) : f[i] \in Lines(n)
    BY <2>1 DEF Lines
  <2> HIDE DEF rest, f, s, n, k
  <2>7. /\ Len(printed') = Len(printed) + Len(rest)
        /\ \A i \in 1 .. Len(printed) : printed'[i] = printed[i]
        /\ \A i \in 1 .. Len(rest) : printed'[Len(printed) + i] = rest[i]
        /\ Len(printed) \in Nat /\ Len(rest) \in Nat
    BY <1>3, <2>2, <2>3, ConcatProperties, LenProperties
  <2>8. ASSUME NEW i \in 1 .. Len(printed'), i \notin 1 .. Len(printed)
        PROVE  /\ s + (i - Len(printed)) \in s + 1 .. Len(f)
               /\ s + (i - Len(printed)) \in 1 .. Len(f)
               /\ printed'[i].from = k /\ printed'[i].line = f[s + (i - Len(printed))]
    <3>1. i - Len(printed) \in 1 .. Len(rest) /\ Len(printed) + (i - Len(printed)) = i
      BY <2>7, <2>8
    <3>2. /\ s + (i - Len(printed)) \in s + 1 .. Len(f)
          /\ printed'[i] = [from |-> k, line |-> f[s + (i - Len(printed))]]
      BY <2>2, <2>7, <3>1
    <3>3. s + (i - Len(printed)) \in 1 .. Len(f)
      BY <1>3, <2>2, <3>2
    <3> QED
      BY <3>2, <3>3
  <2>9. ASSUME NEW o \in Seen'
        PROVE  o \in Seen \/ (o.from = k /\ \E j \in s + 1 .. Len(f) :
                                                j \in 1 .. Len(f) /\ o.line = f[j])
    <3>1. PICK i \in 1 .. Len(printed') : o = printed'[i]
      BY DEF Seen
    <3>2. CASE i \in 1 .. Len(printed)
      BY <2>7, <3>1, <3>2 DEF Seen
    <3>3. CASE i \notin 1 .. Len(printed)
      BY <2>8, <3>1, <3>3
    <3> QED
      BY <3>2, <3>3
  <2>10. Behind'
    <3> SUFFICES ASSUME NEW o \in Seen'
                 PROVE  \E m \in Inode : /\ o.line \in Lines(m)
                            /\ \A l \in DOMAIN dir : /\ l < o.from => m < dir[l]
                                                     /\ l = o.from => m <= dir[l]
      BY <1>1, <1>2 DEF Behind
    <3>1. CASE o \in Seen
      BY <3>1 DEF RInv, Behind
    <3>2. CASE o.from = k /\ o.line \in Lines(n)
      <4>1. \A l \in DOMAIN dir : l < k => n < dir[l]
        BY <1>5 DEF OInv, NamesInOrder, n
      <4>2. \A l \in DOMAIN dir : l = k => n <= dir[l]
        BY <2>1 DEF n
      <4> QED
        BY <2>1, <3>2, <4>1, <4>2
    <3> QED
      BY <2>6, <2>9, <3>1, <3>2
  <2>11. ASSUME NEW l \in DOMAIN dir, NEW i \in 1 .. Len(File(l)), NEW o \in Seen',
                o.from = l, o.line = File(l)[i]
         PROVE  Caught(l, i)'
    <3>1. CASE l = k
      <4>1. File(l) = f
        BY <3>1 DEF f
      <4>2. (i <= s /\ s <= Len(f)) \/ \E j \in s + 1 .. Len(f) : TRUE
        BY <2>5, <2>9, <2>11, <3>1, <4>1
      <4>3. i <= pos'[l] /\ pos'[l] <= Len(f)
        BY <1>3, <2>2, <2>4, <2>11, <3>1, <4>1, <4>2
      <4>4. File(l)' = f
        BY <1>2, <4>1
      <4>5. reader'.at = l /\ reader'.pc = "size"
        BY <2>4, <3>1
      <4> QED
        BY <4>3, <4>4, <4>5 DEF Caught
    <3>2. CASE l # k
      <4>1. o \in Seen
        BY <2>9, <2>11, <3>2
      <4>2. Caught(l, i)
        BY <2>11, <4>1 DEF RInv, Reached
      <4>3. reader.at # l /\ reader'.at # l
        BY <2>4, <3>2 DEF k
      <4>4. l \in Name
        BY DEF TInv, FilesOK
      <4>5. File(l)' = File(l) /\ pos'[l] = pos[l] /\ last' = last
        BY <1>1, <1>2, <2>4, <3>2, <4>4
      <4> QED
        BY <4>2, <4>3, <4>5 DEF Caught
    <3> QED
      BY <3>1, <3>2
  <2>12. Reached'
    BY <1>1, <1>2, <2>11 DEF Reached
  <2>13. ASSUME NEW o \in Seen, o.from >= k, NEW j \in s + 1 .. Len(f), j \in 1 .. Len(f)
         PROVE  Before(o.line, f[j])
    <3>1. PICK m \in Inode : /\ o.line \in Lines(m)
                            /\ \A l \in DOMAIN dir : /\ l < o.from => m < dir[l]
                                                     /\ l = o.from => m <= dir[l]
      BY DEF RInv, Behind
    <3>2. o.from \in Nat
      BY SeenType
    <3>3. m < n \/ (m = n /\ o.from = k)
      <4>1. m \in Nat
        BY DEF Inode
      <4>2. CASE k < o.from
        BY <1>5, <3>1, <4>2 DEF n
      <4>3. CASE k = o.from
        BY <1>5, <2>1, <3>1, <4>1, <4>3 DEF n
      <4> QED
        BY <2>1, <2>13, <3>2, <4>2, <4>3
    <3>4. CASE m < n
      BY <2>1, <2>6, <2>13, <3>1, <3>4 DEF OInv, OrderedInodes
    <3>5. CASE m = n /\ o.from = k
      <4>1. PICK i \in 1 .. Len(f) : o.line = f[i]
        BY <2>1, <3>1, <3>5 DEF Lines
      <4>2. i <= s
        BY <2>5, <3>5, <4>1
      <4>3. i < j
        BY <1>3, <2>2, <4>1, <4>2
      <4> QED
        BY <2>1, <2>13, <4>1, <4>3 DEF OInv, OrderedFiles, Ordered
    <3> QED
      BY <3>3, <3>4, <3>5
  <2>14. FollowsInOrder'
    <3>1. ASSUME NEW i \in 1 .. Len(printed'), NEW j \in 1 .. Len(printed'), i < j,
                 printed'[j].from <= printed'[i].from
          PROVE  Before(printed'[i].line, printed'[j].line)
      <4>1. CASE j \in 1 .. Len(printed)
        <5>1. i \in 1 .. Len(printed)
          BY <2>7, <3>1, <4>1
        <5> QED
          BY <2>7, <3>1, <4>1, <5>1 DEF RInv, FollowsInOrder
      <4>2. CASE j \notin 1 .. Len(printed) /\ i \in 1 .. Len(printed)
        <5> DEFINE b == s + (j - Len(printed))
        <5>1. /\ b \in s + 1 .. Len(f) /\ b \in 1 .. Len(f)
              /\ printed'[j].from = k /\ printed'[j].line = f[b]
          BY <2>8, <4>2
        <5>2. printed'[i] = printed[i] /\ printed[i] \in Seen
          BY <2>7, <4>2 DEF Seen
        <5>3. printed[i].from \in Nat
          BY <5>2, SeenType
        <5> HIDE DEF b
        <5>4. printed[i].from >= k
          BY <2>1, <3>1, <5>1, <5>2, <5>3
        <5> QED
          BY <2>13, <5>1, <5>2, <5>4
      <4>3. CASE j \notin 1 .. Len(printed) /\ i \notin 1 .. Len(printed)
        <5> DEFINE a == s + (i - Len(printed))
                   b == s + (j - Len(printed))
        <5>1. /\ a \in 1 .. Len(f) /\ printed'[i].line = f[a]
              /\ b \in 1 .. Len(f) /\ printed'[j].line = f[b]
          BY <2>8, <4>3
        <5>2. a < b
          BY <1>3, <2>7, <3>1
        <5> HIDE DEF a, b
        <5>3. Ordered(n)
          BY <2>1 DEF OInv, OrderedFiles
        <5> QED
          BY <2>1, <5>1, <5>2, <5>3 DEF Ordered
      <4> QED
        BY <4>1, <4>2, <4>3
    <3> QED
      BY <3>1 DEF FollowsInOrder
  <2> QED
    BY <2>10, <2>12, <2>14 DEF RInv
<1> QED
  BY <1>4, <1>5

\* Listing the names, and its looks at the size, print nothing.
LEMMA SizeFollowed == ASSUME TInv, OInv, RInv, List \/ Poll \/ Resize PROVE RInv'
<1>1. UNCHANGED <<body, dir, printed, pos>>
  BY DEF List, Poll, Resize, files
<1>2. /\ Inode' = Inode /\ Seen' = Seen /\ \A n \in Inode : Lines(n)' = Lines(n)
      /\ \A l : File(l)' = File(l)
  BY <1>1 DEF Inode, Lines, Seen, File
<1>3. Behind' /\ FollowsInOrder'
  BY <1>1, <1>2 DEF RInv, Behind, FollowsInOrder
<1>4. /\ ReaderOK /\ reader \in Reader /\ pos \in [Name -> Nat] /\ last \in [Name -> Nat]
      /\ DOMAIN dir \subseteq Name
      /\ \A l \in DOMAIN dir : Len(File(l)) \in Nat
  <2>1. \A l \in DOMAIN dir : File(l) \in Seq(Line)
    BY ElementOfSeq DEF TInv, FilesOK, Inode, File
  <2> QED
    BY <2>1 DEF TInv, ReaderOK, FilesOK
<1>5. ASSUME NEW l \in DOMAIN dir, NEW i \in 1 .. Len(File(l)), Caught(l, i)
      PROVE  Caught(l, i)'
  <2>1. /\ l \in Name /\ pos'[l] = pos[l] /\ pos[l] \in Nat /\ File(l)' = File(l)
        /\ Len(File(l)) \in Nat /\ pos[l] <= Len(File(l)) /\ i <= pos[l]
    BY <1>1, <1>2, <1>4, <1>5 DEF Caught
  <2>2. ASSUME reader'.pc = "poll", last'[l] <= Len(File(l))  PROVE Caught(l, i)'
    BY <2>1, <2>2 DEF Caught
  <2>3. CASE List
    <3>1. PICK k \in DOMAIN dir : reader' = [reader EXCEPT !.pc = "poll", !.at = k]
      BY <2>3 DEF List, Least
    <3>2. reader'.pc = "poll" /\ UNCHANGED last /\ reader.pc = "off"
      BY <1>4, <2>3, <3>1 DEF List, Reader
    <3> QED
      BY <1>5, <2>2, <3>2 DEF Caught
  <2>4. CASE Poll
    <3> DEFINE k == reader.at
               size == Len(File(k))
    <3>1. k \in Name /\ reader.pc = "poll" /\ last[l] <= Len(File(l))
      BY <1>4, <1>5, <2>4 DEF Poll, Caught, ReaderOK
    <3>2. CASE k \in DOMAIN dir /\ (Replaced(k, size) \/ size > pos[k])
      <4>1. /\ reader' = [reader EXCEPT !.pc = "read",
                             !.start = IF Replaced(k, size) THEN 0 ELSE pos[k]]
            /\ UNCHANGED last
        BY <2>4, <3>2 DEF Poll
      <4>2. /\ reader'.pc = "read" /\ reader'.at = k
            /\ reader'.start = IF Replaced(k, size) THEN 0 ELSE pos[k]
        BY <1>4, <4>1 DEF Reader
      <4>3. l = k => ~ Replaced(k, size)
        BY <1>4, <2>1, <3>1 DEF Replaced
      <4> HIDE DEF k
      <4> QED
        BY <2>1, <3>1, <4>1, <4>2, <4>3 DEF Caught
    <3>3. CASE ~ (k \in DOMAIN dir /\ (Replaced(k, size) \/ size > pos[k]))
      <4>1. MoveOn /\ last' = [last EXCEPT ![k] = IF k \in DOMAIN dir THEN size ELSE @]
        BY <2>4, <3>3 DEF Poll
      <4>2. reader'.pc = "poll"
        BY <1>4, <3>1, <4>1, MoveOnType
      <4>3. last'[l] = IF l = k THEN size ELSE last[l]
        BY <1>4, <2>1, <4>1
      <4>4. last'[l] <= Len(File(l))
        BY <2>1, <3>1, <4>3
      <4> QED
        BY <2>2, <4>2, <4>4
    <3> QED
      BY <3>2, <3>3
  <2>5. CASE Resize
    <3> DEFINE k == reader.at
    <3>1. k \in Name /\ reader.pc = "size"
      BY <1>4, <2>5 DEF Resize, ReaderOK
    <3>2. CASE k \in DOMAIN dir
      <4>1. MoveOn /\ last' = [last EXCEPT ![k] = Len(File(k))]
        BY <2>5, <3>2 DEF Resize
      <4>2. reader'.pc = "poll"
        BY <1>4, <3>1, <4>1, MoveOnType
      <4>3. last'[l] = IF l = k THEN Len(File(k)) ELSE last[l]
        BY <1>4, <2>1, <4>1
      <4>4. l # k => last[l] <= Len(File(l))
        BY <1>5 DEF Caught
      <4>5. last'[l] <= Len(File(l))
        BY <2>1, <4>3, <4>4
      <4> QED
        BY <2>2, <4>2, <4>5
    <3>3. CASE k \notin DOMAIN dir
      <4>1. reader' = [reader EXCEPT !.pc = "dead"] /\ UNCHANGED last
        BY <2>5, <3>3 DEF Resize
      <4>2. reader'.pc = "dead" /\ reader'.at = k
        BY <1>4, <4>1 DEF Reader
      <4>3. l # k /\ last[l] <= Len(File(l))
        BY <1>5, <3>3 DEF Caught
      <4> QED
        BY <2>1, <4>1, <4>2, <4>3 DEF Caught
    <3> QED
      BY <3>2, <3>3
  <2> QED
    BY <2>3, <2>4, <2>5
<1>6. Reached'
  BY <1>1, <1>2, <1>5 DEF RInv, Reached
<1> QED
  BY <1>3, <1>6 DEF RInv

LEMMA FollowStep == TInv /\ OInv /\ RInv /\ [Next]_vars => RInv'
<1> SUFFICES ASSUME TInv, OInv, RInv, [Next]_vars PROVE RInv'
  OBVIOUS
<1>1. CASE UNCHANGED vars
  BY <1>1 DEF RInv, Behind, Reached, Caught, FollowsInOrder, Seen, File, Inode, Lines, vars,
              follower
<1> QED
  BY <1>1, LogFollowed, ReadFollowed, SizeFollowed DEF Next, Follow

\* Whatever rotates between the follower's looks at a file, with any number of
\* children, of backups and of failing calls: after a line, the same path and
\* those of newer files bring only later lines of the child (logs.rs:48-98).
THEOREM FollowerStaysInOrder == Spec => []FollowsInOrder
<1>1. Init => RInv
  BY DEF Init, RInv, Behind, Reached, FollowsInOrder, Seen
<1>2. Init => OInv
  BY DEF Init, OInv, NamesInOrder, OrderedFiles, OrderedInodes, NoneNewer, Fresh, Inode
<1>3. RInv => FollowsInOrder
  BY DEF RInv
<1> QED
  BY <1>1, <1>2, <1>3, InitType, NextType, OrderStep, FollowStep, PTL DEF Spec

-----------------------------------------------------------------------------
(***************************************************************************)
(* The cap on a file.                                                      *)
(***************************************************************************)

Alone == ~ shared => \A v, w \in Writer : Running(v) /\ Running(w) => v = w
Sole == MaxBytes > 0 /\ ~ shared /\ (keep > 1 \/ faults = 0)
Capped == \A n \in Inode : Len(body[n]) <= MaxBytes
Counted(w) ==
    LET t == task[w]
    IN  /\ t.pc \in {"ready", "write"} /\ t.file # NoFile => Len(body[t.file]) <= t.size
        /\ t.pc = "write" /\ t.file # NoFile => t.size + 1 <= MaxBytes
        /\ t.pc = "open" => 0 \notin DOMAIN dir
CInv == Alone /\ (Sole => Capped /\ \A w \in Writer : Counted(w))

LEMMA CreateCap ==
    ASSUME FilesOK, Capped, Create, UNCHANGED keep
    PROVE  Capped' /\ (0 \notin DOMAIN dir => body'[dir'[0]] = <<>>)
<1>1. CASE 0 \in DOMAIN dir
  BY <1>1 DEF Create, files, Capped, Inode
<1>2. CASE 0 \notin DOMAIN dir
  <2>1. body \in Seq(Seq(Line)) /\ <<>> \in Seq(Line) /\ Len(body) \in Nat
    BY EmptySeq DEF FilesOK
  <2>2. body' = Append(body, <<>>) /\ dir'[0] = Len(body')
    BY <1>2 DEF Create
  <2>3. /\ Len(body') = Len(body) + 1 /\ body'[Len(body) + 1] = <<>>
        /\ \A n \in Inode : body'[n] = body[n]
    BY <2>1, <2>2, AppendProperties DEF Inode
  <2>4. \A n \in Inode' : n \in Inode \/ n = Len(body) + 1
    BY <2>1, <2>3 DEF Inode
  <2>5. Len(<<>>) <= MaxBytes
    BY LogAssumption
  <2> QED
    BY <2>2, <2>3, <2>4, <2>5 DEF Capped
<1> QED
  BY <1>1, <1>2

LEMMA CapStep == ASSUME TInv, CInv, TInv', NEW w \in Writer, Log(w) PROVE CInv'
<1> DEFINE t == task[w]
<1>1. /\ t \in Task /\ FilesOK /\ t.file \in {NoFile} \union Inode
      /\ t.pc = "truncate" => keep = 1
      /\ t.pc \in Rotating => t.file = NoFile
      /\ faults \in Nat /\ MaxBytes \in Nat /\ keep \in Nat
  BY LogAssumption DEF TInv, TasksOK, TaskOK, Fit, CountsOK, FilesOK
<1>2. \A n \in Inode : Len(body[n]) \in Nat
  BY <1>1, ElementOfSeq DEF FilesOK, Inode
<1>3. \E r : Become(w, r)
  BY DEF Log, Rotate, Start, Measure, Receive, End, Truncate, RemoveOldest, Look, Move,
         Current, Reopen, Write, Goto, BackupsFrom, GiveUp
<1>4. UNCHANGED keep /\ \A v \in Writer : v # w => task'[v] = task[v]
  BY <1>3 DEF Become, TInv, TasksOK
<1>5. (Running(w) \/ Start(w)) /\ (~ Start(w) => UNCHANGED shared)
  BY DEF Log, Rotate, Start, Measure, Receive, End, Truncate, RemoveOldest, Look, Move,
         Current, Reopen, Write, Running
<1>6. ASSUME ~ shared' PROVE ~ shared /\ \A v \in Writer : v # w => ~ Running(v)
  <2>1. CASE Start(w)
    BY <1>6, <2>1 DEF Start
  <2>2. CASE ~ Start(w)
    BY <1>5, <1>6, <2>2 DEF CInv, Alone
  <2> QED
    BY <2>1, <2>2
<1>7. Alone'
  BY <1>4, <1>6 DEF Alone, Running
<1>8. faults' \in {faults, faults + 1}
  BY DEF Log, Rotate, Start, Measure, Receive, End, Truncate, RemoveOldest, Look, Move,
         Current, Reopen, Write, Fault, Fine
<1>9. ASSUME Sole' PROVE Capped' /\ Counted(w)'
  <2>1. Sole /\ MaxBytes > 0 /\ Capped /\ Counted(w)
    BY <1>1, <1>4, <1>6, <1>8, <1>9 DEF Sole, CInv
  <2>2. ASSUME UNCHANGED body PROVE Capped'
    BY <2>1, <2>2 DEF Capped, Inode
  <2>3. ASSUME NEW r, Become(w, r) PROVE task'[w] = r
    BY <2>3 DEF Become, TInv, TasksOK
  <2>4. ASSUME GiveUp(w), t.file = NoFile, UNCHANGED files PROVE Capped' /\ Counted(w)'
    <3>1. task'[w] = [t EXCEPT !.pc = "ready", !.line = 0]
      BY <2>3, <2>4 DEF GiveUp
    <3>2. task'[w].pc = "ready" /\ task'[w].file = NoFile
      BY <1>1, <2>4, <3>1 DEF Task
    <3> QED
      BY <2>2, <2>4, <3>2 DEF Counted, files
  <2>5. ASSUME UNCHANGED body, task'[w].pc \notin {"ready", "write", "open"}
        PROVE  Capped' /\ Counted(w)'
    BY <2>2, <2>5 DEF Counted
  <2>6. CASE Start(w)
    <3> DEFINE r(f) == [pc |-> "measure", file |-> f, size |-> 0, k |-> 0, line |-> 0]
    <3>1. task'[w].pc = "measure" /\ (Create \/ UNCHANGED files)
      BY <2>3, <2>6 DEF Start
    <3> QED
      BY <1>1, <1>4, <2>1, <2>5, <3>1, CreateCap DEF files, Counted
  <2>7. CASE Measure(w)
    <3>1. UNCHANGED files /\ task'[w] = [t EXCEPT !.pc = "ready", !.size = Measured(t)]
      BY <2>3, <2>7 DEF Measure
    <3>2. /\ task'[w].pc = "ready" /\ task'[w].file = t.file /\ task'[w].size = Measured(t)
      BY <1>1, <3>1 DEF Task
    <3>3. t.file # NoFile => Len(body[t.file]) <= Measured(t)
      BY <1>1, <1>2 DEF Measured
    <3> QED
      BY <2>2, <3>1, <3>2, <3>3 DEF Counted, files
  <2>8. CASE Receive(w)
    <3>1. CASE Full(t)
      <4>1. UNCHANGED files /\ task'[w] = [t EXCEPT !.line = received', !.file = NoFile,
                                   !.pc = IF keep = 1 THEN "truncate" ELSE "oldest"]
        BY <2>3, <2>8, <3>1 DEF Receive
      <4>2. task'[w].pc \notin {"ready", "write", "open"}
        BY <1>1, <4>1 DEF Task
      <4> QED
        BY <2>5, <4>1, <4>2 DEF files
    <3>2. CASE ~ Full(t)
      <4>1. /\ UNCHANGED files /\ t.pc = "ready"
            /\ task'[w] = [t EXCEPT !.line = received', !.pc = "write"]
        BY <2>3, <2>8, <3>2 DEF Receive
      <4>2. /\ task'[w].pc = "write" /\ task'[w].file = t.file /\ task'[w].size = t.size
            /\ t.size \in Nat
        BY <1>1, <4>1 DEF Task
      <4>3. t.size + 1 <= MaxBytes
        BY <1>1, <2>1, <3>2, <4>2 DEF Full
      <4> QED
        BY <2>1, <2>2, <4>1, <4>2, <4>3 DEF Counted, files
    <3> QED
      BY <3>1, <3>2
  <2>9. CASE End(w)
    <3>1. UNCHANGED files /\ task'[w] = Idle
      BY <2>3, <2>9 DEF End
    <3>2. task'[w].pc = "off"
      BY <1>1, <3>1 DEF Idle
    <3> QED
      BY <2>5, <3>1, <3>2 DEF files
  <2>10. ASSUME 0 \notin DOMAIN dir', UNCHANGED body, Goto(w, "open")
         PROVE  Capped' /\ Counted(w)'
    <3>1. task'[w] = [t EXCEPT !.pc = "open"]
      BY <2>3, <2>10 DEF Goto
    <3>2. task'[w].pc = "open"
      BY <1>1, <3>1 DEF Task
    <3> QED
      BY <2>2, <2>10, <3>2 DEF Counted
  <2>11. ASSUME NEW k, BackupsFrom(w, k), UNCHANGED body PROVE Capped' /\ Counted(w)'
    <3>1. task'[w] = [t EXCEPT !.k = k, !.pc = IF k > 0 THEN "look" ELSE "current"]
      BY <2>3, <2>11 DEF BackupsFrom
    <3>2. task'[w].pc \in {"look", "current"}
      BY <1>1, <3>1 DEF Task
    <3> QED
      BY <2>5, <2>11, <3>2
  <2>12. CASE Truncate(w)
    <3>1. Remove(0)
      BY <1>1, <1>4, <1>9, <2>12 DEF Truncate, Fault, Sole
    <3> QED
      BY <2>10, <2>12, <3>1 DEF Truncate, Remove
  <2>13. CASE RemoveOldest(w)
    BY <2>11, <2>13 DEF RemoveOldest, Remove, files
  <2>14. CASE Look(w)
    <3>1. Goto(w, "move") => task'[w] = [t EXCEPT !.pc = "move"]
      BY <2>3 DEF Goto
    <3>2. Goto(w, "move") => task'[w].pc = "move"
      BY <1>1, <3>1 DEF Task
    <3> QED
      BY <2>5, <2>11, <2>14, <3>2 DEF Look, files
  <2>15. CASE Move(w)
    BY <1>1, <2>4, <2>11, <2>15 DEF Move, Rename, Rotating
  <2>16. CASE Current(w)
    <3>1. CASE Rename(0) /\ Goto(w, "open")
      <4>1. 0 \notin DOMAIN dir' /\ UNCHANGED body
        BY <3>1 DEF Rename
      <4> QED
        BY <2>10, <3>1, <4>1
    <3>2. CASE UNCHANGED files /\ GiveUp(w)
      BY <1>1, <2>4, <2>16, <3>2 DEF Current, Rotating
    <3> QED
      BY <2>16, <3>1, <3>2 DEF Current
  <2>17. CASE Reopen(w)
    <3>1. CASE UNCHANGED files /\ GiveUp(w)
      BY <1>1, <2>4, <2>17, <3>1 DEF Reopen, Rotating
    <3>2. CASE /\ Create
               /\ Become(w, [t EXCEPT !.pc = "write", !.file = dir'[0], !.size = 0])
      <4>1. task'[w] = [t EXCEPT !.pc = "write", !.file = dir'[0], !.size = 0]
        BY <2>3, <3>2
      <4>2. task'[w].pc = "write" /\ task'[w].file = dir'[0] /\ task'[w].size = 0
        BY <1>1, <4>1 DEF Task
      <4>3. 0 \notin DOMAIN dir
        BY <2>1, <2>17 DEF Reopen, Counted
      <4>4. Capped' /\ body'[dir'[0]] = <<>>
        BY <1>1, <1>4, <2>1, <3>2, <4>3, CreateCap
      <4> QED
        BY <1>1, <2>1, <4>2, <4>4 DEF Counted
    <3> QED
      BY <2>17, <3>1, <3>2 DEF Reopen
  <2>18. CASE Write(w)
    <3>1. CASE t.file = NoFile
      BY <2>4, <2>18, <3>1 DEF Write
    <3>2. CASE t.file # NoFile
      <4>1. /\ Become(w, [t EXCEPT !.pc = "ready", !.line = 0, !.size = @ + 1])
            /\ t.pc = "write" /\ UNCHANGED dir
            /\ body' = [body EXCEPT ![t.file] = Append(@, <<w, t.line>>)] \/ UNCHANGED body
        BY <2>18, <3>2 DEF Write
      <4>2. task'[w] = [t EXCEPT !.pc = "ready", !.line = 0, !.size = @ + 1]
        BY <2>3, <4>1
      <4>3. /\ task'[w].pc = "ready" /\ task'[w].file = t.file
            /\ task'[w].size = t.size + 1 /\ t.size \in Nat
        BY <1>1, <4>2 DEF Task
      <4>4. /\ t.file \in Inode /\ Len(body[t.file]) <= t.size /\ t.size + 1 <= MaxBytes
        BY <1>1, <2>1, <3>2, <4>1 DEF Counted
      <4>5. CASE UNCHANGED body
        BY <1>2, <2>2, <4>3, <4>4, <4>5 DEF Counted
      <4>6. CASE body' = [body EXCEPT ![t.file] = Append(@, <<w, t.line>>)]
        <5> DEFINE n == t.file
        <5>a. body \in Seq(Seq(Line)) /\ n \in 1 .. Len(body)
          BY <1>1, <4>4 DEF FilesOK, Inode
        <5>b. body' = [body EXCEPT ![n] = Append(body[n], <<w, t.line>>)]
          BY <4>6
        <5> HIDE DEF n
        <5>c. \A m \in 1 .. Len(body) :
                 body'[m] = IF m = n THEN Append(body[n], <<w, t.line>>) ELSE body[m]
          BY <5>a, <5>b
        <5>1. body[n] \in Seq(Line)
          BY <5>a, ElementOfSeq
        <5>2. body'[n] = Append(body[n], <<w, t.line>>) /\ Len(body') = Len(body)
          BY <5>a, <5>b, <5>c
        <5>3. \A m \in Inode : m # n => body'[m] = body[m]
          BY <5>c DEF Inode
        <5> USE DEF n
        <5>4. Len(body'[n]) = Len(body[n]) + 1
          BY <5>1, <5>2
        <5>5. Len(body'[n]) <= t.size + 1 /\ Len(body'[n]) <= MaxBytes
          BY <1>1, <1>2, <4>3, <4>4, <5>4
        <5>6. Capped'
          BY <2>1, <5>2, <5>3, <5>5 DEF Capped, Inode
        <5> QED
          BY <4>3, <5>5, <5>6 DEF Counted
      <4> QED
        BY <4>1, <4>5, <4>6
    <3> QED
      BY <3>1, <3>2
  <2> QED
    BY <2>6, <2>7, <2>8, <2>9, <2>12, <2>13, <2>14, <2>15, <2>16, <2>17, <2>18
       DEF Log, Rotate
<1>10. ASSUME Sole', NEW v \in Writer, v # w PROVE Counted(v)'
  BY <1>4, <1>6, <1>10 DEF Sole, Counted, Running
<1> QED
  BY <1>7, <1>9, <1>10 DEF CInv

LEMMA CapNext == TInv /\ CInv /\ [Next]_vars => CInv'
<1> SUFFICES ASSUME TInv, CInv, [Next]_vars PROVE CInv'
  OBVIOUS
<1>1. TInv'
  BY NextType
<1>2. CASE UNCHANGED vars \/ Follow
  <2>1. UNCHANGED <<keep, body, dir, task, faults, shared>>
    BY <1>2 DEF vars, files, follower, Follow, List, Poll, ReadFile, Resize
  <2> QED
    BY <2>1 DEF CInv, Alone, Sole, Capped, Counted, Running, Inode
<1> QED
  BY <1>1, <1>2, CapStep DEF Next

\* While one child writes at a time no file outgrows log_max_bytes, however
\* often it restarts and whichever calls of the rotation fail.
THEOREM FilesStayCapped == Spec => []CapHolds
<1>1. Init => CInv
  BY DEF Init, Idle, CInv, Alone, Running, Capped, Counted, Inode
<1>2. CInv => CapHolds
  BY DEF CInv, Sole, Capped, CapHolds
<1> QED
  BY <1>1, <1>2, InitType, NextType, CapNext, PTL DEF Spec

-----------------------------------------------------------------------------
(***************************************************************************)
(* The cap on what each of several children adds to a file.                *)
(***************************************************************************)

\* What the steps of a writer make of its task.
LEMMA Moves ==
    ASSUME TInv, NEW w \in Writer, NEW t, t = task[w], NEW u, u = task'[w]
    PROVE  /\ Start(w) => /\ u.pc = "measure" /\ u.line = 0
                          /\ \/ Create /\ u.file = dir'[0]
                             \/ UNCHANGED files /\ faults' = faults + 1
           /\ Measure(w) => /\ u.pc = "ready" /\ u.line = t.line /\ u.file = t.file
                            /\ u.size = Measured(t) /\ UNCHANGED files
           /\ Receive(w) => /\ u.line = received' /\ UNCHANGED files
                            /\ Full(t) => /\ u.pc = IF keep = 1 THEN "truncate" ELSE "oldest"
                                          /\ u.file = NoFile
                            /\ ~ Full(t) => /\ u.pc = "write" /\ u.file = t.file
                                            /\ u.size = t.size
           /\ End(w) => u.pc = "off" /\ u.line = 0 /\ UNCHANGED files
           /\ Truncate(w) => u.pc = "open" /\ u.line = t.line /\ u.file = t.file
           /\ RemoveOldest(w) => /\ u.k = keep - 2 /\ u.line = t.line
                                 /\ u.pc = IF keep - 2 > 0 THEN "look" ELSE "current"
           /\ Look(w) => /\ u.line = t.line /\ UNCHANGED files
                         /\ IF t.k \in DOMAIN dir
                            THEN u.pc = "move" /\ u.k = t.k
                            ELSE /\ u.k = t.k - 1
                                 /\ u.pc = IF t.k - 1 > 0 THEN "look" ELSE "current"
           /\ Move(w) => \/ /\ t.k \in DOMAIN dir /\ Rename(t.k)
                            /\ u.line = t.line /\ u.k = t.k - 1
                            /\ u.pc = IF t.k - 1 > 0 THEN "look" ELSE "current"
                         \/ /\ UNCHANGED files /\ u.pc = "ready" /\ u.file = t.file
                            /\ t.k \notin DOMAIN dir \/ faults' = faults + 1
           /\ Current(w) => \/ /\ 0 \in DOMAIN dir /\ Rename(0)
                               /\ u.pc = "open" /\ u.line = t.line
                            \/ /\ UNCHANGED files /\ u.pc = "ready" /\ u.file = t.file
                               /\ 0 \notin DOMAIN dir \/ faults' = faults + 1
           /\ Reopen(w) => \/ /\ Create /\ u.pc = "write" /\ u.line = t.line
                              /\ u.file = dir'[0] /\ u.size = 0
                           \/ /\ UNCHANGED files /\ u.pc = "ready" /\ u.file = t.file
                              /\ faults' = faults + 1
           /\ Write(w) => /\ u.pc = "ready" /\ u.line = 0 /\ u.file = t.file /\ UNCHANGED dir
                          /\ IF t.file = NoFile
                             THEN UNCHANGED body
                             ELSE /\ u.size = t.size + 1
                                  /\ \/ body' = [body EXCEPT ![t.file] = Append(@, <<w, t.line>>)]
                                     \/ UNCHANGED body /\ faults' = faults + 1
<1>1. t \in Task /\ t.k \in Nat /\ t.size \in Nat /\ received \in Nat
  BY DEF TInv, TasksOK, TaskOK, Fit, CountsOK, Task
<1>2. ASSUME NEW r, Become(w, r) PROVE u = r
  BY <1>2 DEF Become, TInv, TasksOK
<1>3. ASSUME NEW pc, Goto(w, pc)
      PROVE  u.pc = pc /\ u.line = t.line /\ u.file = t.file /\ u.k = t.k
  BY <1>1, <1>2, <1>3 DEF Goto, Task
<1>4. ASSUME GiveUp(w) PROVE u.pc = "ready" /\ u.line = 0 /\ u.file = t.file
  BY <1>1, <1>2, <1>4 DEF GiveUp, Task
<1>5. ASSUME NEW k, BackupsFrom(w, k)
      PROVE  u.k = k /\ u.line = t.line /\ u.pc = IF k > 0 THEN "look" ELSE "current"
  <2>1. u = [t EXCEPT !.k = k, !.pc = IF k > 0 THEN "look" ELSE "current"]
    BY <1>2, <1>5 DEF BackupsFrom
  <2> QED
    BY <1>1, <2>1 DEF Task
<1>6. Start(w) => /\ u.pc = "measure" /\ u.line = 0
                  /\ \/ Create /\ u.file = dir'[0]
                     \/ UNCHANGED files /\ faults' = faults + 1
  BY <1>2 DEF Start, Fault
<1>7. Measure(w) => /\ u.pc = "ready" /\ u.line = t.line /\ u.file = t.file
                    /\ u.size = Measured(t) /\ UNCHANGED files
  BY <1>1, <1>2 DEF Measure, Task, files
<1>8. Receive(w) => /\ u.line = received' /\ UNCHANGED files
                    /\ Full(t) => /\ u.pc = IF keep = 1 THEN "truncate" ELSE "oldest"
                                  /\ u.file = NoFile
                    /\ ~ Full(t) => /\ u.pc = "write" /\ u.file = t.file
                                    /\ u.size = t.size
  <2> SUFFICES ASSUME Receive(w)
               PROVE  /\ u.line = received' /\ UNCHANGED files
                      /\ Full(t) => /\ u.pc = IF keep = 1 THEN "truncate" ELSE "oldest"
                                    /\ u.file = NoFile
                      /\ ~ Full(t) => /\ u.pc = "write" /\ u.file = t.file
                                      /\ u.size = t.size
    OBVIOUS
  <2>1. CASE Full(t)
    <3>1. u = [t EXCEPT !.line = received', !.file = NoFile,
                 !.pc = IF keep = 1 THEN "truncate" ELSE "oldest"] /\ UNCHANGED files
      BY <1>2, <2>1 DEF Receive
    <3> QED
      BY <1>1, <2>1, <3>1 DEF Task
  <2>2. CASE ~ Full(t)
    <3>1. u = [t EXCEPT !.line = received', !.pc = "write"] /\ UNCHANGED files
      BY <1>2, <2>2 DEF Receive
    <3> QED
      BY <1>1, <2>2, <3>1 DEF Task
  <2> QED
    BY <2>1, <2>2
<1>9. End(w) => u.pc = "off" /\ u.line = 0 /\ UNCHANGED files
  BY <1>1, <1>2 DEF End, Idle, files
<1>10. Truncate(w) => u.pc = "open" /\ u.line = t.line /\ u.file = t.file
  BY <1>3 DEF Truncate
<1>11. RemoveOldest(w) => /\ u.k = keep - 2 /\ u.line = t.line
                          /\ u.pc = IF keep - 2 > 0 THEN "look" ELSE "current"
  BY <1>5 DEF RemoveOldest, Shifted
<1>12. Look(w) => /\ u.line = t.line /\ UNCHANGED files
                  /\ IF t.k \in DOMAIN dir
                     THEN u.pc = "move" /\ u.k = t.k
                     ELSE /\ u.k = t.k - 1
                          /\ u.pc = IF t.k - 1 > 0 THEN "look" ELSE "current"
  BY <1>3, <1>5 DEF Look, files
<1>13. Move(w) => \/ /\ t.k \in DOMAIN dir /\ Rename(t.k)
                     /\ u.line = t.line /\ u.k = t.k - 1
                     /\ u.pc = IF t.k - 1 > 0 THEN "look" ELSE "current"
                  \/ /\ UNCHANGED files /\ u.pc = "ready" /\ u.file = t.file
                     /\ t.k \notin DOMAIN dir \/ faults' = faults + 1
  BY <1>4, <1>5 DEF Move, Fault
<1>14. Current(w) => \/ /\ 0 \in DOMAIN dir /\ Rename(0)
                        /\ u.pc = "open" /\ u.line = t.line
                     \/ /\ UNCHANGED files /\ u.pc = "ready" /\ u.file = t.file
                        /\ 0 \notin DOMAIN dir \/ faults' = faults + 1
  BY <1>3, <1>4 DEF Current, Fault
<1>15. Reopen(w) => \/ /\ Create /\ u.pc = "write" /\ u.line = t.line
                       /\ u.file = dir'[0] /\ u.size = 0
                    \/ /\ UNCHANGED files /\ u.pc = "ready" /\ u.file = t.file
                       /\ faults' = faults + 1
  <2>1. ASSUME Become(w, [t EXCEPT !.pc = "write", !.file = dir'[0], !.size = 0])
        PROVE  u.pc = "write" /\ u.line = t.line /\ u.file = dir'[0] /\ u.size = 0
    BY <1>1, <1>2, <2>1 DEF Task
  <2> QED
    BY <1>4, <2>1 DEF Reopen, Fault
<1>16. Write(w) => /\ u.pc = "ready" /\ u.line = 0 /\ u.file = t.file /\ UNCHANGED dir
                   /\ IF t.file = NoFile
                      THEN UNCHANGED body
                      ELSE /\ u.size = t.size + 1
                           /\ \/ body' = [body EXCEPT ![t.file] = Append(@, <<w, t.line>>)]
                              \/ UNCHANGED body /\ faults' = faults + 1
  <2>1. ASSUME Become(w, [t EXCEPT !.pc = "ready", !.line = 0, !.size = @ + 1])
        PROVE  u.pc = "ready" /\ u.line = 0 /\ u.file = t.file /\ u.size = t.size + 1
    BY <1>1, <1>2, <2>1 DEF Task
  <2> QED
    BY <1>4, <2>1 DEF Write, Fault, files
<1> QED
  BY <1>6, <1>7, <1>8, <1>9, <1>10, <1>11, <1>12, <1>13, <1>14, <1>15, <1>16

\* The places of a writer's lines in a file.
Places(w, f) == {i \in 1 .. Len(f) : f[i][1] = w}
Count(w, f) == Cardinality(Places(w, f))
Owned(w) ==
    LET t == task[w]
    IN  /\ \A n \in Inode : Count(w, body[n]) <= MaxBytes
        /\ t.pc \in {"ready", "write"} /\ t.file # NoFile => Count(w, body[t.file]) <= t.size
        /\ t.pc = "write" /\ t.file # NoFile => t.size + 1 <= MaxBytes
        /\ t.pc = "open" /\ 0 \in DOMAIN dir => Count(w, body[dir[0]]) = 0
Rotates == MaxBytes > 0 /\ (keep > 1 \/ faults = 0)
PInv == Rotates => \A w \in Writer : Owned(w)

LEMMA PlacesFinite ==
    ASSUME FilesOK, NEW w, NEW n \in Inode
    PROVE  /\ IsFiniteSet(Places(w, body[n])) /\ Count(w, body[n]) \in Nat
           /\ Len(body[n]) \in Nat /\ Count(w, body[n]) <= Len(body[n])
<1>1. body[n] \in Seq(Line) /\ Len(body[n]) \in Nat
  BY ElementOfSeq DEF FilesOK, Inode
<1>2. IsFiniteSet(1 .. Len(body[n])) /\ Cardinality(1 .. Len(body[n])) = Len(body[n])
  BY <1>1, FS_Interval
<1>3. Places(w, body[n]) \in SUBSET (1 .. Len(body[n]))
  BY DEF Places
<1> QED
  BY <1>1, <1>2, <1>3, FS_Subset, FS_CardinalityType DEF Count

\* A step of a writer adds at most one line of its own, to the file it has open.
LEMMA CountStep ==
    ASSUME TInv, OInv, NEW w \in Writer, Log(w), NEW v \in Writer
    PROVE  /\ \A n \in Inode' \ Inode : Count(v, body'[n]) = 0
           /\ \A n \in Inode :
                \/ Count(v, body'[n]) = Count(v, body[n])
                \/ /\ v = w /\ Write(w) /\ n = task[w].file /\ n # NoFile
                   /\ Count(v, body'[n]) = Count(v, body[n]) + 1
<1>1. FilesOK /\ NamesInOrder
  BY DEF TInv, OInv
<1>2. CASE UNCHANGED body
  BY <1>2 DEF Inode, Count, Places
<1>3. CASE Create
  <2>1. /\ \A n \in Inode : body'[n] = body[n]
        /\ \A n \in Inode' \ Inode : body'[n] = <<>>
    BY <1>1, <1>3, CreateBody
  <2>2. \A n \in Inode' \ Inode : Places(v, body'[n]) = {}
    BY <2>1 DEF Places
  <2>3. \A n \in Inode : Places(v, body'[n]) = Places(v, body[n])
    BY <2>1 DEF Places
  <2> QED
    BY <2>2, <2>3, FS_EmptySet DEF Count
<1>4. ASSUME NEW n \in Inode, NEW x \in 1 .. MaxLines, Write(w), n = task[w].file,
             body' = [body EXCEPT ![n] = Append(@, <<w, x>>)]
      PROVE  /\ Inode' = Inode
             /\ \A m \in Inode : \/ Count(v, body'[m]) = Count(v, body[m])
                                 \/ v = w /\ m = n /\ Count(v, body'[m]) = Count(v, body[m]) + 1
  <2> DEFINE l == <<w, x>>
             e == Len(body[n]) + 1
  <2>1. l \in Line /\ l[1] = w
    BY DEF Line
  <2>a. body' = [body EXCEPT ![n] = Append(@, l)]
    BY <1>4
  <2> HIDE DEF l
  <2>b. Inode' = Inode /\ \A m \in Inode : m # n => body'[m] = body[m]
    BY <1>1, <2>1, <2>a, AppendLines
  <2>2. /\ Inode' = Inode /\ \A m \in Inode : m # n => body'[m] = body[m]
        /\ Len(body'[n]) = e /\ Len(body[n]) \in Nat
        /\ \A i \in 1 .. Len(body[n]) : body'[n][i] = body[n][i]
        /\ body'[n][e] = l
        /\ \A i \in 1 .. Len(body'[n]) : i \in 1 .. Len(body[n]) \/ i = e
    BY <1>1, <2>1, <2>a, <2>b, AppendLines
  <2>3. \A m \in Inode : m # n => Places(v, body'[m]) = Places(v, body[m])
    BY <2>2 DEF Places
  <2>4. e \notin Places(v, body[n]) /\ e \in 1 .. Len(body'[n])
    BY <2>2 DEF Places
  <2> HIDE DEF e
  <2>5. Places(v, body'[n]) = IF v = w THEN Places(v, body[n]) \union {e} ELSE Places(v, body[n])
    <3>1. \A i : i \in 1 .. Len(body[n]) => i \in 1 .. Len(body'[n])
      BY <2>2 DEF e
    <3>2. \A i : i \in Places(v, body'[n]) <=> i \in Places(v, body[n]) \/ (i = e /\ v = w)
      BY <2>1, <2>2, <2>4, <3>1 DEF Places
    <3> QED
      BY <3>2
  <2>6. IsFiniteSet(Places(v, body[n]))
    BY <1>1, PlacesFinite
  <2>7. v = w => Count(v, body'[n]) = Count(v, body[n]) + 1
    BY <2>4, <2>5, <2>6, FS_AddElement DEF Count
  <2> QED
    BY <2>2, <2>3, <2>5, <2>7 DEF Count
<1>5. NoFile \notin Inode
  BY DEF NoFile, Inode
<1> QED
  BY <1>2, <1>3, <1>4, <1>5, Bodies

\* The current file stays, is gone, or is a new one.
LEMMA CurrentStep ==
    ASSUME TInv, OInv, NEW w \in Writer, Log(w), 0 \in DOMAIN dir'
    PROVE  \/ 0 \in DOMAIN dir /\ dir'[0] = dir[0] /\ dir[0] \in Inode
           \/ 0 \notin DOMAIN dir /\ dir'[0] \in Inode' \ Inode
<1>1. FilesOK /\ NamesInOrder /\ DOMAIN dir \subseteq Nat
  BY LogAssumption DEF TInv, OInv, FilesOK, Name
<1>2. 0 \in DOMAIN dir => dir[0] \in Inode
  BY <1>1 DEF FilesOK
<1>3. CASE UNCHANGED dir
  BY <1>2, <1>3
<1>4. ASSUME NEW k, Remove(k) PROVE 0 \in DOMAIN dir /\ dir'[0] = dir[0]
  BY <1>4 DEF Remove
<1>5. ASSUME NEW k \in DOMAIN dir, Rename(k) PROVE 0 \in DOMAIN dir /\ dir'[0] = dir[0]
  BY <1>1, <1>5 DEF Rename
<1>6. CASE Create
  <2>1. CASE 0 \in DOMAIN dir
    BY <1>2, <1>6, <2>1 DEF Create, files
  <2>2. CASE 0 \notin DOMAIN dir
    <3>1. dir'[0] = Len(body) + 1 /\ dir'[0] \in Inode'
      BY <1>1, <1>6, <2>2, CreateBody
    <3>2. Len(body) + 1 \notin Inode
      BY <1>1 DEF FilesOK, Inode
    <3> QED
      BY <2>2, <3>1, <3>2
  <2> QED
    BY <2>1, <2>2
<1>7. UNCHANGED dir \/ Create \/ (\E k : Remove(k)) \/ (\E k \in DOMAIN dir : Rename(k))
  BY DEF Log, Rotate, Start, Measure, Receive, End, Truncate, RemoveOldest, Look, Move,
         Current, Reopen, Write, files
<1> QED
  BY <1>2, <1>3, <1>4, <1>5, <1>6, <1>7

LEMMA OwnedStep == ASSUME TInv, OInv, PInv, NEW w \in Writer, Log(w), TInv' PROVE PInv'
<1> SUFFICES ASSUME Rotates' PROVE \A v \in Writer : Owned(v)'
  BY DEF PInv
<1> DEFINE t == task[w]
           u == task'[w]
<1>1. /\ t \in Task /\ t.size \in Nat /\ MaxBytes \in Nat /\ faults \in Nat
      /\ t.pc \in Rotating => t.file = NoFile
      /\ t.pc = "truncate" => keep = 1
      /\ t.file \in {NoFile} \union Inode /\ NoFile \notin Inode
      /\ u.pc \in Rotating => u.file = NoFile
      /\ u.file \in {NoFile} \union Inode'
  BY LogAssumption DEF TInv, TasksOK, TaskOK, Fit, CountsOK, Task, NoFile, Inode
<1>2. \E r : Become(w, r)
  BY DEF Log, Rotate, Start, Measure, Receive, End, Truncate, RemoveOldest, Look, Move,
         Current, Reopen, Write, Goto, BackupsFrom, GiveUp
<1>3. UNCHANGED keep /\ \A v \in Writer : v # w => task'[v] = task[v]
  BY <1>2 DEF Become, TInv, TasksOK
<1>4. faults' \in {faults, faults + 1}
  BY DEF Log, Rotate, Start, Measure, Receive, End, Truncate, RemoveOldest, Look, Move,
         Current, Reopen, Write, Fault, Fine
<1>5. MaxBytes > 0 /\ \A v \in Writer : Owned(v)
  BY <1>1, <1>3, <1>4 DEF Rotates, PInv
<1>6. FilesOK /\ Inode \subseteq Inode'
  <2>1. FilesOK /\ NamesInOrder
    BY DEF TInv, OInv
  <2>2. ASSUME NEW n \in Inode, NEW x, body' = [body EXCEPT ![n] = x]
        PROVE  Inode' = Inode
    BY <2>1, <2>2 DEF FilesOK, Inode
  <2> QED
    BY <2>1, <2>2, Bodies, CreateBody DEF Inode
<1>7. \A v \in Writer, n \in Inode : Count(v, body[n]) \in Nat
  BY <1>6, PlacesFinite
<1>8. ASSUME NEW v \in Writer
      PROVE  \A n \in Inode' :
               \/ n \in Inode /\ Count(v, body'[n]) = Count(v, body[n])
               \/ n \notin Inode /\ Count(v, body'[n]) = 0
               \/ /\ v = w /\ Write(w) /\ n = t.file /\ n # NoFile
                  /\ Count(v, body'[n]) = Count(v, body[n]) + 1
  <2>1. ASSUME NEW n \in Inode
        PROVE  \/ Count(v, body'[n]) = Count(v, body[n])
               \/ /\ v = w /\ Write(w) /\ n = t.file /\ n # NoFile
                  /\ Count(v, body'[n]) = Count(v, body[n]) + 1
    BY CountStep
  <2>2. ASSUME NEW n \in Inode' \ Inode PROVE Count(v, body'[n]) = 0
    BY CountStep
  <2> SUFFICES ASSUME NEW n \in Inode'
               PROVE  \/ n \in Inode /\ Count(v, body'[n]) = Count(v, body[n])
                      \/ n \notin Inode /\ Count(v, body'[n]) = 0
                      \/ /\ v = w /\ Write(w) /\ n = t.file /\ n # NoFile
                         /\ Count(v, body'[n]) = Count(v, body[n]) + 1
    OBVIOUS
  <2>3. CASE n \in Inode
    BY <2>1, <2>3
  <2>4. CASE n \notin Inode
    BY <2>2, <2>4
  <2> QED
    BY <2>3, <2>4
<1>9. ASSUME NEW v \in Writer, v # w PROVE Owned(v)'
  <2>1. task'[v] = task[v] /\ task[v].file \in {NoFile} \union Inode
    BY <1>3, <1>9 DEF TInv, TasksOK, TaskOK, Fit
  <2>2. \A n \in Inode' : Count(v, body'[n]) <= MaxBytes
    BY <1>1, <1>5, <1>8, <1>9 DEF Owned
  <2>3. task[v].file # NoFile => Count(v, body'[task[v].file]) = Count(v, body[task[v].file])
    BY <1>6, <1>8, <1>9, <2>1
  <2>4. task[v].pc = "open" /\ 0 \in DOMAIN dir' => Count(v, body'[dir'[0]]) = 0
    BY <1>5, <1>6, <1>8, <1>9, CurrentStep DEF Owned
  <2>5. Owned(v)
    BY <1>5
  <2> QED
    BY <2>1, <2>2, <2>3, <2>4, <2>5 DEF Owned
<1>10. /\ \A n \in Inode : Count(w, body[n]) <= MaxBytes
       /\ t.pc \in {"ready", "write"} /\ t.file # NoFile => Count(w, body[t.file]) <= t.size
       /\ t.pc = "write" /\ t.file # NoFile => t.size + 1 <= MaxBytes
       /\ t.pc = "open" /\ 0 \in DOMAIN dir => Count(w, body[dir[0]]) = 0
  BY <1>5 DEF Owned
<1>11. \A n \in Inode' : Count(w, body'[n]) <= MaxBytes
  <2>1. ASSUME Write(w), t.file # NoFile
        PROVE  t.file \in Inode /\ Count(w, body[t.file]) + 1 <= MaxBytes
    BY <1>1, <1>7, <1>10, <2>1 DEF Write
  <2> QED
    BY <1>1, <1>5, <1>8, <1>10, <2>1
<1>12. u.pc \in {"ready", "write"} /\ u.file # NoFile => Count(w, body'[u.file]) <= u.size
  <2>1. CASE Measure(w)
    <3>1. u.file = t.file /\ u.size = Measured(t) /\ ~ Write(w)
      BY <2>1, Moves DEF Measure, Write
    <3>2. t.file # NoFile => Count(w, body[t.file]) <= Measured(t) /\ Count(w, body'[t.file]) = Count(w, body[t.file])
      BY <1>1, <1>6, <1>8, <3>1, PlacesFinite DEF Measured
    <3> QED
      BY <3>1, <3>2
  <2>2. CASE Receive(w)
    <3>1. ~ Write(w) /\ t.pc = "ready"
      BY <2>2 DEF Receive, Write
    <3>2. CASE Full(t)
      BY <2>2, <3>2, Moves
    <3>3. CASE ~ Full(t)
      <4>1. u.file = t.file /\ u.size = t.size
        BY <2>2, <3>3, Moves
      <4> QED
        BY <1>1, <1>6, <1>8, <1>10, <3>1, <4>1
    <3> QED
      BY <3>2, <3>3
  <2>3. CASE Reopen(w)
    <3>1. ~ Write(w) /\ t.pc = "open" /\ t.file = NoFile
      BY <1>1, <2>3 DEF Reopen, Write, Rotating
    <3>2. u.file # NoFile => Create /\ u.file = dir'[0] /\ u.size = 0
      BY <2>3, <3>1, Moves
    <3>3. Create => 0 \in DOMAIN dir'
      BY DEF Create, files
    <3>4. Create => Count(w, body'[dir'[0]]) = 0
      BY <1>6, <1>8, <1>10, <3>1, <3>3, CurrentStep
    <3> QED
      BY <3>2, <3>4
  <2>4. CASE Write(w)
    <3>1. u.file = t.file /\ (t.file # NoFile => u.size = t.size + 1) /\ t.pc = "write"
      BY <2>4, Moves DEF Write
    <3>2. t.file # NoFile => Count(w, body[t.file]) \in Nat /\ Count(w, body[t.file]) <= t.size
      BY <1>1, <1>7, <1>10, <3>1
    <3>3. t.file # NoFile => Count(w, body'[t.file]) \in {Count(w, body[t.file]),
                                                         Count(w, body[t.file]) + 1}
      BY <1>1, <1>6, <1>8, <3>2
    <3> QED
      BY <1>1, <3>1, <3>2, <3>3
  <2>5. CASE Move(w) \/ Current(w)
    <3>1. t.file = NoFile
      BY <1>1, <2>5 DEF Move, Current, Rotating
    <3> QED
      BY <2>5, <3>1, Moves
  <2>6. CASE Start(w) \/ End(w) \/ Truncate(w) \/ RemoveOldest(w) \/ Look(w)
    BY <2>6, Moves
  <2> QED
    BY <2>1, <2>2, <2>3, <2>4, <2>5, <2>6 DEF Log, Rotate
<1>13. u.pc = "write" /\ u.file # NoFile => u.size + 1 <= MaxBytes
  <2>1. CASE Receive(w)
    <3>1. CASE Full(t)
      BY <2>1, <3>1, Moves
    <3>2. CASE ~ Full(t)
      <4>1. u.size = t.size
        BY <2>1, <3>2, Moves
      <4> QED
        BY <1>1, <1>5, <3>2, <4>1 DEF Full
    <3> QED
      BY <3>1, <3>2
  <2>2. CASE Reopen(w)
    BY <1>1, <1>5, <2>2, Moves
  <2>3. CASE ~ Receive(w) /\ ~ Reopen(w)
    BY <2>3, Moves DEF Log, Rotate
  <2> QED
    BY <2>1, <2>2, <2>3
<1>14. u.pc = "open" => 0 \notin DOMAIN dir'
  <2>1. CASE Truncate(w)
    <3>1. Remove(0)
      BY <1>1, <1>3, <1>4, <2>1 DEF Truncate, Fault, Rotates
    <3> QED
      BY <3>1 DEF Remove
  <2>2. CASE Current(w)
    <3>1. u.pc = "open" => Rename(0)
      BY <2>2, Moves
    <3> QED
      BY <3>1 DEF Rename
  <2>3. CASE ~ Truncate(w) /\ ~ Current(w)
    BY <2>3, Moves DEF Log, Rotate
  <2> QED
    BY <2>1, <2>2, <2>3
<1>15. Owned(w)'
  BY <1>11, <1>12, <1>13, <1>14 DEF Owned
<1> QED
  BY <1>9, <1>15

LEMMA OwnedNext == TInv /\ OInv /\ PInv /\ [Next]_vars => PInv'
<1> SUFFICES ASSUME TInv, OInv, PInv, [Next]_vars PROVE PInv'
  OBVIOUS
<1>1. TInv'
  BY NextType
<1>2. CASE UNCHANGED vars \/ Follow
  <2>1. UNCHANGED <<keep, body, dir, task, faults>>
    BY <1>2 DEF vars, files, follower, Follow, List, Poll, ReadFile, Resize
  <2> QED
    BY <2>1 DEF PInv, Rotates, Owned, Count, Places, Inode
<1> QED
  BY <1>1, <1>2, OwnedStep DEF Next

\* A file with at most N lines of each writer has at most N times as many
\* lines as there are writers: a longer one would have two lines of one
\* writer that are both its k-th.
LEMMA SharesAddUp ==
    ASSUME FilesOK, NEW n \in Inode, NEW N \in Nat,
           \A w \in Writer : Count(w, body[n]) <= N
    PROVE  Len(body[n]) <= Cardinality(Writer) * N
<1> DEFINE f == body[n]
           who(i) == f[i][1]
           upTo(i) == {j \in 1 .. i : j \in 1 .. Len(f) /\ who(j) = who(i)}
           rank(i) == Cardinality(upTo(i))
           S == 1 .. Len(f)
           T == Writer \X (1 .. N)
<1>1. f \in Seq(Line) /\ Len(f) \in Nat
  BY ElementOfSeq DEF FilesOK, Inode
<1>2. \A i \in S : who(i) \in Writer
  <2>1. \A i \in S : f[i] \in Line
    BY <1>1, ElementOfSeq
  <2> QED
    BY <2>1 DEF Line
<1>3. \A i \in S : upTo(i) \in SUBSET Places(who(i), body[n]) /\ i \in upTo(i)
  BY <1>1 DEF Places
<1> HIDE DEF f
<1>4. \A i \in S : IsFiniteSet(upTo(i)) /\ rank(i) \in 1 .. N
  <2>1. ASSUME NEW i \in S PROVE IsFiniteSet(upTo(i)) /\ rank(i) \in 1 .. N
    <3>1. IsFiniteSet(Places(who(i), body[n])) /\ Count(who(i), body[n]) \in Nat /\ Count(who(i), body[n]) <= N
      BY <1>2, PlacesFinite
    <3>2. /\ IsFiniteSet(upTo(i)) /\ rank(i) <= Count(who(i), body[n])
      BY <1>3, <3>1, FS_Subset DEF Count
    <3>3. rank(i) \in Nat /\ rank(i) # 0
      BY <1>3, <3>2, FS_CardinalityType, FS_EmptySet
    <3> HIDE DEF rank, who
    <3> QED
      BY <3>1, <3>2, <3>3
  <2> QED
    BY <2>1
<1>5. ASSUME NEW i \in S, NEW j \in S, i < j, who(i) = who(j) PROVE rank(i) # rank(j)
  <2>1. upTo(i) \in SUBSET upTo(j) /\ j \notin upTo(i) /\ j \in upTo(j)
    BY <1>3, <1>5
  <2>2. upTo(i) # upTo(j)
    BY <2>1
  <2> QED
    BY <1>4, <2>1, <2>2, FS_Subset
<1> DEFINE g == [i \in S |-> <<who(i), rank(i)>>]
<1>6. g \in [S -> T]
  BY <1>2, <1>4
<1>7. IsFiniteSet(S) /\ Cardinality(S) = Len(f)
  <2> DEFINE L == Len(f)
  <2>1. L \in Nat
    BY <1>1
  <2> HIDE DEF L
  <2>2. /\ IsFiniteSet(1 .. L)
        /\ Cardinality(1 .. L) = IF 1 > L THEN 0 ELSE L - 1 + 1
    BY <2>1, FS_Interval
  <2>3. (IF 1 > L THEN 0 ELSE L - 1 + 1) = L
    BY <2>1
  <2>4. IsFiniteSet(1 .. L) /\ Cardinality(1 .. L) = L
    BY <2>2, <2>3
  <2> QED
    BY <2>4 DEF L
<1>8. IsFiniteSet(Writer) /\ Cardinality(Writer) \in Nat
  BY LogAssumption, FS_CardinalityType
<1>9. IsFiniteSet(1 .. N) /\ Cardinality(1 .. N) = N
  BY FS_Interval
<1>10. IsFiniteSet(T) /\ Cardinality(T) = Cardinality(Writer) * N
  BY <1>8, <1>9, FS_Product
<1>11. ~ (\E i, j \in S : i # j /\ g[i] = g[j])
  <2> SUFFICES ASSUME NEW i \in S, NEW j \in S, i # j, g[i] = g[j] PROVE FALSE
    OBVIOUS
  <2> HIDE DEF rank, who
  <2>1. who(i) = who(j) /\ rank(i) = rank(j)
    OBVIOUS
  <2>2. i < j \/ j < i
    BY <1>1
  <2> QED
    BY <1>5, <2>1, <2>2
<1> HIDE DEF g, S, T
<1>12. ~ (Cardinality(T) < Cardinality(S))
  BY <1>6, <1>7, <1>10, <1>11, FS_PigeonHole
<1>13. Cardinality(T) \in Nat
  BY <1>10, FS_CardinalityType
<1> QED
  BY <1>1, <1>7, <1>10, <1>12, <1>13 DEF f

\* Children that write at once share the files; each adds no more than
\* log_max_bytes to any of them, and so no file outgrows that many times the
\* number of children.
THEOREM SharedFilesStayCapped == Spec => []CapPerWriter
<1>1. Init => PInv
  BY DEF Init, Idle, PInv, Owned, Inode
<1>2. Init => OInv
  BY DEF Init, OInv, NamesInOrder, OrderedFiles, OrderedInodes, NoneNewer, Fresh, Inode
<1>3. TInv /\ PInv => CapPerWriter
  <2>1. MaxBytes \in Nat
    BY LogAssumption
  <2> QED
    BY <2>1, SharesAddUp DEF TInv, PInv, Rotates, Owned, CapPerWriter
<1> QED
  BY <1>1, <1>2, <1>3, InitType, NextType, OrderStep, OwnedNext, PTL DEF Spec

-----------------------------------------------------------------------------
(***************************************************************************)
(* What rotation keeps.                                                    *)
(***************************************************************************)

Lone == MaxBytes > 0 /\ ~ shared /\ faults = 0

\* The lines are numbered as they come: file n goes on where file n - 1, which
\* is full, ended.
Base(n) == (n - 1) * MaxBytes
Top == Len(body)
Stored == IF Top = 0 THEN 0 ELSE Base(Top) + Len(body[Top])
FullFiles == \A n \in 1 .. Top - 1 : Len(body[n]) = MaxBytes
Numbered == \A n \in Inode : \A i \in 1 .. Len(body[n]) : body[n][i][2] = Base(n) + i
Covered == \A m \in 1 .. Stored :
               \E n \in Inode : \E i \in 1 .. Len(body[n]) : Base(n) + i = m
Filled == FullFiles /\ Numbered /\ Covered

\* The newest files have the names in turn, but that name g is free: those
\* below it are still to be moved, those above have been.
Laid(g) ==
    /\ \A l \in Name : l \in DOMAIN dir <=> ((l < g /\ l < Top) \/ (l > g /\ l <= Top))
    /\ \A l \in DOMAIN dir : dir[l] = IF l < g THEN Top - l ELSE Top - l + 1
Gap(t) == IF t.pc \in {"look", "move"} THEN t.k + 1
          ELSE IF t.pc = "current" THEN 1
          ELSE IF t.pc = "open" THEN 0 ELSE keep

AtRest == Laid(keep) /\ received = Stored /\ (Top > 1 => Len(body[Top]) > 0)
InHand(w) == received = Stored + 1 /\ task[w].line = received /\ Top > 0
Keeping(w) ==
    LET t == task[w]
    IN  /\ t.pc \in {"measure", "ready"} =>
              AtRest /\ t.line = 0 /\ t.file = Top /\ Top > 0
        /\ t.pc = "write" => InHand(w) /\ Laid(keep) /\ t.file = Top
        /\ t.pc \in {"ready", "write"} => t.size = Len(body[Top])
        /\ t.pc \in Rotating => InHand(w) /\ Len(body[Top]) = MaxBytes /\ Laid(Gap(t))
        /\ t.pc = "move" => t.k \in DOMAIN dir
KInv == Lone => /\ Filled
                /\ (\A w \in Writer : ~ Running(w)) => AtRest
                /\ \A w \in Writer : Running(w) => Keeping(w)

LEMMA Spans ==
    ASSUME NEW a \in Nat, NEW b \in Nat, NEW c \in Nat, NEW M \in Nat, a + b <= c
    PROVE  a * M + b * M <= c * M /\ a * M \in Nat /\ b * M \in Nat /\ c * M \in Nat
<1>1. PICK d \in Nat : c = a + b + d
  <2>1. c - (a + b) \in Nat /\ c = a + b + (c - (a + b))
    OBVIOUS
  <2> QED
    BY <2>1
<1>2. c * M = a * M + b * M + d * M
  BY <1>1
<1>3. a * M \in Nat /\ b * M \in Nat /\ d * M \in Nat
  OBVIOUS
<1> QED
  BY <1>2, <1>3

LEMMA NextBase ==
    ASSUME NEW n \in Nat
    PROVE  /\ Base(n + 1) = n * MaxBytes /\ n * MaxBytes \in Nat
           /\ n > 0 => Base(n) \in Nat /\ n * MaxBytes = Base(n) + MaxBytes
<1>1. MaxBytes \in Nat
  BY LogAssumption
<1>2. (n + 1) - 1 = n
  OBVIOUS
<1>3. n > 0 => n - 1 \in Nat /\ n * MaxBytes = (n - 1) * MaxBytes + MaxBytes
  BY <1>1
<1> QED
  BY <1>1, <1>2, <1>3 DEF Base

\* The names at rest, and through a rotation.
LEMMA LaidOldest ==
    ASSUME FilesOK, Laid(keep), Remove(keep - 1), UNCHANGED keep
    PROVE  Laid(keep - 1)'
<1>1. keep \in Nat /\ keep > 0 /\ Top \in Nat /\ \A l \in Name : l \in Nat /\ l <= keep - 1
  BY LogAssumption DEF FilesOK, Top, Name
<1>2. /\ DOMAIN dir' = DOMAIN dir \ {keep - 1} /\ \A l \in DOMAIN dir' : dir'[l] = dir[l]
      /\ Top' = Top /\ Name' = Name /\ DOMAIN dir \subseteq Name
  BY DEF Remove, Top, Name, FilesOK
<1>3. \A l \in Name : l \in DOMAIN dir' <=>
                         ((l < keep - 1 /\ l < Top) \/ (l > keep - 1 /\ l <= Top))
  BY <1>1, <1>2 DEF Laid
<1>4. \A l \in DOMAIN dir' : l < keep - 1 /\ dir'[l] = Top - l
  BY <1>1, <1>2 DEF Laid
<1> QED
  BY <1>2, <1>3, <1>4 DEF Laid

LEMMA LaidRename ==
    ASSUME FilesOK, NEW k \in DOMAIN dir, k + 1 <= keep - 1, Laid(k + 1), Rename(k),
           UNCHANGED keep
    PROVE  Laid(k)'
<1>1. /\ keep \in Nat /\ k \in Name /\ Top \in Nat /\ \A l \in Name : l \in Nat
      /\ DOMAIN dir \subseteq Name /\ k + 1 \in Name
  BY LogAssumption DEF FilesOK, Top, Name
<1>2. /\ DOMAIN dir' = (DOMAIN dir \ {k}) \union {k + 1}
      /\ \A x \in DOMAIN dir' : dir'[x] = IF x = k + 1 THEN dir[k] ELSE dir[x]
      /\ Top' = Top /\ Name' = Name
  BY DEF Rename, Top, Name
<1>3. k < Top /\ dir[k] = Top - k
  BY <1>1 DEF Laid
<1>4. \A l \in Name : l \in DOMAIN dir' <=> ((l < k /\ l < Top) \/ (l > k /\ l <= Top))
  BY <1>1, <1>2, <1>3 DEF Laid
<1>5. ASSUME NEW l \in DOMAIN dir' PROVE dir'[l] = IF l < k THEN Top - l ELSE Top - l + 1
  <2>1. l \in Name
    BY <1>1, <1>2
  <2>2. CASE l = k + 1
    BY <1>1, <1>2, <1>3, <2>2
  <2>3. CASE l # k + 1
    <3>1. l \in DOMAIN dir /\ dir'[l] = dir[l] /\ l # k
      BY <1>2, <2>3
    <3>2. dir[l] = IF l < k + 1 THEN Top - l ELSE Top - l + 1
      BY <3>1 DEF Laid
    <3> QED
      BY <1>1, <2>1, <2>3, <3>1, <3>2
  <2> QED
    BY <2>2, <2>3
<1> QED
  BY <1>2, <1>4, <1>5 DEF Laid

LEMMA LaidSkip ==
    ASSUME FilesOK, NEW k \in Name, k \notin DOMAIN dir, Laid(k + 1)
    PROVE  Laid(k)
<1>1. k \in Nat /\ Top \in Nat /\ (\A l \in Name : l \in Nat) /\ DOMAIN dir \subseteq Name
  BY LogAssumption DEF FilesOK, Top, Name
<1>2. k >= Top
  BY <1>1 DEF Laid
<1>3. ASSUME NEW l \in Name
      PROVE  l \in DOMAIN dir <=> ((l < k /\ l < Top) \/ (l > k /\ l <= Top))
  BY <1>1, <1>2 DEF Laid
<1>4. ASSUME NEW l \in DOMAIN dir PROVE dir[l] = IF l < k THEN Top - l ELSE Top - l + 1
  <2>0. l \in Name /\ l \in Nat
    BY <1>1
  <2>1. l < k /\ l < k + 1
    <3>1. (l < k /\ l < Top) \/ (l > k /\ l <= Top)
      BY <1>3, <2>0
    <3> QED
      BY <1>1, <1>2, <2>0, <3>1
  <2> QED
    BY <2>1 DEF Laid
<1> QED
  BY <1>3, <1>4 DEF Laid

LEMMA LaidCreate ==
    ASSUME FilesOK, NamesInOrder, Create, UNCHANGED keep,
           Laid(0) \/ Laid(keep), 0 \notin DOMAIN dir
    PROVE  Laid(keep)' /\ (Laid(keep) => Top = 0)
<1>1. /\ keep \in Nat /\ keep > 0 /\ Top \in Nat /\ 0 \in Name /\ DOMAIN dir \subseteq Name
      /\ \A l \in Name : l \in Nat /\ l < keep
  BY LogAssumption DEF FilesOK, Top, Name
<1>2. /\ Top' = Top + 1 /\ dir'[0] = Top' /\ Name' = Name
      /\ DOMAIN dir' = DOMAIN dir \union {0} /\ \A l \in DOMAIN dir : dir'[l] = dir[l]
  BY CreateBody DEF Create, Top, Name
<1>3. Laid(keep) => Top = 0
  BY <1>1 DEF Laid
<1>4. ASSUME NEW l \in Name PROVE l \in DOMAIN dir <=> (l > 0 /\ l <= Top)
  <2>1. CASE Laid(keep)
    BY <1>1, <1>3, <2>1 DEF Laid
  <2>2. CASE Laid(0)
    BY <1>1, <2>2 DEF Laid
  <2> QED
    BY <2>1, <2>2
<1>5. ASSUME NEW l \in DOMAIN dir PROVE dir[l] = Top - l + 1
  <2>1. l \in Nat /\ l > 0 /\ l <= Top
    BY <1>1, <1>4
  <2>2. Laid(0)
    BY <1>1, <1>3, <2>1
  <2> QED
    BY <2>1, <2>2 DEF Laid
<1>6. \A l \in Name : l \in DOMAIN dir' <=> ((l < keep /\ l < Top') \/ (l > keep /\ l <= Top'))
  BY <1>1, <1>2, <1>4
<1>7. ASSUME NEW l \in DOMAIN dir'
      PROVE  dir'[l] = IF l < keep THEN Top' - l ELSE Top' - l + 1
  <2>1. CASE l = 0
    BY <1>1, <1>2, <2>1
  <2>2. CASE l # 0
    <3>1. l \in DOMAIN dir /\ l \in Nat /\ l < keep
      BY <1>1, <1>2, <2>2
    <3>2. dir'[l] = Top - l + 1
      BY <1>2, <1>5, <3>1
    <3> QED
      BY <1>1, <1>2, <3>1, <3>2
  <2> QED
    BY <2>1, <2>2
<1> QED
  BY <1>2, <1>3, <1>6, <1>7 DEF Laid

\* A new file is numbered on from a full one.
LEMMA CreateFilled ==
    ASSUME FilesOK, NamesInOrder, Filled, Create, 0 \notin DOMAIN dir,
           Top = 0 \/ Len(body[Top]) = MaxBytes
    PROVE  Filled' /\ Stored' = Stored /\ Top' = Top + 1 /\ body'[Top'] = <<>>
<1>1. /\ Top \in Nat /\ Top' = Top + 1 /\ Inode = 1 .. Top /\ Inode' = 1 .. Top + 1
      /\ \A n \in Inode : body'[n] = body[n]
      /\ body'[Top'] = <<>>
  BY CreateBody DEF FilesOK, Top, Inode
<1>2. Stored' = Stored
  <2>1. Stored' = Base(Top + 1) + 0
    BY <1>1 DEF Stored
  <2>2. Base(Top + 1) = Top * MaxBytes /\ Top * MaxBytes \in Nat
    BY <1>1, NextBase
  <2>3. CASE Top = 0
    <3>1. Stored = 0 /\ 0 * MaxBytes = 0
      BY <2>3, LogAssumption DEF Stored
    <3> QED
      BY <2>1, <2>2, <2>3, <3>1
  <2>4. CASE Top > 0
    <3>1. Stored = Base(Top) + MaxBytes
      BY <2>4 DEF Stored
    <3>2. Top * MaxBytes = Base(Top) + MaxBytes
      BY <1>1, <2>4, NextBase
    <3> QED
      BY <2>1, <2>2, <3>1, <3>2
  <2> QED
    BY <1>1, <2>3, <2>4
<1>3. FullFiles'
  <2>1. ASSUME NEW n \in 1 .. Top PROVE Len(body'[n]) = MaxBytes
    BY <1>1, <2>1 DEF Filled, FullFiles
  <2> QED
    BY <1>1, <2>1 DEF FullFiles
<1>4. Numbered'
  <2>1. ASSUME NEW n \in Inode', NEW i \in 1 .. Len(body'[n])
        PROVE  body'[n][i][2] = Base(n) + i
    <3>1. n # Top'
      BY <1>1, <2>1
    <3>2. n \in Inode /\ body'[n] = body[n]
      BY <1>1, <3>1
    <3> QED
      BY <2>1, <3>2 DEF Filled, Numbered
  <2> QED
    BY <2>1 DEF Numbered
<1>5. Covered'
  <2>1. ASSUME NEW m \in 1 .. Stored
        PROVE  \E n \in Inode' : \E i \in 1 .. Len(body'[n]) : Base(n) + i = m
    <3>0. PICK n \in Inode : \E i \in 1 .. Len(body[n]) : Base(n) + i = m
      BY <2>1 DEF Filled, Covered
    <3>1. PICK i \in 1 .. Len(body[n]) : Base(n) + i = m
      BY <3>0
    <3>2. n \in Inode' /\ i \in 1 .. Len(body'[n])
      BY <1>1, <3>1
    <3> QED
      BY <3>1, <3>2
  <2> QED
    BY <1>2, <2>1 DEF Covered
<1> QED
  BY <1>1, <1>2, <1>3, <1>4, <1>5 DEF Filled

\* ... and the next line goes to its place.
LEMMA AppendFilled ==
    ASSUME FilesOK, Filled, Top > 0, NEW w, NEW x, <<w, x>> \in Line, x = Stored + 1,
           body' = [body EXCEPT ![Top] = Append(@, <<w, x>>)]
    PROVE  /\ Filled' /\ Stored' = Stored + 1 /\ Top' = Top
           /\ Len(body'[Top]) = Len(body[Top]) + 1
<1> DEFINE l == <<w, x>>
<1>1. Top \in Inode /\ Top \in Nat
  BY DEF FilesOK, Top, Inode
<1>2. l[2] = x /\ l \in Line /\ body' = [body EXCEPT ![Top] = Append(@, l)]
  OBVIOUS
<1> HIDE DEF l
<1>3. /\ Inode' = Inode
      /\ \A m \in Inode : m # Top => body'[m] = body[m]
      /\ Len(body') = Len(body)
  BY <1>1, <1>2, AppendLines
<1>4. /\ Len(body'[Top]) = Len(body[Top]) + 1 /\ Len(body[Top]) \in Nat
      /\ \A i \in 1 .. Len(body[Top]) : body'[Top][i] = body[Top][i]
      /\ body'[Top][Len(body[Top]) + 1] = l
      /\ \A i \in 1 .. Len(body'[Top]) : i \in 1 .. Len(body[Top]) \/ i = Len(body[Top]) + 1
  BY <1>1, <1>2, AppendLines
<1>5. Top' = Top
  BY <1>3 DEF Top
<1>6. Base(Top) \in Nat
  BY <1>1, NextBase
<1>7. Stored = Base(Top) + Len(body[Top]) /\ Stored' = Base(Top) + Len(body'[Top])
  BY <1>5 DEF Stored
<1>8. Stored' = Stored + 1 /\ Stored \in Nat
  BY <1>4, <1>6, <1>7
<1>9. FullFiles'
  <2>1. ASSUME NEW n \in 1 .. Top - 1 PROVE n \in Inode /\ n # Top
    BY <1>1 DEF Inode, Top
  <2> QED
    BY <1>3, <1>5, <2>1 DEF Filled, FullFiles
<1>10. Numbered'
  <2>1. ASSUME NEW n \in Inode, NEW i \in 1 .. Len(body'[n])
        PROVE  body'[n][i][2] = Base(n) + i
    <3>1. CASE n # Top
      BY <1>3, <2>1, <3>1 DEF Filled, Numbered
    <3>2. CASE n = Top /\ i \in 1 .. Len(body[Top])
      BY <1>1, <1>4, <3>2 DEF Filled, Numbered
    <3>3. CASE n = Top /\ i = Len(body[Top]) + 1
      <4>1. body'[n][i][2] = Stored + 1
        BY <1>2, <1>4, <3>3
      <4> QED
        BY <1>4, <1>6, <1>7, <3>3, <4>1
    <3> QED
      BY <1>4, <3>1, <3>2, <3>3
  <2> QED
    BY <1>3, <2>1 DEF Numbered
<1>11. Covered'
  <2>1. ASSUME NEW m \in 1 .. Stored + 1
        PROVE  \E n \in Inode : \E i \in 1 .. Len(body'[n]) : Base(n) + i = m
    <3>1. CASE m = Stored + 1
      <4>1. Base(Top) + Len(body'[Top]) = m /\ Len(body'[Top]) \in 1 .. Len(body'[Top])
        BY <1>4, <1>7, <1>8, <3>1
      <4> QED
        BY <1>1, <4>1
    <3>2. CASE m \in 1 .. Stored
      <4>0. PICK n \in Inode : \E i \in 1 .. Len(body[n]) : Base(n) + i = m
        BY <3>2 DEF Filled, Covered
      <4>1. PICK i \in 1 .. Len(body[n]) : Base(n) + i = m
        BY <4>0
      <4>2. i \in 1 .. Len(body'[n])
        <5>1. CASE n = Top
          BY <1>4, <4>1, <5>1
        <5>2. CASE n # Top
          BY <1>3, <4>1, <5>2
        <5> QED
          BY <5>1, <5>2
      <4> QED
        BY <4>1, <4>2
    <3> QED
      BY <1>8, <3>1, <3>2
  <2> QED
    BY <1>3, <1>8, <2>1 DEF Covered
<1> QED
  BY <1>4, <1>5, <1>8, <1>9, <1>10, <1>11 DEF Filled

\* While children write one at a time, only the one whose step it is runs.
LEMMA OnlyWriter ==
    ASSUME TInv, CInv, NEW w \in Writer, Log(w), ~ shared'
    PROVE  /\ ~ shared /\ UNCHANGED keep
           /\ Running(w) \/ Start(w)
           /\ \A v \in Writer : v # w => ~ Running(v) /\ task'[v] = task[v]
<1>1. \E r : Become(w, r)
  BY DEF Log, Rotate, Start, Measure, Receive, End, Truncate, RemoveOldest, Look, Move,
         Current, Reopen, Write, Goto, BackupsFrom, GiveUp
<1>2. UNCHANGED keep /\ \A v \in Writer : v # w => task'[v] = task[v]
  BY <1>1 DEF Become, TInv, TasksOK
<1>3. (Running(w) \/ Start(w)) /\ (~ Start(w) => UNCHANGED shared)
  BY DEF Log, Rotate, Start, Measure, Receive, End, Truncate, RemoveOldest, Look, Move,
         Current, Reopen, Write, Running
<1>4. CASE Start(w)
  BY <1>2, <1>4 DEF Start
<1>5. CASE ~ Start(w)
  BY <1>2, <1>3, <1>5 DEF CInv, Alone
<1> QED
  BY <1>4, <1>5

LEMMA SameLaid ==
    ASSUME UNCHANGED <<dir, keep>>, Top' = Top, NEW g
    PROVE  Laid(g)' = Laid(g)
BY DEF Laid, Name

LEMMA SameFilled == ASSUME UNCHANGED body
                    PROVE  Filled' = Filled /\ Stored' = Stored /\ Top' = Top
BY DEF Filled, FullFiles, Numbered, Covered, Stored, Top, Base, Inode

LEMMA KeepRotating ==
    ASSUME NEW w \in Writer, task'[w].pc \in Rotating,
           NEW g, Gap(task[w])' = g, Laid(g)', InHand(w)', Len(body'[Top']) = MaxBytes,
           task'[w].pc = "move" => task'[w].k \in DOMAIN dir'
    PROVE  Keeping(w)'
<1>1. Laid(Gap(task[w]))'
  BY DEF Laid
<1> QED
  BY <1>1 DEF Keeping, Rotating

LEMMA KeptStep ==
    ASSUME TInv, OInv, CInv, KInv, NEW w \in Writer, Log(w), TInv', Lone'
    PROVE  /\ Filled'
           /\ task'[w].pc = "off" => AtRest'
           /\ task'[w].pc # "off" => Keeping(w)'
<1> DEFINE t == task[w]
           u == task'[w]
<1>1. /\ t \in Task /\ FilesOK /\ NamesInOrder /\ t.size \in Nat /\ t.k \in Nat
      /\ received \in Nat /\ received <= MaxLines /\ MaxBytes \in Nat /\ MaxLines \in Nat
      /\ faults \in Nat /\ keep \in Nat /\ keep > 0 /\ Top \in Nat
      /\ t.pc \in Rotating => t.line # 0
      /\ t.pc = "truncate" => keep = 1
      /\ t.pc \in {"oldest", "look", "move", "current"} => keep >= 2
      /\ t.pc \in {"look", "move"} => t.k \in 1 .. keep - 2
  <2>1. FilesOK /\ NamesInOrder /\ CountsOK
    BY DEF TInv, OInv
  <2>2. Fit(t, Inode, received)
    BY DEF TInv, TasksOK, TaskOK
  <2> HIDE DEF t
  <2>3. /\ t \in Task
        /\ t.pc \in Rotating => t.line # 0
        /\ t.pc = "truncate" => keep = 1
        /\ t.pc \in {"oldest", "look", "move", "current"} => keep >= 2
        /\ t.pc \in {"look", "move"} => t.k \in 1 .. keep - 2
    BY <2>2 DEF Fit, Writing
  <2>4. t.size \in Nat /\ t.k \in Nat
    BY <2>3 DEF Task
  <2>5. keep \in Nat /\ keep > 0 /\ MaxBytes \in Nat /\ MaxLines \in Nat
    BY <2>1, LogAssumption DEF FilesOK
  <2>6. received \in Nat /\ received <= MaxLines /\ faults \in Nat
    BY <2>1, <2>5 DEF CountsOK
  <2>7. Top \in Nat
    BY <2>1 DEF FilesOK, Top
  <2> QED
    BY <2>1, <2>3, <2>4, <2>5, <2>6, <2>7
<1>2. faults' \in {faults, faults + 1}
  BY DEF Log, Rotate, Start, Measure, Receive, End, Truncate, RemoveOldest, Look, Move,
         Current, Reopen, Write, Fault, Fine
<1>3. Lone /\ faults' # faults + 1 /\ UNCHANGED keep
  BY <1>1, <1>2, OnlyWriter DEF Lone
<1>4. \A v \in Writer : v # w => ~ Running(v) /\ task'[v] = task[v]
  BY OnlyWriter DEF Lone
<1>5. Filled /\ (t.pc = "off" => AtRest) /\ (t.pc # "off" => Keeping(w))
  BY <1>3, <1>4 DEF KInv, Running
<1>6. Top > 0 => Len(body[Top]) \in Nat /\ Len(body[Top]) <= MaxBytes
  <2>1. Capped
    BY <1>3 DEF CInv, Sole, Lone
  <2>2. Top > 0 => Top \in Inode
    BY <1>1 DEF Top, Inode
  <2> QED
    BY <1>1, <2>1, <2>2, ElementOfSeq DEF Capped, FilesOK, Inode
<1>7. Stored \in Nat
  <2>1. Top > 0 => Base(Top) \in Nat
    BY <1>1, NextBase
  <2> QED
    BY <1>1, <1>6, <2>1 DEF Stored
<1>8. ASSUME UNCHANGED files
      PROVE  /\ Filled' /\ Stored' = Stored /\ Top' = Top /\ body'[Top'] = body[Top]
             /\ Laid(keep)' = Laid(keep) /\ DOMAIN dir' = DOMAIN dir
             /\ UNCHANGED received => AtRest' = AtRest
  <2>1. UNCHANGED <<body, dir>>
    BY <1>8 DEF files
  <2>2. Filled' /\ Stored' = Stored /\ Top' = Top
    BY <1>5, <2>1, SameFilled
  <2>3. Laid(keep)' = Laid(keep)
    BY <1>3, <2>1, <2>2 DEF Laid, Name
  <2>4. UNCHANGED received => AtRest' = AtRest
    BY <2>1, <2>2, <2>3 DEF AtRest
  <2> QED
    BY <2>1, <2>2, <2>3, <2>4
<1>9. CASE Start(w)
  <2>1. /\ u.pc = "measure" /\ u.line = 0 /\ Create /\ u.file = dir'[0]
        /\ t.pc = "off" /\ UNCHANGED received
    BY <1>3, <1>9, Moves DEF Start
  <2>2. dir'[0] = Top' /\ Top' > 0
    BY <1>1, <2>1, CreateBody DEF Top, Inode
  <2>3. AtRest /\ Laid(keep)
    BY <1>5, <2>1 DEF AtRest
  <2>4. Filled' /\ AtRest'
    <3>1. CASE 0 \in DOMAIN dir
      BY <1>8, <2>1, <2>3, <3>1 DEF Create
    <3>2. CASE 0 \notin DOMAIN dir
      <4>1. Top = 0 /\ Laid(keep)'
        BY <1>1, <1>3, <2>1, <2>3, <3>2, LaidCreate
      <4>2. Filled' /\ Stored' = Stored /\ Top' = 1
        BY <1>1, <1>5, <2>1, <3>2, <4>1, CreateFilled
      <4> QED
        BY <2>1, <2>3, <4>1, <4>2 DEF AtRest
    <3> QED
      BY <3>1, <3>2
  <2> QED
    BY <2>1, <2>2, <2>4 DEF Keeping, Rotating
<1>10. CASE Measure(w)
  <2>1. /\ u.pc = "ready" /\ u.line = t.line /\ u.file = t.file /\ u.size = Measured(t)
        /\ UNCHANGED files /\ t.pc = "measure" /\ UNCHANGED received
    BY <1>10, Moves DEF Measure
  <2>2. AtRest /\ t.line = 0 /\ t.file = Top /\ Top > 0
    BY <1>5, <2>1 DEF Keeping
  <2>3. u.size = Len(body[Top])
    BY <2>1, <2>2 DEF Measured, NoFile
  <2> QED
    BY <1>8, <2>1, <2>2, <2>3 DEF Keeping, Rotating
<1>11. CASE Receive(w)
  <2>1. /\ u.line = received' /\ UNCHANGED files /\ t.pc = "ready"
        /\ received' = received + 1
    BY <1>11, Moves DEF Receive
  <2>2. AtRest /\ t.file = Top /\ Top > 0 /\ t.size = Len(body[Top])
    BY <1>5, <2>1 DEF Keeping
  <2>3. InHand(w)' /\ Laid(keep)'
    BY <1>8, <2>1, <2>2 DEF InHand, AtRest
  <2>4. CASE Full(t)
    <3>1. u.pc \in {"truncate", "oldest"}
      BY <1>11, <2>4, Moves
    <3>2. Len(body[Top]) = MaxBytes
      BY <1>1, <1>6, <2>2, <2>4 DEF Full
    <3>3. Gap(task[w])' = keep /\ u.pc \in Rotating /\ u.pc # "move"
      BY <1>3, <3>1 DEF Gap, Rotating
    <3>4. Laid(keep)
      BY <2>2 DEF AtRest
    <3>5. \A g : g = keep => Laid(g)'
      BY <1>3, <2>3 DEF Laid
    <3>6. PICK g : g = keep
      OBVIOUS
    <3>7. Len(body'[Top']) = MaxBytes
      BY <1>8, <2>1, <3>2
    <3>8. Laid(g)' /\ Gap(task[w])' = g
      BY <3>3, <3>5, <3>6
    <3>9. Keeping(w)'
      BY <2>3, <3>3, <3>7, <3>8, KeepRotating
    <3> QED
      BY <1>8, <2>1, <3>1, <3>9
  <2>5. CASE ~ Full(t)
    <3>1. u.pc = "write" /\ u.file = t.file /\ u.size = t.size
      BY <1>11, <2>5, Moves
    <3> QED
      BY <1>8, <2>1, <2>2, <2>3, <3>1 DEF Keeping, Rotating
  <2> QED
    BY <2>4, <2>5
<1>12. CASE End(w)
  <2>1. u.pc = "off" /\ UNCHANGED files /\ UNCHANGED received /\ t.pc = "ready"
    BY <1>12, Moves DEF End
  <2>2. AtRest
    BY <1>5, <2>1 DEF Keeping
  <2> QED
    BY <1>8, <2>1, <2>2
<1>13. ASSUME t.pc \in Rotating, u.pc \in Rotating, u.line = t.line, UNCHANGED received,
              UNCHANGED body, NEW g, Gap(task[w])' = g, Laid(g)',
              u.pc = "move" => u.k \in DOMAIN dir'
       PROVE  Filled' /\ u.pc # "off" /\ Keeping(w)'
  <2>1. InHand(w) /\ Len(body[Top]) = MaxBytes
    BY <1>5, <1>13 DEF Keeping, Rotating
  <2>2. Filled' /\ Stored' = Stored /\ Top' = Top
    BY <1>5, <1>13, SameFilled
  <2>3. InHand(w)' /\ Len(body'[Top']) = MaxBytes
    BY <1>13, <2>1, <2>2 DEF InHand
  <2> QED
    BY <1>13, <2>2, <2>3, KeepRotating DEF Rotating
<1>14. CASE Truncate(w)
  <2>1. /\ u.pc = "open" /\ u.line = t.line /\ t.pc = "truncate" /\ UNCHANGED received
        /\ keep = 1 /\ Remove(0)
    BY <1>1, <1>3, <1>14, Moves DEF Truncate, Fault
  <2>2. Laid(keep) /\ Remove(keep - 1)
    BY <1>5, <2>1 DEF Keeping, Gap, Rotating
  <2>3. Laid(keep - 1)' /\ UNCHANGED body
    BY <1>1, <1>3, <2>2, LaidOldest DEF Remove
  <2>4. Laid(0)'
    BY <1>3, <2>1, <2>3 DEF Laid
  <2>5. Gap(task[w])' = 0
    BY <2>1 DEF Gap
  <2> QED
    BY <1>13, <2>1, <2>3, <2>4, <2>5 DEF Rotating
<1>15. CASE RemoveOldest(w)
  <2>1. /\ u.k = keep - 2 /\ u.line = t.line /\ t.pc = "oldest" /\ UNCHANGED received
        /\ u.pc = IF keep - 2 > 0 THEN "look" ELSE "current"
        /\ keep >= 2 /\ Remove(keep - 1)
    BY <1>1, <1>3, <1>15, Moves DEF RemoveOldest, Fault, Oldest
  <2>2. Laid(keep)
    BY <1>5, <2>1 DEF Keeping, Gap, Rotating
  <2>3. Laid(keep - 1)' /\ UNCHANGED body
    BY <1>1, <1>3, <2>1, <2>2, LaidOldest DEF Remove
  <2>4. PICK g : g = keep - 1
    OBVIOUS
  <2>5. Laid(g)'
    BY <1>3, <2>3, <2>4 DEF Laid
  <2>6. Gap(task[w])' = g
    <3>1. CASE keep - 2 > 0
      <4>1. u.pc = "look" /\ u.k + 1 = g
        BY <1>1, <2>1, <2>4, <3>1
      <4> QED
        BY <4>1 DEF Gap
    <3>2. CASE ~ (keep - 2 > 0)
      <4>1. u.pc = "current" /\ g = 1
        BY <1>1, <2>1, <2>4, <3>2
      <4> QED
        BY <4>1 DEF Gap
    <3> QED
      BY <3>1, <3>2
  <2> QED
    BY <1>13, <2>1, <2>3, <2>5, <2>6 DEF Rotating
<1>16. CASE Look(w)
  <2>1. /\ u.line = t.line /\ UNCHANGED files /\ t.pc = "look" /\ UNCHANGED received
        /\ IF t.k \in DOMAIN dir
           THEN u.pc = "move" /\ u.k = t.k
           ELSE /\ u.k = t.k - 1
                /\ u.pc = IF t.k - 1 > 0 THEN "look" ELSE "current"
    BY <1>16, Moves DEF Look
  <2>2. PICK k : k = t.k
    OBVIOUS
  <2>3. Laid(k + 1) /\ k \in 1 .. keep - 2 /\ k \in Name
    BY <1>1, <1>5, <2>1, <2>2 DEF Keeping, Gap, Rotating, Name
  <2>4. UNCHANGED <<dir, body>> /\ Top' = Top
    BY <2>1 DEF files, Top
  <2>5. CASE k \in DOMAIN dir
    <3>1. PICK g : g = k + 1
      OBVIOUS
    <3>2. Laid(g)'
      BY <1>3, <2>3, <2>4, <3>1, SameLaid
    <3>3. Gap(task[w])' = g
      BY <2>1, <2>2, <2>5, <3>1 DEF Gap
    <3> QED
      BY <1>13, <2>1, <2>2, <2>4, <2>5, <3>2, <3>3 DEF Rotating
  <2>6. CASE k \notin DOMAIN dir
    <3>1. Laid(k)
      BY <1>1, <2>3, <2>6, LaidSkip
    <3>2. Laid(k)'
      BY <1>3, <2>4, <3>1, SameLaid
    <3>3. Gap(task[w])' = k
      BY <2>1, <2>2, <2>3, <2>6 DEF Gap
    <3> QED
      BY <1>13, <2>1, <2>2, <2>4, <2>6, <3>2, <3>3 DEF Rotating
  <2> QED
    BY <2>5, <2>6
<1>17. CASE Move(w)
  <2>1. t.pc = "move" /\ UNCHANGED received
    BY <1>17 DEF Move
  <2>2. PICK k : k = t.k
    OBVIOUS
  <2>3. k \in DOMAIN dir /\ Laid(k + 1) /\ k \in 1 .. keep - 2
    BY <1>1, <1>5, <2>1, <2>2 DEF Keeping, Gap, Rotating
  <2>4. /\ Rename(k) /\ u.line = t.line /\ u.k = k - 1
        /\ u.pc = IF k - 1 > 0 THEN "look" ELSE "current"
    BY <1>3, <1>17, <2>2, <2>3, Moves
  <2>5. Laid(k)' /\ UNCHANGED body
    BY <1>1, <1>3, <2>3, <2>4, LaidRename DEF Rename
  <2>6. Gap(task[w])' = k
    BY <2>3, <2>4 DEF Gap
  <2> QED
    BY <1>13, <2>1, <2>4, <2>5, <2>6 DEF Rotating
<1>18. CASE Current(w)
  <2>1. t.pc = "current" /\ UNCHANGED received /\ keep >= 2
    BY <1>1, <1>18 DEF Current
  <2>2. Laid(1) /\ Top > 0
    BY <1>5, <2>1 DEF Keeping, InHand, Gap, Rotating
  <2>3. 0 \in DOMAIN dir
    BY <1>1, <2>2 DEF Laid, Name
  <2>4. Rename(0) /\ u.pc = "open" /\ u.line = t.line
    BY <1>3, <1>18, <2>3, Moves
  <2>5. Laid(0)' /\ UNCHANGED body
    <3>1. Laid(0 + 1) /\ 0 + 1 <= keep - 1
      BY <1>1, <2>1, <2>2
    <3> QED
      BY <1>1, <1>3, <2>3, <2>4, <3>1, LaidRename DEF Rename
  <2>6. Gap(task[w])' = 0
    BY <2>4 DEF Gap
  <2> QED
    BY <1>13, <2>1, <2>4, <2>5, <2>6 DEF Rotating
<1>19. CASE Reopen(w)
  <2>1. /\ Create /\ u.pc = "write" /\ u.line = t.line /\ u.file = dir'[0] /\ u.size = 0
        /\ t.pc = "open" /\ UNCHANGED received
    BY <1>3, <1>19, Moves DEF Reopen
  <2>2. InHand(w) /\ Laid(0) /\ Len(body[Top]) = MaxBytes
    BY <1>5, <2>1 DEF Keeping, Gap, Rotating
  <2>3. 0 \notin DOMAIN dir
    BY <1>1, <2>2 DEF Laid, Name
  <2>4. Laid(keep)'
    BY <1>1, <1>3, <2>1, <2>2, <2>3, LaidCreate
  <2>5. Filled' /\ Stored' = Stored /\ Top' = Top + 1 /\ body'[Top'] = <<>>
    BY <1>1, <1>5, <2>1, <2>2, <2>3, CreateFilled
  <2>6. dir'[0] = Top'
    BY <1>1, <2>1, CreateBody DEF Top
  <2>7. InHand(w)'
    BY <1>1, <2>1, <2>2, <2>5 DEF InHand
  <2> QED
    BY <2>1, <2>4, <2>5, <2>6, <2>7 DEF Keeping, Rotating
<1>20. CASE Write(w)
  <2>1. t.pc = "write" /\ UNCHANGED received
    BY <1>20 DEF Write
  <2>2. InHand(w) /\ Laid(keep) /\ t.file = Top /\ t.size = Len(body[Top]) /\ Top > 0
    BY <1>5, <2>1 DEF Keeping, InHand
  <2>3. /\ u.pc = "ready" /\ u.line = 0 /\ u.file = Top /\ u.size = Len(body[Top]) + 1
        /\ UNCHANGED dir
        /\ body' = [body EXCEPT ![Top] = Append(@, <<w, t.line>>)]
    <3>1. t.file # NoFile
      BY <2>2 DEF NoFile
    <3>2. /\ u.pc = "ready" /\ u.line = 0 /\ u.file = t.file /\ u.size = t.size + 1
          /\ UNCHANGED dir
          /\ \/ body' = [body EXCEPT ![t.file] = Append(@, <<w, t.line>>)]
             \/ UNCHANGED body /\ faults' = faults + 1
      BY <1>20, <3>1, Moves
    <3> QED
      BY <1>3, <2>2, <3>2
  <2>4. <<w, t.line>> \in Line /\ t.line = Stored + 1
    BY <1>1, <1>7, <2>2 DEF InHand, Line
  <2>5. /\ Filled' /\ Stored' = Stored + 1 /\ Top' = Top
        /\ Len(body'[Top]) = Len(body[Top]) + 1
    BY <1>1, <1>5, <2>2, <2>3, <2>4, AppendFilled
  <2>6. Laid(keep)'
    BY <1>3, <2>2, <2>3, <2>5 DEF Laid, Name
  <2>7. AtRest'
    BY <1>6, <2>1, <2>2, <2>5, <2>6 DEF AtRest, InHand
  <2> QED
    BY <2>2, <2>3, <2>5, <2>7 DEF Keeping, Rotating
<1> QED
  BY <1>9, <1>10, <1>11, <1>12, <1>14, <1>15, <1>16, <1>17, <1>18, <1>19, <1>20
     DEF Log, Rotate

LEMMA KeptNext == TInv /\ OInv /\ CInv /\ KInv /\ [Next]_vars => KInv'
<1> SUFFICES ASSUME TInv, OInv, CInv, KInv, [Next]_vars PROVE KInv'
  OBVIOUS
<1>1. TInv'
  BY NextType
<1>2. CASE UNCHANGED vars \/ Follow
  <2>1. UNCHANGED <<keep, body, dir, task, received, faults, shared>>
    BY <1>2 DEF vars, files, follower, Follow, List, Poll, ReadFile, Resize
  <2>2. Filled' = Filled /\ Stored' = Stored /\ Top' = Top
    BY <2>1, SameFilled
  <2>3. \A g : Laid(g)' = Laid(g)
    BY <2>1, <2>2, SameLaid
  <2>4. Laid(keep)' = Laid(keep) /\ \A w \in Writer : Laid(Gap(task[w]))' = Laid(Gap(task[w]))
    BY <2>1 DEF Laid, Top, Name, Gap
  <2>5. AtRest' = AtRest /\ \A w \in Writer : InHand(w)' = InHand(w)
    BY <2>1, <2>2, <2>4 DEF AtRest, InHand
  <2>6. \A w \in Writer : Keeping(w)' = Keeping(w) /\ Running(w)' = Running(w)
    BY <2>1, <2>2, <2>4, <2>5 DEF Keeping, Running
  <2> QED
    BY <2>1, <2>2, <2>5, <2>6 DEF KInv, Lone
<1>3. ASSUME NEW w \in Writer, Log(w), Lone' PROVE KInv'
  <2>1. \A v \in Writer : v # w => ~ Running(v)'
    BY <1>3, OnlyWriter DEF Lone, Running
  <2>2. /\ Filled'
        /\ task'[w].pc = "off" => AtRest'
        /\ task'[w].pc # "off" => Keeping(w)'
    BY <1>1, <1>3, KeptStep
  <2> QED
    BY <2>1, <2>2 DEF KInv, Running
<1> QED
  BY <1>2, <1>3 DEF Next, KInv

\* A file that has a name keeps its lines.
LEMMA NamedRetained ==
    ASSUME FilesOK, Numbered, NEW n \in Inode, NEW i \in 1 .. Len(body[n]),
           NEW l \in DOMAIN dir, dir[l] = n
    PROVE  \E w \in Writer : <<w, Base(n) + i>> \in Retained
<1>1. body[n] \in Seq(Line)
  BY ElementOfSeq DEF FilesOK, Inode
<1>2. body[n][i] \in Line
  BY <1>1, ElementOfSeq
<1>3. PICK w \in Writer, x \in 1 .. MaxLines : body[n][i] = <<w, x>>
  BY <1>2 DEF Line
<1>4. x = Base(n) + i
  BY <1>3 DEF Numbered
<1>5. body[n][i] \in Retained
  BY DEF Retained, File
<1> QED
  BY <1>3, <1>4, <1>5

\* While one child writes at a time and no call fails, the rotation never costs
\* a line that no more than (log_keep - 1) * log_max_bytes others have followed.
THEOREM RotationKeepsRecent == Spec => []RecentLinesKept
<1>1. Init => KInv
  <2> SUFFICES ASSUME Init PROVE KInv
    OBVIOUS
  <2>1. Top = 0 /\ Stored = 0 /\ DOMAIN dir = {} /\ received = 0 /\ Inode = {}
    BY DEF Init, Top, Stored, Inode
  <2>2. Filled
    BY <2>1 DEF Filled, FullFiles, Numbered, Covered
  <2>3. keep \in Nat /\ \A l \in Name : l \in Nat
    BY LogAssumption DEF Init, Name
  <2>4. AtRest
    BY <2>1, <2>3 DEF AtRest, Laid
  <2>5. \A w \in Writer : ~ Running(w)
    BY DEF Init, Idle, Running
  <2> QED
    BY <2>2, <2>4, <2>5 DEF KInv
<1>2. Init => OInv
  BY DEF Init, OInv, NamesInOrder, OrderedFiles, OrderedInodes, NoneNewer, Fresh, Inode
<1>3. Init => CInv
  BY DEF Init, Idle, CInv, Alone, Running, Capped, Counted, Inode
<1>4. TInv /\ CInv /\ KInv => RecentLinesKept
  <2> SUFFICES ASSUME TInv, CInv, KInv, Lone, NEW n \in 1 .. received,
                      n + (keep - 1) * MaxBytes >= received,
                      \A w \in Writer : task[w].line # n
               PROVE  \E w \in Writer : <<w, n>> \in Retained
    BY DEF RecentLinesKept, Lone
  <2>1. /\ FilesOK /\ keep \in Nat /\ keep > 0 /\ Top \in Nat /\ MaxBytes \in Nat
        /\ received \in Nat
    BY LogAssumption DEF TInv, FilesOK, CountsOK, Top
  <2>2. Filled
    BY DEF KInv
  <2>3. Capped
    BY DEF CInv, Sole, Lone
  <2>4. /\ n <= Stored
        /\ \/ Laid(keep) /\ (Top > 1 => received > Base(Top))
           \/ \E g \in Int : Laid(g) /\ received = Base(Top) + MaxBytes + 1
    <3>a. Top > 0 => Base(Top) \in Nat
      BY <2>1, NextBase
    <3>b. Top > 0 => Top \in 1 .. Len(body)
      BY <2>1 DEF Top
    <3>0. Top > 0 => Len(body[Top]) \in Nat /\ Base(Top) \in Nat
      BY <2>1, <3>a, <3>b, ElementOfSeq DEF FilesOK
    <3>1. AtRest => Laid(keep) /\ (Top > 1 => received > Base(Top)) /\ n <= Stored
      BY <2>1, <3>0 DEF AtRest, Stored
    <3>2. CASE \A w \in Writer : ~ Running(w)
      BY <3>1, <3>2 DEF KInv
    <3>3. ASSUME NEW w \in Writer, Running(w)
          PROVE  /\ n <= Stored
                 /\ \/ Laid(keep) /\ (Top > 1 => received > Base(Top))
                    \/ \E g \in Int : Laid(g) /\ received = Base(Top) + MaxBytes + 1
      <4>1. Keeping(w) /\ task[w].pc # "off" /\ task[w] \in Task
        BY <3>3 DEF KInv, Running, TInv, TasksOK, TaskOK, Fit
      <4>2. InHand(w) => n <= Stored /\ received > Base(Top) /\ Top > 0
        BY <2>1, <3>0 DEF InHand, Stored
      <4>3. CASE task[w].pc \in {"measure", "ready"}
        BY <3>1, <4>1, <4>3 DEF Keeping
      <4>4. CASE task[w].pc = "write"
        BY <4>1, <4>2, <4>4 DEF Keeping
      <4>5. CASE task[w].pc \in Rotating
        <5>1. InHand(w) /\ Len(body[Top]) = MaxBytes /\ Laid(Gap(task[w]))
          BY <4>1, <4>5 DEF Keeping
        <5>2. received = Base(Top) + MaxBytes + 1
          BY <4>2, <5>1 DEF InHand, Stored
        <5>3. Gap(task[w]) \in Int
          BY <2>1, <4>1 DEF Gap, Task
        <5> QED
          BY <4>2, <5>1, <5>2, <5>3
      <4> QED
        BY <4>1, <4>3, <4>4, <4>5 DEF Task, Rotating
    <3> QED
      BY <3>2, <3>3
  <2>5. PICK m \in Inode : \E i \in 1 .. Len(body[m]) : Base(m) + i = n
    BY <2>2, <2>4 DEF Filled, Covered
  <2>6. PICK i \in 1 .. Len(body[m]) : Base(m) + i = n
    BY <2>5
  <2>7. /\ m \in Nat /\ m > 0 /\ m <= Top /\ Base(m) \in Nat
        /\ m * MaxBytes = Base(m) + MaxBytes /\ i <= MaxBytes
    <3>1. m \in Nat /\ m > 0 /\ m <= Top
      BY <2>1 DEF Inode, Top
    <3>2. Len(body[m]) \in Nat /\ Len(body[m]) <= MaxBytes
      BY <2>1, <2>3, ElementOfSeq DEF FilesOK, Inode, Capped
    <3>3. Base(m) \in Nat /\ m * MaxBytes = Base(m) + MaxBytes
      BY <3>1, NextBase
    <3>4. i <= MaxBytes
      BY <2>1, <2>6, <3>2
    <3> QED
      BY <3>1, <3>3, <3>4
  <2>8. n <= m * MaxBytes
    BY <2>6, <2>7, <2>1
  <2>9. ASSUME NEW c \in Nat, m + (keep - 1) <= c PROVE received <= c * MaxBytes
    <3>1. keep - 1 \in Nat
      BY <2>1
    <3>2. /\ m * MaxBytes + (keep - 1) * MaxBytes <= c * MaxBytes
          /\ m * MaxBytes \in Nat /\ (keep - 1) * MaxBytes \in Nat /\ c * MaxBytes \in Nat
      BY <2>1, <2>7, <2>9, <3>1, Spans
    <3> QED
      BY <2>1, <2>8, <3>2
  <2>10. ASSUME NEW l \in DOMAIN dir, dir[l] = m
         PROVE  \E w \in Writer : <<w, n>> \in Retained
    BY <2>1, <2>2, <2>6, <2>10, NamedRetained DEF Filled
  <2>11. CASE Laid(keep) /\ (Top > 1 => received > Base(Top))
    <3>1. Top - m < keep
      <4> SUFFICES ASSUME Top - m >= keep PROVE FALSE
        BY <2>1, <2>7
      <4>1. Top > 1 /\ Top - 1 \in Nat /\ m + (keep - 1) <= Top - 1
        BY <2>1, <2>7
      <4>2. received <= Base(Top)
        BY <2>9, <4>1 DEF Base
      <4>3. Base(Top) \in Nat
        BY <2>1, <4>1, NextBase
      <4> QED
        BY <2>1, <2>11, <4>1, <4>2, <4>3
    <3>2. Top - m \in Name /\ Top - m < Top
      BY <2>1, <2>7, <3>1 DEF Name
    <3>3. Top - m \in DOMAIN dir /\ dir[Top - m] = Top - (Top - m)
      BY <2>11, <3>1, <3>2 DEF Laid
    <3>4. dir[Top - m] = m
      BY <2>1, <2>7, <3>3
    <3> QED
      BY <2>10, <3>3, <3>4
  <2>12. CASE \E g \in Int : Laid(g) /\ received = Base(Top) + MaxBytes + 1
    <3>0. PICK g \in Int : Laid(g) /\ received = Base(Top) + MaxBytes + 1
      BY <2>12
    <3>1. Top - m < keep - 1
      <4> SUFFICES ASSUME Top - m >= keep - 1 PROVE FALSE
        BY <2>1, <2>7
      <4>1. m + (keep - 1) <= Top
        BY <2>1, <2>7
      <4>2. received <= Top * MaxBytes
        BY <2>1, <2>9, <4>1
      <4>0. Top > 0
        BY <2>1, <2>7
      <4>3. Top * MaxBytes = Base(Top) + MaxBytes /\ Base(Top) \in Nat
        BY <2>1, <4>0, NextBase
      <4> QED
        BY <2>1, <3>0, <4>2, <4>3
    <3>2. /\ Top - m \in Name /\ Top - m < Top
          /\ Top - m + 1 \in Name /\ Top - m + 1 <= Top
      BY <2>1, <2>7, <3>1 DEF Name
    <3>3. CASE Top - m < g
      <4>1. Top - m \in DOMAIN dir /\ dir[Top - m] = Top - (Top - m)
        BY <3>0, <3>2, <3>3 DEF Laid
      <4>2. dir[Top - m] = m
        BY <2>1, <2>7, <4>1
      <4> QED
        BY <2>10, <4>1, <4>2
    <3>4. CASE ~ (Top - m < g)
      <4>1. Top - m + 1 > g /\ ~ (Top - m + 1 < g)
        BY <2>1, <2>7, <3>4
      <4>2. Top - m + 1 \in DOMAIN dir /\ dir[Top - m + 1] = Top - (Top - m + 1) + 1
        BY <3>0, <3>2, <4>1 DEF Laid
      <4>3. dir[Top - m + 1] = m
        BY <2>1, <2>7, <4>2
      <4> QED
        BY <2>10, <4>2, <4>3
    <3> QED
      BY <3>3, <3>4
  <2> QED
    BY <2>4, <2>11, <2>12
<1> QED
  BY <1>1, <1>2, <1>3, <1>4, InitType, NextType, OrderStep, CapNext, KeptNext, PTL DEF Spec

=============================================================================
