------------------------------- MODULE PlanProofs -------------------------------
(***************************************************************************)
(* Proofs about `artzain plan`, for every set of documents and --only      *)
(* lists: types, the accepted documents are the loadable ones, the         *)
(* selection is the least closed set, the start order respects the         *)
(* dependencies, cycles are reported exactly when there are some, and the  *)
(* ports printed are those of the instances.                               *)
(*                                                                         *)
(* SelectsTheClosure follows from QInv: what has been found lies in the    *)
(* closure, and all that a found app depends on is found or queued.  The   *)
(* order follows from DInv: the calls of visit that have not returned form *)
(* a path of dependencies, the apps on it are those marked open, and what  *)
(* an open app has visited is done, except for the next one on the path.   *)
(* PortsShown needs all of these at once, with LInv: the lines are those   *)
(* of the selected apps among the ones the loop has come to.               *)
(***************************************************************************)
EXTENDS Plan, SequenceTheorems, WellFoundedInduction, TLAPS

Node == App \union Check
Closure == SelectApps(Read(doc), only)

TInv ==
    /\ doc \in Docs /\ only \in Onlys
    /\ pc \in {"validate", "invalid", "select", "unknown", "queue", "order", "cycle",
              "show", "done"}
    /\ queue \subseteq Apps /\ selected \subseteq Apps /\ roots \subseteq Apps
    /\ mark \in [Node -> {"new", "open", "done"}]
    /\ stack \in Seq(Frame) /\ ordered \in Seq(Apps)
    /\ shown \in 0 .. Len(ordered)
    /\ \A i \in 1 .. Len(stack) : /\ stack[i].app \in Apps
                                  /\ stack[i].todo \subseteq Deps(stack[i].app)

-----------------------------------------------------------------------------
(***************************************************************************)
(* Types.                                                                  *)
(***************************************************************************)

LEMMA EntryType ==
    ASSUME NEW d \in Docs, NEW a \in AppNames(d)
    PROVE  EntryOf(d, a) \in AppEntry /\ EntryOf(d, a).name = a /\ a \in App
<1>1. d.apps \in Seq(AppEntry)
  BY PlanAssumption DEF Doc
<1>2. PICK i \in DOMAIN d.apps : d.apps[i].name = a
  BY DEF AppNames
<1> DEFINE j == CHOOSE k \in DOMAIN d.apps : d.apps[k].name = a
<1>3. j \in DOMAIN d.apps /\ d.apps[j].name = a
  BY <1>2
<1>4. EntryOf(d, a) = d.apps[j]
  BY DEF EntryOf
<1> HIDE DEF j
<1>5. d.apps[j] \in AppEntry
  BY <1>1, <1>3, LenProperties, ElementOfSeq
<1> QED
  BY <1>3, <1>4, <1>5 DEF AppEntry

LEMMA DepsType ==
    ASSUME TInv
    PROVE  Apps \subseteq App /\ \A a \in Apps : Deps(a) \subseteq Node
BY EntryType DEF TInv, Apps, Deps, AppEntry, Node

\* The calls below the last one.
LEMMA StackTop ==
    ASSUME TInv, stack # <<>>
    PROVE  /\ Len(stack) \in Nat \ {0} /\ Top = stack[Len(stack)]
           /\ Top \in Frame /\ Top.app \in Apps /\ Top.todo \subseteq Deps(Top.app)
           /\ Below \in Seq(Frame) /\ Len(Below) = Len(stack) - 1
           /\ \A i \in 1 .. Len(Below) : Below[i] = stack[i]
<1>1. stack \in Seq(Frame) /\ Len(stack) \in Nat \ {0}
  BY EmptySeq DEF TInv
<1>2. \A i \in 1 .. Len(stack) : stack[i] \in Frame
  BY <1>1, ElementOfSeq
<1>3. Len(stack) \in 1 .. Len(stack) /\ Top = stack[Len(stack)]
  BY <1>1 DEF Top
<1>4. Top \in Frame /\ Top.app \in Apps /\ Top.todo \subseteq Deps(Top.app)
  BY <1>2, <1>3 DEF TInv
<1> DEFINE n == Len(stack) - 1
<1>5. n \in Int /\ 1 \in Int /\ \A i \in 1 .. n : stack[i] \in Frame
  BY <1>1, <1>2
<1>6. /\ Below \in Seq(Frame)
      /\ Len(Below) = IF 1 <= n THEN n - 1 + 1 ELSE 0
      /\ \A i \in 1 .. n - 1 + 1 : Below[i] = stack[1 + i - 1]
  BY <1>5, SubSeqProperties DEF Below
<1>7. n \in Nat /\ n - 1 + 1 = n /\ \A i \in 1 .. n : 1 + i - 1 = i
  BY <1>1
<1> HIDE DEF n
<1>8. Len(Below) = n /\ \A i \in 1 .. n : Below[i] = stack[i]
  BY <1>6, <1>7
<1> QED
  BY <1>1, <1>3, <1>4, <1>6, <1>8 DEF n

\* The frame on top has looked at one more dependency.
LEMMA DepStack ==
    ASSUME TInv, stack # <<>>, NEW d \in Top.todo
    PROVE  LET s == Append(Below, [Top EXCEPT !.todo = @ \ {d}])
           IN  /\ s \in Seq(Frame) /\ Len(s) = Len(stack) /\ d \in Node
               /\ \A i \in 1 .. Len(stack) :
                     /\ s[i].app = stack[i].app
                     /\ s[i].todo = IF i = Len(stack) THEN stack[i].todo \ {d}
                                                      ELSE stack[i].todo
<1> DEFINE f == [Top EXCEPT !.todo = @ \ {d}]
           s == Append(Below, f)
<1>1. /\ f \in Frame /\ f.app = Top.app /\ f.todo = Top.todo \ {d} /\ d \in Node
  BY StackTop DEF Frame, Node
<1>2. /\ s \in Seq(Frame) /\ Len(s) = Len(Below) + 1
      /\ \A i \in 1 .. Len(Below) : s[i] = Below[i]
      /\ s[Len(Below) + 1] = f
  <2> HIDE DEF f
  <2> QED
    BY <1>1, StackTop, AppendProperties
<1> HIDE DEF f, s
<1>3. Len(s) = Len(stack) /\ s[Len(stack)] = f
  BY <1>2, StackTop
<1>4. \A i \in 1 .. Len(stack) : i # Len(stack) => s[i] = stack[i]
  BY <1>2, StackTop
<1>5. \A i \in 1 .. Len(stack) :
         /\ s[i].app = stack[i].app
         /\ s[i].todo = IF i = Len(stack) THEN stack[i].todo \ {d} ELSE stack[i].todo
  BY <1>1, <1>3, <1>4, StackTop
<1> QED
  BY <1>1, <1>2, <1>3, <1>5 DEF s, f

\* A visit keeps the types of what it changes.
LEMMA VisitType ==
    ASSUME TInv, NEW n \in Node, NEW s \in Seq(Frame), Visit(n, s), pc = "order",
           UNCHANGED <<doc, only, queue, selected, ordered, shown>>, roots' \subseteq Apps,
           \A i \in 1 .. Len(s) : s[i].app \in Apps /\ s[i].todo \subseteq Deps(s[i].app)
    PROVE  TInv'
<1>1. Apps' = Apps /\ \A a : Deps(a)' = Deps(a)
  BY DEF Apps, Deps
<1>2. CASE stack' = s /\ UNCHANGED mark /\ pc' \in {"order", "cycle"}
  BY <1>1, <1>2 DEF TInv
<1>3. CASE /\ ~ Done(n) /\ UNCHANGED pc
           /\ mark' = [mark EXCEPT ![n] = "open"]
           /\ stack' = Append(s, [app |-> n, todo |-> Deps(n)])
  <2> DEFINE f == [app |-> n, todo |-> Deps(n)]
  <2>1. n \in Apps /\ f \in Frame /\ f.app = n /\ f.todo = Deps(n)
    BY <1>3, DepsType DEF Done, Frame, Node
  <2> HIDE DEF f
  <2>2. /\ stack' \in Seq(Frame) /\ Len(stack') = Len(s) + 1
        /\ \A i \in 1 .. Len(s) : stack'[i] = s[i]
        /\ stack'[Len(s) + 1] = f /\ Len(s) \in Nat
    BY <1>3, <2>1, AppendProperties DEF f
  <2>3. \A i \in 1 .. Len(stack') : i \in 1 .. Len(s) \/ i = Len(s) + 1
    BY <2>2
  <2>4. \A i \in 1 .. Len(stack') : stack'[i].app \in Apps /\ stack'[i].todo \subseteq Deps(stack'[i].app)
    BY <2>1, <2>2, <2>3
  <2>5. mark' \in [Node -> {"new", "open", "done"}]
    BY <1>3 DEF TInv
  <2> QED
    BY <1>1, <1>3, <2>2, <2>4, <2>5 DEF TInv
<1> QED
  BY <1>2, <1>3 DEF Visit

LEMMA InitType == Init => TInv
<1> SUFFICES ASSUME Init PROVE TInv
  OBVIOUS
<1>1. /\ stack \in Seq(Frame) /\ ordered \in Seq(Apps) /\ Len(stack) = 0
      /\ Len(ordered) = 0
  BY EmptySeq DEF Init
<1>2. mark \in [Node -> {"new", "open", "done"}]
  BY DEF Init, Node
<1> QED
  BY <1>1, <1>2 DEF Init, TInv

LEMMA NextType == TInv /\ [Next]_vars => TInv'
<1> SUFFICES ASSUME TInv, [Next]_vars PROVE TInv'
  OBVIOUS
<1>1. UNCHANGED doc => Apps' = Apps /\ \A a : Deps(a)' = Deps(a)
  BY DEF Apps, Deps
<1>2. CASE UNCHANGED vars
  BY <1>1, <1>2 DEF TInv, vars
<1>3. CASE Validate \/ SelectEnd \/ Sorted \/ Show \/ ShowEnd
  <2>1. UNCHANGED <<doc, only, queue, selected, roots, mark, stack, ordered>>
    BY <1>3 DEF Validate, SelectEnd, Sorted, Show, ShowEnd, search
  <2>2. pc' \in {"select", "invalid", "order", "show", "done"}
    BY <1>3 DEF Validate, SelectEnd, Sorted, Show, ShowEnd
  <2>3. shown' = shown \/ (shown < Len(ordered) /\ shown' = shown + 1)
    BY <1>3 DEF Validate, SelectEnd, Sorted, Show, ShowEnd, printed
  <2>4. Len(ordered) \in Nat
    BY DEF TInv
  <2>5. shown' \in 0 .. Len(ordered')
    BY <2>1, <2>3, <2>4 DEF TInv
  <2> QED
    BY <1>1, <2>1, <2>2, <2>5 DEF TInv
<1>4. CASE Select
  <2>1. /\ UNCHANGED <<doc, only, roots, mark, stack, ordered, shown>>
        /\ pc' \in {"order", "queue", "unknown"}
        /\ queue' \subseteq Apps /\ selected' \subseteq Apps
    <3>1. CASE only = {}
      BY <1>4, <3>1 DEF Select, search, printed, TInv
    <3>2. CASE only # {} /\ only \subseteq Apps
      BY <1>4, <3>2 DEF Select, search, printed, TInv
    <3>3. CASE ~ (only = {}) /\ ~ (only # {} /\ only \subseteq Apps)
      BY <1>4, <3>3 DEF Select, search, printed, TInv
    <3> QED
      BY <3>1, <3>2, <3>3
  <2> QED
    BY <1>1, <2>1 DEF TInv
<1>5. CASE Pop
  <2>1. /\ UNCHANGED <<doc, only, pc, roots, mark, stack, ordered, shown>>
        /\ queue' \subseteq Apps /\ selected' \subseteq Apps
    BY <1>5 DEF Pop, Queued, search, printed, TInv
  <2> QED
    BY <1>1, <2>1 DEF TInv
<1>6. CASE Root
  <2>1. PICK a \in roots : roots' = roots \ {a} /\ Visit(a, stack)
    BY <1>6 DEF Root
  <2>2. a \in Node /\ pc = "order" /\ UNCHANGED <<doc, only, queue, selected, ordered, shown>>
    BY <1>6, DepsType DEF Root, TInv, Node, printed
  <2> QED
    BY <2>1, <2>2, VisitType DEF TInv
<1>7. CASE Dep
  <2>1. /\ stack # <<>> /\ pc = "order"
        /\ UNCHANGED <<doc, only, queue, selected, roots, ordered, shown>>
    BY <1>7 DEF Dep, printed
  <2>2. PICK d \in Top.todo : Visit(d, Append(Below, [Top EXCEPT !.todo = @ \ {d}]))
    BY <1>7 DEF Dep
  <2> DEFINE s == Append(Below, [Top EXCEPT !.todo = @ \ {d}])
  <2>3. /\ s \in Seq(Frame) /\ Len(s) = Len(stack) /\ d \in Node
        /\ \A i \in 1 .. Len(stack) :
              /\ s[i].app = stack[i].app
              /\ s[i].todo = IF i = Len(stack) THEN stack[i].todo \ {d}
                                               ELSE stack[i].todo
    BY <2>1, DepStack
  <2>4. Visit(d, s)
    BY <2>2
  <2> HIDE DEF s
  <2>5. \A i \in 1 .. Len(s) : s[i].app \in Apps /\ s[i].todo \subseteq Deps(s[i].app)
    BY <2>3 DEF TInv
  <2> QED
    BY <2>1, <2>3, <2>4, <2>5, VisitType DEF TInv
<1>8. CASE Return
  <2>1. /\ stack # <<>> /\ UNCHANGED <<doc, only, pc, queue, selected, roots, shown>>
        /\ mark' = [mark EXCEPT ![Top.app] = "done"]
        /\ ordered' = Append(ordered, Top.app) /\ stack' = Below
    BY <1>8 DEF Return, printed
  <2>2. mark' \in [Node -> {"new", "open", "done"}] /\ ordered' \in Seq(Apps)
    BY <2>1, StackTop, AppendProperties DEF TInv
  <2>3. shown' \in 0 .. Len(ordered')
    <3>1. ordered \in Seq(Apps) /\ Len(ordered) \in Nat /\ shown \in 0 .. Len(ordered)
      BY DEF TInv
    <3>2. Len(ordered') = Len(ordered) + 1
      BY <2>1, <3>1, StackTop, AppendProperties
    <3> QED
      BY <2>1, <3>1, <3>2
  <2>4. /\ stack' \in Seq(Frame)
        /\ \A i \in 1 .. Len(stack') : i \in 1 .. Len(stack) /\ stack'[i] = stack[i]
    BY <2>1, StackTop
  <2>5. \A i \in 1 .. Len(stack') : /\ stack'[i].app \in Apps
                                   /\ stack'[i].todo \subseteq Deps(stack'[i].app)
    BY <2>4 DEF TInv
  <2>6. pc' \in {"validate", "invalid", "select", "unknown", "queue", "order", "cycle",
                "show", "done"}
    BY <2>1 DEF TInv
  <2> QED
    BY <1>1, <2>1, <2>2, <2>3, <2>4, <2>5, <2>6 DEF TInv
<1> QED
  BY <1>2, <1>3, <1>4, <1>5, <1>6, <1>7, <1>8 DEF Next

\* The command keeps its types, for every document.
THEOREM PlanTypes == Spec => []TypeOK
<1>1. TInv => TypeOK
  BY PlanAssumption DEF TInv, TypeOK, Node
<1> QED
  BY <1>1, InitType, NextType, PTL DEF Spec

-----------------------------------------------------------------------------
(***************************************************************************)
(* The selection.                                                          *)
(***************************************************************************)

QInv ==
    /\ pc = "queue" => /\ only # {} /\ only \subseteq Apps
                       /\ only \subseteq selected \union queue
                       /\ selected \union queue \subseteq Closure
                       /\ \A a \in selected : Deps(a) \intersect Apps \subseteq selected \union queue
    /\ pc \in {"validate", "select"} => selected = {} /\ queue = {}
    /\ pc \in {"order", "cycle", "show", "done"} => selected = Closure

\* The closure: it is the least set of apps that has the named ones and is
\* closed under dependencies.
LEMMA ClosureIsLeast ==
    ASSUME only # {}, only \subseteq Apps
    PROVE  /\ Closure \subseteq Apps /\ only \subseteq Closure
           /\ \A a \in Closure : Deps(a) \intersect Apps \subseteq Closure
           /\ \A S \in SUBSET Apps :
                 only \subseteq S /\ (\A a \in S : Deps(a) \intersect Apps \subseteq S)
                    => Closure \subseteq S
<1> DEFINE m == Read(doc)
<1>1. m.apps = Apps /\ \A a \in Apps : m.cfg[a].deps = Deps(a)
  BY DEF Read, Apps, Deps
<1>2. \A S \in SUBSET Apps : Closed(m, S) <=> \A a \in S : Deps(a) \intersect Apps \subseteq S
  <2> HIDE DEF m
  <2> QED
    BY <1>1 DEF Closed
<1>3. Closure = {a \in Apps : \A S \in SUBSET Apps : only \subseteq S /\ Closed(m, S) => a \in S}
  <2>1. Closure = SelectApps(m, only)
    BY DEF Closure
  <2> HIDE DEF m
  <2> QED
    BY <1>1, <2>1 DEF SelectApps
<1> HIDE DEF m
<1> QED
  BY <1>2, <1>3

LEMMA SelectStep == TInv /\ QInv /\ [Next]_vars => QInv'
<1> SUFFICES ASSUME TInv, QInv, [Next]_vars PROVE QInv'
  OBVIOUS
<1>1. UNCHANGED doc /\ UNCHANGED only
  BY DEF Next, Validate, Select, Pop, SelectEnd, Root, Dep, Return, Sorted, Show, ShowEnd, vars
<1>2. Apps' = Apps /\ Closure' = Closure /\ \A a : Deps(a)' = Deps(a)
  BY <1>1 DEF Apps, Deps, Closure
<1>3. CASE UNCHANGED vars
  BY <1>2, <1>3 DEF vars, QInv
<1>4. CASE Validate
  BY <1>2, <1>4 DEF Validate, QInv
<1>5. CASE Select
  <2>1. CASE only = {}
    <3>1. Closure = Apps
      BY <2>1 DEF Closure, SelectApps, Read, Apps
    <3> QED
      BY <1>2, <1>5, <2>1, <3>1 DEF Select, QInv
  <2>2. CASE only # {} /\ only \subseteq Apps
    <3>1. pc' = "queue" /\ queue' = only /\ selected' = {}
      BY <1>5, <2>2 DEF Select, QInv
    <3> QED
      BY <1>1, <1>2, <2>2, <3>1, ClosureIsLeast DEF QInv
  <2>3. CASE ~ (only = {}) /\ ~ (only # {} /\ only \subseteq Apps)
    BY <1>2, <1>5, <2>3 DEF Select, QInv
  <2> QED
    BY <2>1, <2>2, <2>3
<1>6. CASE Pop
  <2>1. PICK n \in queue : /\ queue' = (queue \ {n}) \union Queued(n)
                           /\ selected' = selected \union {n}
    BY <1>6 DEF Pop
  <2>2. pc = "queue" /\ pc' = "queue"
    BY <1>6 DEF Pop
  <2>3. only # {} /\ only \subseteq Apps /\ n \in Closure
    BY <2>2 DEF QInv
  <2>4. selected' \union queue' \subseteq Closure
    BY <2>1, <2>2, <2>3, ClosureIsLeast DEF QInv, Queued
  <2>5. \A a \in selected' : Deps(a) \intersect Apps \subseteq selected' \union queue'
    BY <2>1, <2>2 DEF QInv, Queued
  <2>6. only \subseteq selected' \union queue'
    BY <2>1, <2>2 DEF QInv
  <2> QED
    BY <1>1, <1>2, <2>2, <2>3, <2>4, <2>5, <2>6 DEF QInv
<1>7. CASE SelectEnd
  <2>1. pc = "queue" /\ queue = {} /\ pc' = "order" /\ selected' = selected
    BY <1>7 DEF SelectEnd
  <2>2. selected \subseteq Apps
    BY DEF TInv
  <2>3. selected = Closure
    BY <2>1, <2>2, ClosureIsLeast DEF QInv
  <2> QED
    BY <1>2, <2>1, <2>3 DEF QInv
<1>8. CASE Root \/ Dep \/ Return \/ Sorted \/ Show \/ ShowEnd
  <2>1. /\ pc \in {"order", "show"} /\ pc' \in {"order", "cycle", "show", "done"}
        /\ UNCHANGED <<queue, selected>>
    BY <1>8 DEF Root, Dep, Return, Sorted, Show, ShowEnd, Visit
  <2> QED
    BY <1>2, <2>1 DEF QInv
<1> QED
  BY <1>3, <1>4, <1>5, <1>6, <1>7, <1>8 DEF Next

\* --only selects the named apps and all they depend on, and nothing else,
\* for every document, cyclic ones included.
THEOREM ClosureSelected == Spec => []SelectsTheClosure
<1>1. Init => QInv
  BY DEF Init, QInv
<1>2. QInv => SelectsTheClosure
  BY DEF QInv, SelectsTheClosure, Closure
<1> QED
  BY <1>1, <1>2, InitType, NextType, SelectStep, PTL DEF Spec

-----------------------------------------------------------------------------
(***************************************************************************)
(* The order.                                                              *)
(***************************************************************************)

OpenCalls ==
    /\ \A i \in 1 .. Len(stack) : mark[stack[i].app] = "open"
    /\ \A i, j \in 1 .. Len(stack) : stack[i].app = stack[j].app => i = j
    /\ \A a \in Apps : mark[a] = "open" => \E i \in 1 .. Len(stack) : stack[i].app = a
Path == \A i \in 1 .. Len(stack) :
           i + 1 \in 1 .. Len(stack) => stack[i + 1].app \in Deps(stack[i].app)
Looked == pc # "cycle" => \A i \in 1 .. Len(stack) :
             \A d \in (Deps(stack[i].app) \intersect Apps) \ stack[i].todo :
                \/ mark[d] = "done"
                \/ i + 1 \in 1 .. Len(stack) /\ d = stack[i + 1].app
DoneOrdered == \A a \in Apps : mark[a] = "done" <=> \E i \in 1 .. Len(ordered) : ordered[i] = a
Visited == pc # "cycle" => \A a \in Apps \ roots :
              mark[a] = "done" \/ (1 \in 1 .. Len(stack) /\ a = stack[1].app)
KnotFound == pc = "cycle" => \E S \in SUBSET Apps : Knot(S)
AllDone == pc \in {"show", "done"} => \A a \in Apps : mark[a] = "done"
DInv == OpenCalls /\ Path /\ Looked /\ DoneOrdered /\ Visited /\ KnotFound /\ AllDone /\ StartOrder

\* An app met while it is open closes a cycle along the stack.
LEMMA OpenIsKnot ==
    ASSUME TInv, OpenCalls, Path, NEW n \in Apps, mark[n] = "open",
           n \in Deps(stack[Len(stack)].app)
    PROVE  \E S \in SUBSET Apps : Knot(S)
<1>1. PICK i \in 1 .. Len(stack) : stack[i].app = n
  BY DEF OpenCalls
<1>2. Len(stack) \in Nat
  BY DEF TInv
<1> DEFINE S == {stack[j].app : j \in i .. Len(stack)}
<1>3. S \subseteq Apps /\ n \in S
  BY <1>1, <1>2 DEF TInv
<1>4. ASSUME NEW j \in i .. Len(stack) PROVE Deps(stack[j].app) \intersect S # {}
  <2>1. CASE j = Len(stack)
    BY <1>3, <2>1
  <2>2. CASE j # Len(stack)
    <3>1. j \in 1 .. Len(stack) /\ j + 1 \in 1 .. Len(stack) /\ j + 1 \in i .. Len(stack)
      BY <1>1, <1>2, <1>4, <2>2
    <3> QED
      BY <3>1 DEF Path
  <2> QED
    BY <2>1, <2>2
<1>5. \A a \in S : Deps(a) \intersect S # {}
  BY <1>4
<1> HIDE DEF S
<1> QED
  BY <1>3, <1>5 DEF Knot

\* A call of visit, from the loop or from the frame on top.
LEMMA VisitOrder ==
    ASSUME TInv, DInv, TInv', pc = "order", NEW n \in Node, NEW s \in Seq(Frame), Visit(n, s),
           UNCHANGED <<doc, ordered>>, Len(s) = Len(stack),
           \A i \in 1 .. Len(stack) :
              /\ s[i].app = stack[i].app
              /\ s[i].todo = IF i = Len(stack) THEN stack[i].todo \ {n} ELSE stack[i].todo,
           IF stack = <<>> THEN n \in Apps /\ roots' = roots \ {n}
                           ELSE n \in Deps(stack[Len(stack)].app) /\ roots' = roots
    PROVE  DInv'
<1>1. Apps' = Apps /\ \A a : Deps(a)' = Deps(a)
  BY DEF Apps, Deps
<1>2. Len(stack) \in Nat /\ (stack # <<>> => Len(stack) \in 1 .. Len(stack))
  BY EmptySeq DEF TInv
<1>3. n \in Apps \/ (n \notin Apps /\ Done(n))
  BY DEF Done
<1>4. \A S : Knot(S)' = Knot(S)
  BY <1>1 DEF Knot
<1>a. ASSUME stack' = s, UNCHANGED mark PROVE OpenCalls' /\ Path'
  <2>1. /\ Len(stack') = Len(stack)
        /\ \A i \in 1 .. Len(stack) : stack'[i].app = stack[i].app
    BY <1>a
  <2>2. OpenCalls'
    <3>1. /\ \A i \in 1 .. Len(stack) : mark[stack[i].app] = "open"
          /\ \A i, j \in 1 .. Len(stack) : stack[i].app = stack[j].app => i = j
          /\ \A a \in Apps : mark[a] = "open" => \E i \in 1 .. Len(stack) : stack[i].app = a
      BY DEF DInv, OpenCalls
    <3>2. /\ \A i \in 1 .. Len(stack) : mark'[stack'[i].app] = "open"
          /\ \A i, j \in 1 .. Len(stack) : stack'[i].app = stack'[j].app => i = j
          /\ \A a \in Apps : mark'[a] = "open" => \E i \in 1 .. Len(stack) : stack'[i].app = a
      BY <1>a, <2>1, <3>1
    <3> QED
      BY <1>1, <2>1, <3>2 DEF OpenCalls
  <2>3. Path'
    <3>1. \A i \in 1 .. Len(stack) : i + 1 \in 1 .. Len(stack) =>
             stack'[i + 1].app \in Deps(stack'[i].app)
      BY <2>1 DEF DInv, Path
    <3> QED
      BY <1>1, <2>1, <3>1 DEF Path
  <2> QED
    BY <2>2, <2>3
<1>5. CASE Done(n) /\ stack' = s /\ UNCHANGED <<pc, mark>>
  <2>0. OpenCalls' /\ Path'
    BY <1>5, <1>a
  <2>a. StartOrder'
    BY <1>1 DEF DInv, StartOrder
  <2>b. pc' = "order"
    BY <1>5
  <2>c. KnotFound' /\ AllDone'
    BY <2>b DEF KnotFound, AllDone
  <2>1. DoneOrdered' /\ KnotFound' /\ AllDone' /\ StartOrder'
    BY <1>1, <1>5, <2>a, <2>c DEF DInv, DoneOrdered
  <2>2. Looked'
    <3>1. ASSUME NEW i \in 1 .. Len(stack), NEW d \in (Deps(stack[i].app) \intersect Apps) \ s[i].todo
          PROVE  mark[d] = "done" \/ (i + 1 \in 1 .. Len(stack) /\ d = s[i + 1].app)
      <4>1. CASE d \in stack[i].todo
        BY <1>5, <3>1, <4>1 DEF Done
      <4>2. CASE d \notin stack[i].todo
        BY <3>1, <4>2 DEF DInv, Looked
      <4> QED
        BY <4>1, <4>2
    <3> QED
      BY <1>1, <1>5, <3>1 DEF Looked
  <2>3. Visited'
    <3>1. ASSUME NEW a \in Apps, a \notin roots'
          PROVE  mark[a] = "done" \/ (1 \in 1 .. Len(stack) /\ a = s[1].app)
      <4>1. CASE a \in roots
        BY <1>5, <3>1, <4>1 DEF Done
      <4>2. CASE a \notin roots
        BY <3>1, <4>2 DEF DInv, Visited
      <4> QED
        BY <4>1, <4>2
    <3> QED
      BY <1>1, <1>5, <3>1 DEF Visited
  <2> QED
    BY <2>0, <2>1, <2>2, <2>3 DEF DInv
<1>6. CASE OnPath(n) /\ ~ Done(n) /\ pc' = "cycle" /\ stack' = s /\ UNCHANGED mark
  <2>0. OpenCalls' /\ Path'
    BY <1>6, <1>a
  <2>1. DoneOrdered' /\ AllDone' /\ StartOrder' /\ Looked' /\ Visited'
    BY <1>1, <1>6 DEF DInv, DoneOrdered, AllDone, StartOrder, Looked, Visited
  <2>2. n \in Apps /\ mark[n] = "open"
    BY <1>3, <1>6 DEF OnPath
  <2>3. stack # <<>>
    BY <2>2, EmptySeq DEF DInv, OpenCalls
  <2>4. KnotFound'
    BY <1>1, <1>4, <2>2, <2>3, OpenIsKnot DEF DInv, KnotFound
  <2> QED
    BY <2>0, <2>1, <2>4 DEF DInv
<1>7. CASE /\ ~ OnPath(n) /\ ~ Done(n) /\ UNCHANGED pc
           /\ mark' = [mark EXCEPT ![n] = "open"]
           /\ stack' = Append(s, [app |-> n, todo |-> Deps(n)])
  <2> DEFINE f == [app |-> n, todo |-> Deps(n)]
             m == Len(stack) + 1
  <2>1. n \in Apps /\ f \in Frame /\ f.app = n /\ f.todo = Deps(n) /\ mark[n] \notin {"open", "done"}
    BY <1>7, DepsType DEF Done, OnPath, Frame, Node
  <2> HIDE DEF f
  <2>2. /\ Len(stack') = m /\ stack'[m] = f
        /\ \A i \in 1 .. Len(stack) : stack'[i] = s[i]
    BY <1>7, <2>1, AppendProperties DEF f
  <2>3. m \in 1 .. m /\ \A i : i \in 1 .. m <=> i \in 1 .. Len(stack) \/ i = m
    BY <1>2
  <2>4. m \notin 1 .. Len(stack) /\ m \in Nat /\ m + 1 \notin 1 .. m
    BY <1>2
  <2>5. \A i \in 1 .. Len(stack) : stack'[i].app = stack[i].app
    BY <2>2
  <2>6. stack'[m].app = n /\ stack'[m].todo = Deps(n)
    BY <2>1, <2>2
  <2>7. \A a \in Node : mark'[a] = IF a = n THEN "open" ELSE mark[a]
    BY <1>7 DEF TInv
  <2>8. Apps \subseteq Node
    BY DepsType DEF Node
  <2>9. \A i \in 1 .. Len(stack) : stack[i].app \in Apps /\ stack[i].app # n
    BY <2>1 DEF TInv, DInv, OpenCalls
  <2>a. \A i \in 1 .. Len(stack) : i + 1 \in 1 .. m /\ (i + 1 \in 1 .. Len(stack) \/ i = Len(stack))
    BY <1>2
  <2> HIDE DEF m
  <2>10. OpenCalls'
    <3>1. \A i \in 1 .. m : mark'[stack'[i].app] = "open"
      BY <2>1, <2>3, <2>5, <2>6, <2>7, <2>8, <2>9 DEF DInv, OpenCalls
    <3>2. \A i, j \in 1 .. m : stack'[i].app = stack'[j].app => i = j
      BY <2>3, <2>4, <2>5, <2>6, <2>9 DEF DInv, OpenCalls
    <3>3. \A a \in Apps : mark'[a] = "open" => \E i \in 1 .. m : stack'[i].app = a
      BY <2>3, <2>5, <2>6, <2>7, <2>8 DEF DInv, OpenCalls
    <3> QED
      BY <1>1, <2>2, <3>1, <3>2, <3>3 DEF OpenCalls
  <2>11. Path'
    <3>1. ASSUME NEW i \in 1 .. m, i + 1 \in 1 .. m
          PROVE  stack'[i + 1].app \in Deps(stack'[i].app)
      <4>1. i \in 1 .. Len(stack)
        BY <2>3, <2>4, <3>1
      <4>2. CASE i + 1 \in 1 .. Len(stack)
        BY <2>5, <4>1, <4>2 DEF DInv, Path
      <4>3. CASE i + 1 \notin 1 .. Len(stack)
        <5>1. i = Len(stack) /\ i + 1 = m /\ stack # <<>>
          BY <2>3, <2>a, <3>1, <4>1, <4>3, EmptySeq
        <5> QED
          BY <2>5, <2>6, <4>1, <5>1
      <4> QED
        BY <4>2, <4>3
    <3> QED
      BY <1>1, <2>2, <3>1 DEF Path
  <2>12. Looked'
    <3>1. ASSUME NEW i \in 1 .. m,
                 NEW d \in (Deps(stack'[i].app) \intersect Apps) \ stack'[i].todo
          PROVE  mark'[d] = "done" \/ (i + 1 \in 1 .. m /\ d = stack'[i + 1].app)
      <4>1. i \in 1 .. Len(stack) /\ stack'[i].app = stack[i].app /\ stack'[i].todo = s[i].todo
        BY <2>2, <2>3, <2>5, <2>6, <3>1
      <4>2. CASE d \in stack[i].todo
        <5>1. i = Len(stack) /\ d = n
          BY <3>1, <4>1, <4>2
        <5>2. i + 1 = m /\ i + 1 \in 1 .. m
          BY <2>a, <4>1, <5>1 DEF m
        <5> QED
          BY <2>6, <5>1, <5>2
      <4>3. CASE d \notin stack[i].todo
        <5>1. \/ mark[d] = "done"
              \/ i + 1 \in 1 .. Len(stack) /\ d = stack[i + 1].app
          BY <3>1, <4>1, <4>3 DEF DInv, Looked
        <5>2. mark[d] = "done" => mark'[d] = "done"
          BY <2>1, <2>7, <2>8, <3>1
        <5> QED
          BY <2>5, <2>a, <4>1, <5>1, <5>2
      <4> QED
        BY <4>2, <4>3
    <3> QED
      BY <1>1, <2>2, <3>1 DEF Looked
  <2>13. DoneOrdered'
    BY <1>1, <2>1, <2>7, <2>8 DEF DInv, DoneOrdered
  <2>14. Visited'
    <3>1. ASSUME NEW a \in Apps, a \notin roots'
          PROVE  mark'[a] = "done" \/ (1 \in 1 .. m /\ a = stack'[1].app)
      <4>1. CASE stack = <<>> /\ a = n
        <5>1. m = 1
          BY <4>1, EmptySeq DEF m
        <5> QED
          BY <2>3, <2>6, <4>1, <5>1
      <4>2. CASE ~ (stack = <<>> /\ a = n)
        <5>1. a \in Apps \ roots
          BY <3>1, <4>2
        <5>2. mark[a] = "done" \/ (1 \in 1 .. Len(stack) /\ a = stack[1].app)
          BY <5>1 DEF DInv, Visited
        <5> QED
          BY <2>1, <2>3, <2>5, <2>7, <2>8, <5>2
      <4> QED
        BY <4>1, <4>2
    <3> QED
      BY <1>1, <2>2, <3>1 DEF Visited
  <2>15. StartOrder'
    BY <1>1 DEF DInv, StartOrder
  <2>16. pc' = "order"
    BY <1>7
  <2>17. KnotFound' /\ AllDone'
    BY <2>16 DEF KnotFound, AllDone
  <2> QED
    BY <2>10, <2>11, <2>12, <2>13, <2>14, <2>15, <2>17 DEF DInv
<1> QED
  BY <1>5, <1>6, <1>7 DEF Visit

\* The call on top returns: all it depends on is in the order.
LEMMA ReturnOrder == ASSUME TInv, DInv, Return PROVE DInv'
<1> DEFINE a == Top.app
           n == Len(stack) - 1
           k == Len(ordered) + 1
<1>1. /\ stack # <<>> /\ UNCHANGED <<doc, pc, roots>> /\ pc = "order" /\ Top.todo = {}
      /\ mark' = [mark EXCEPT ![a] = "done"] /\ ordered' = Append(ordered, a) /\ stack' = Below
  BY DEF Return, Finished
<1>2. /\ Len(stack) \in Nat \ {0} /\ a \in Apps /\ Top = stack[Len(stack)]
      /\ Len(stack') = n /\ \A i \in 1 .. n : stack'[i] = stack[i]
  BY <1>1, StackTop
<1>3. /\ ordered' \in Seq(Apps) /\ Len(ordered') = k /\ ordered'[k] = a
      /\ \A i \in 1 .. Len(ordered) : ordered'[i] = ordered[i]
  BY <1>1, <1>2, AppendProperties DEF TInv
<1>4. /\ Len(ordered) \in Nat /\ DOMAIN ordered = 1 .. Len(ordered) /\ DOMAIN ordered' = 1 .. k
  BY <1>3, LenProperties DEF TInv
<1>5. Apps' = Apps /\ \A b : Deps(b)' = Deps(b)
  BY <1>1 DEF Apps, Deps
<1>6. \A b \in Apps : mark'[b] = IF b = a THEN "done" ELSE mark[b]
  BY <1>1, DepsType DEF TInv, Node
<1>7. /\ \A i \in 1 .. n : i \in 1 .. Len(stack) /\ i # Len(stack) /\ i + 1 \in 1 .. Len(stack)
      /\ \A i \in 1 .. Len(stack) : i \in 1 .. n \/ i = Len(stack)
      /\ Len(stack) \in 1 .. Len(stack) /\ Len(stack) + 1 \notin 1 .. Len(stack)
      /\ 1 \in 1 .. n \/ 1 = Len(stack)
  BY <1>2
<1>8. /\ \A i \in 1 .. k : i \in 1 .. Len(ordered) \/ i = k
      /\ \A i \in 1 .. Len(ordered) : i \in 1 .. k /\ i # k /\ i \in 1 .. k - 1
      /\ k \in 1 .. k /\ 1 .. k - 1 = 1 .. Len(ordered)
      /\ \A i \in 1 .. Len(ordered) : \A j \in 1 .. i - 1 : j \in 1 .. Len(ordered)
  BY <1>4
<1> HIDE DEF a, n, k
<1>9. a = stack[Len(stack)].app /\ mark[a] = "open"
  BY <1>2, <1>7 DEF a, DInv, OpenCalls
<1>10. OpenCalls'
  <2>1. \A i \in 1 .. n : stack[i].app \in Apps /\ stack[i].app # a
    <3>1. \A i \in 1 .. n : stack[i].app \in Apps
      BY <1>7 DEF TInv
    <3>2. \A i \in 1 .. n : stack[i].app # stack[Len(stack)].app
      BY <1>7 DEF DInv, OpenCalls
    <3> QED
      BY <1>9, <3>1, <3>2
  <2>2. ASSUME NEW i \in 1 .. n PROVE mark'[stack'[i].app] = "open"
    <3>1. stack'[i] = stack[i] /\ i \in 1 .. Len(stack)
      BY <1>2, <1>7
    <3>2. mark[stack[i].app] = "open"
      BY <3>1 DEF DInv, OpenCalls
    <3> QED
      BY <1>6, <2>1, <3>1, <3>2
  <2>3. \A i, j \in 1 .. n : stack'[i].app = stack'[j].app => i = j
    <3>1. \A i, j \in 1 .. Len(stack) : stack[i].app = stack[j].app => i = j
      BY DEF DInv, OpenCalls
    <3>2. ASSUME NEW i \in 1 .. n, NEW j \in 1 .. n, stack'[i].app = stack'[j].app
          PROVE  i = j
      <4>1. stack'[i] = stack[i] /\ stack'[j] = stack[j]
        BY <1>2
      <4>2. i \in 1 .. Len(stack) /\ j \in 1 .. Len(stack)
        BY <1>7
      <4> QED
        BY <3>1, <3>2, <4>1, <4>2
    <3> QED
      BY <3>2
  <2>4. \A b \in Apps : mark'[b] = "open" => \E i \in 1 .. n : stack'[i].app = b
    <3>1. ASSUME NEW b \in Apps, mark'[b] = "open" PROVE \E i \in 1 .. n : stack'[i].app = b
      <4>1. b # a /\ mark[b] = "open"
        BY <1>6, <3>1
      <4>2. PICK i \in 1 .. Len(stack) : stack[i].app = b
        BY <4>1 DEF DInv, OpenCalls
      <4>3. i \in 1 .. n
        BY <1>7, <1>9, <4>1, <4>2
      <4> QED
        BY <1>2, <4>2, <4>3
    <3> QED
      BY <3>1
  <2> QED
    BY <1>2, <1>5, <2>2, <2>3, <2>4 DEF OpenCalls
<1>11. Path'
  BY <1>2, <1>5, <1>7 DEF DInv, Path
<1>12. Looked'
  <2>1. ASSUME NEW i \in 1 .. n,
               NEW d \in (Deps(stack[i].app) \intersect Apps) \ stack[i].todo
        PROVE  mark'[d] = "done" \/ (i + 1 \in 1 .. n /\ d = stack'[i + 1].app)
    <3>1. mark[d] = "done" \/ d = stack[i + 1].app
      BY <1>1, <1>7 DEF DInv, Looked
    <3>2. i + 1 \in 1 .. n \/ i + 1 = Len(stack)
      BY <1>7
    <3> QED
      BY <1>2, <1>6, <1>9, <3>1, <3>2
  <2> QED
    BY <1>2, <1>5, <2>1 DEF Looked
<1>13. DoneOrdered'
  <2>1. ASSUME NEW b \in Apps
        PROVE  mark'[b] = "done" <=> \E i \in 1 .. k : ordered'[i] = b
    <3>1. CASE b = a
      BY <1>3, <1>6, <1>8, <3>1
    <3>2. CASE b # a
      BY <1>3, <1>6, <1>8, <3>2 DEF DInv, DoneOrdered
    <3> QED
      BY <3>1, <3>2
  <2> QED
    BY <1>3, <1>5, <2>1 DEF DoneOrdered
<1>14. Visited'
  <2>1. ASSUME NEW b \in Apps \ roots
        PROVE  mark'[b] = "done" \/ (1 \in 1 .. n /\ b = stack'[1].app)
    <3>1. mark[b] = "done" \/ (1 \in 1 .. Len(stack) /\ b = stack[1].app)
      BY <1>1 DEF DInv, Visited
    <3>2. 1 \in 1 .. n \/ 1 = Len(stack)
      BY <1>7
    <3> QED
      BY <1>2, <1>6, <1>9, <3>1, <3>2
  <2> QED
    BY <1>1, <1>2, <1>5, <2>1 DEF Visited
<1>15. KnotFound' /\ AllDone'
  BY <1>1 DEF KnotFound, AllDone
<1>16. StartOrder'
  <2>1. ASSUME NEW d \in Deps(a) \intersect Apps
        PROVE  \E j \in 1 .. k - 1 : ordered'[j] = d
    <3>1. d \notin stack[Len(stack)].todo
      BY <1>1, <1>2
    <3>2. mark[d] = "done"
      BY <1>1, <1>7, <1>9, <2>1, <3>1 DEF DInv, Looked
    <3> QED
      BY <1>3, <1>8, <3>2 DEF DInv, DoneOrdered
  <2>2. \A j \in 1 .. k - 1 : ordered'[j] # a
    BY <1>2, <1>3, <1>8, <1>9 DEF DInv, DoneOrdered
  <2>3. ASSUME NEW i \in 1 .. Len(ordered)
        PROVE  /\ \A d \in Deps(ordered'[i]) \intersect Apps : \E j \in 1 .. i - 1 : ordered'[j] = d
               /\ \A j \in 1 .. i - 1 : ordered'[j] # ordered'[i]
    BY <1>3, <1>4, <1>8 DEF DInv, StartOrder
  <2> QED
    BY <1>3, <1>4, <1>5, <1>8, <2>1, <2>2, <2>3 DEF StartOrder
<1> QED
  BY <1>10, <1>11, <1>12, <1>13, <1>14, <1>15, <1>16 DEF DInv

LEMMA OrderStep == TInv /\ DInv /\ [Next]_vars => DInv'
<1> SUFFICES ASSUME TInv, DInv, [Next]_vars PROVE DInv'
  OBVIOUS
<1>1. TInv'
  BY NextType
<1>2. CASE UNCHANGED vars \/ Validate \/ Select \/ Pop \/ SelectEnd \/ Sorted \/ Show \/ ShowEnd
  <2>1. UNCHANGED <<doc, roots, mark, stack, ordered>>
    BY <1>2 DEF vars, Validate, Select, Pop, SelectEnd, Sorted, Show, ShowEnd, search
  <2>2. /\ pc' = "cycle" => pc = "cycle" /\ pc' = pc
        /\ pc = "cycle" => pc' = "cycle"
        /\ pc' \in {"show", "done"} =>
              pc \in {"show", "done"} \/ (pc = "order" /\ stack = <<>> /\ roots = {})
    BY <1>2 DEF vars, Validate, Select, Pop, SelectEnd, Sorted, Show, ShowEnd
  <2>3. Apps' = Apps /\ \A a : Deps(a)' = Deps(a)
    BY <2>1 DEF Apps, Deps
  <2>4. OpenCalls' /\ Path' /\ Looked' /\ DoneOrdered' /\ Visited' /\ StartOrder'
    BY <2>1, <2>2, <2>3
       DEF DInv, OpenCalls, Path, Looked, DoneOrdered, Visited, StartOrder
  <2>5. KnotFound'
    BY <2>2, <2>3 DEF DInv, KnotFound, Knot
  <2>6. AllDone'
    <3>1. CASE pc \in {"show", "done"}
      BY <2>1, <2>3, <3>1 DEF DInv, AllDone
    <3>2. CASE pc = "order" /\ stack = <<>> /\ roots = {}
      <4>1. 1 \notin 1 .. Len(stack)
        BY <3>2, EmptySeq
      <4>2. \A a \in Apps : mark[a] = "done"
        BY <3>2, <4>1 DEF DInv, Visited
      <4> QED
        BY <2>1, <2>3, <4>2 DEF AllDone
    <3> QED
      BY <2>2, <3>1, <3>2 DEF AllDone
  <2> QED
    BY <2>4, <2>5, <2>6 DEF DInv
<1>3. CASE Root
  <2>1. PICK a \in roots : roots' = roots \ {a} /\ Visit(a, stack)
    BY <1>3 DEF Root
  <2>2. /\ pc = "order" /\ stack = <<>> /\ UNCHANGED <<doc, ordered>>
        /\ a \in Apps /\ a \in Node /\ stack \in Seq(Frame)
    BY <1>3, DepsType DEF Root, TInv, Node
  <2>3. \A i : i \notin 1 .. Len(stack)
    BY <2>2, EmptySeq
  <2> QED
    BY <1>1, <2>1, <2>2, <2>3, VisitOrder
<1>4. CASE Dep
  <2>1. /\ stack # <<>> /\ pc = "order" /\ UNCHANGED <<doc, roots, ordered>>
    BY <1>4 DEF Dep
  <2>2. PICK d \in Top.todo : Visit(d, Append(Below, [Top EXCEPT !.todo = @ \ {d}]))
    BY <1>4 DEF Dep
  <2> DEFINE s == Append(Below, [Top EXCEPT !.todo = @ \ {d}])
  <2>3. /\ s \in Seq(Frame) /\ Len(s) = Len(stack) /\ d \in Node
        /\ \A i \in 1 .. Len(stack) :
              /\ s[i].app = stack[i].app
              /\ s[i].todo = IF i = Len(stack) THEN stack[i].todo \ {d}
                                               ELSE stack[i].todo
    BY <2>1, DepStack
  <2>4. Visit(d, s)
    BY <2>2
  <2>5. d \in Deps(stack[Len(stack)].app)
    BY <2>1, StackTop
  <2> HIDE DEF s
  <2> QED
    BY <1>1, <2>1, <2>3, <2>4, <2>5, VisitOrder
<1>5. CASE Return
  BY <1>5, ReturnOrder
<1> QED
  BY <1>2, <1>3, <1>4, <1>5 DEF Next

LEMMA InitOrder == Init => DInv
<1> SUFFICES ASSUME Init PROVE DInv
  OBVIOUS
<1>1. Len(stack) = 0 /\ Len(ordered) = 0 /\ ordered = <<>>
  BY EmptySeq DEF Init
<1>2. \A i : i \notin 1 .. 0
  OBVIOUS
<1>3. TInv
  BY InitType
<1>4. \A a \in Apps : mark[a] = "new"
  BY <1>3, DepsType DEF Init, Node
<1>5. StartOrder
  BY <1>1 DEF StartOrder
<1> QED
  BY <1>1, <1>2, <1>4, <1>5
     DEF Init, DInv, OpenCalls, Path, Looked, DoneOrdered, Visited, KnotFound, AllDone

\* In the start order every app comes once, after all it depends on, for every
\* document: teardown's reverse order signals dependents first.
THEOREM StartsInOrder == Spec => []StartOrder
<1>1. DInv => StartOrder
  BY DEF DInv
<1> QED
  BY <1>1, InitType, NextType, InitOrder, OrderStep, PTL DEF Spec

\* A complete order leaves no room for a cycle.
LEMMA OrderedHasNoKnot ==
    ASSUME TInv, DInv, pc = "done", NEW S \in SUBSET Apps, Knot(S)
    PROVE  FALSE
<1> DEFINE T == {i \in 1 .. Len(ordered) : ordered[i] \in S}
<1>1. /\ Len(ordered) \in Nat /\ DOMAIN ordered = 1 .. Len(ordered)
  BY LenProperties DEF TInv
<1>2. \A a \in Apps : \E i \in 1 .. Len(ordered) : ordered[i] = a
  BY DEF DInv, AllDone, DoneOrdered
<1>3. T \subseteq Nat /\ T # {}
  BY <1>1, <1>2 DEF Knot
<1>4. PICK i \in T : \A j \in T : ~ (<<j, i>> \in OpToRel(<, Nat))
  <2> HIDE DEF T
  <2> QED
    BY <1>3, WFMin, NatLessThanWellFounded
<1>5. \A j \in T : ~ (j < i)
  BY <1>3, <1>4 DEF OpToRel
<1>6. PICK d : d \in Deps(ordered[i]) /\ d \in S
  BY DEF Knot
<1>7. PICK j \in 1 .. i - 1 : ordered[j] = d
  BY <1>1, <1>6 DEF DInv, StartOrder
<1>8. j \in T /\ j < i
  BY <1>1, <1>6, <1>7
<1> QED
  BY <1>5, <1>8

\* A cycle is reported only if there is one, and a plan is made, of all the
\* apps, only if there is none, for every document.
THEOREM CyclesFound == Spec => []CyclesAreFound
<1>1. TInv /\ DInv => CyclesAreFound
  <2> SUFFICES ASSUME TInv, DInv PROVE CyclesAreFound
    OBVIOUS
  <2>1. pc = "cycle" => \E S \in SUBSET Apps : Knot(S)
    BY DEF DInv, KnotFound
  <2>2. pc = "done" => \A S \in SUBSET Apps : ~ Knot(S)
    BY OrderedHasNoKnot
  <2>3. DOMAIN ordered = 1 .. Len(ordered)
    BY LenProperties DEF TInv
  <2>4. pc = "done" => Apps \subseteq {ordered[i] : i \in DOMAIN ordered}
    BY <2>3 DEF DInv, AllDone, DoneOrdered
  <2> QED
    BY <2>1, <2>2, <2>4 DEF CyclesAreFound
<1> QED
  BY <1>1, InitType, NextType, InitOrder, OrderStep, PTL DEF Spec

-----------------------------------------------------------------------------
(***************************************************************************)
(* The documents that are accepted.                                        *)
(***************************************************************************)

LEMMA ModSmall == ASSUME NEW n \in Nat \ {0}, NEW x \in 0 .. n - 1 PROVE x % n = x
BY SMTT(30)
LEMMA ModSelf == ASSUME NEW n \in Nat \ {0} PROVE n % n = 0
BY SMTT(30)

Sound(d) == /\ UniqueNames(d)
            /\ \A i \in DOMAIN d.checks : d.checks[i].target
            /\ \A i \in DOMAIN d.apps : d.apps[i].known
            /\ Loadable(Read(d))

\* A window that fits does not wrap.
LEMMA WindowPorts ==
    ASSUME NEW e \in AppEntry, e.port + e.replicas <= PortSpace, NEW r \in 0 .. e.replicas - 1
    PROVE  PortAt(e, r) = e.port + r /\ (e.port + r) % PortSpace = e.port + r
<1>1. /\ PortSpace \in Nat \ {0} /\ e.port \in 0 .. PortSpace - 1 /\ e.replicas \in Nat
  BY PlanAssumption DEF AppEntry, Port
<1>2. r \in 0 .. PortSpace - 1 /\ e.port + r \in 0 .. PortSpace - 1
  BY <1>1
<1>3. r % PortSpace = r /\ (e.port + r) % PortSpace = e.port + r
  BY <1>1, <1>2, ModSmall
<1> QED
  BY <1>3 DEF PortAt

\* A window that does not fit is refused: by the sum of 32 bits, or because it
\* claims a port of its own twice.
LEMMA WindowRefused ==
    ASSUME NEW d \in Docs, NEW i \in DOMAIN d.apps, d.apps[i] \in AppEntry,
           d.apps[i].replicas # 0, WindowFits(d.apps[i]), ClaimedOnce(d)
    PROVE  d.apps[i].port + d.apps[i].replicas <= PortSpace
<1> DEFINE e == d.apps[i]
<1>1. /\ PortSpace \in Nat \ {0} /\ e.port \in 0 .. PortSpace - 1 /\ e.replicas \in Nat \ {0}
      /\ WordSpace \in Nat \ {0} /\ WordSpace >= 2 * PortSpace
  BY PlanAssumption DEF AppEntry, Port
<1>2. e.replicas <= PortSpace
  <2> SUFFICES ASSUME e.replicas > PortSpace PROVE FALSE
    BY <1>1
  <2>1. 0 \in 0 .. e.replicas - 1 /\ PortSpace \in 0 .. e.replicas - 1 /\ PortSpace # 0
    BY <1>1
  <2>2. 0 % PortSpace = 0 /\ PortSpace % PortSpace = 0
    BY <1>1, ModSmall, ModSelf
  <2>3. PortAt(e, 0) = PortAt(e, PortSpace)
    BY <2>2 DEF PortAt
  <2> QED
    BY <2>1, <2>3 DEF ClaimedOnce
<1>3. CASE e.replicas = 1
  BY <1>1, <1>3
<1>4. CASE e.replicas > 1
  <2>1. e.port + e.replicas - 1 \in 0 .. WordSpace - 1
    BY <1>1, <1>2
  <2>2. (e.port + e.replicas - 1) % WordSpace = e.port + e.replicas - 1
    BY <1>1, <2>1, ModSmall
  <2> QED
    BY <1>1, <1>4, <2>2 DEF WindowFits
<1> QED
  BY <1>1, <1>3, <1>4

LEMMA UniqueApps ==
    ASSUME NEW d \in Docs, UniqueNames(d)
    PROVE  \A k, j \in DOMAIN d.apps : d.apps[k].name = d.apps[j].name => k = j
<1>1. /\ d.apps \in Seq(AppEntry) /\ d.checks \in Seq(CheckEntry)
  BY PlanAssumption DEF Doc
<1>2. /\ DOMAIN d.apps = 1 .. Len(d.apps)
      /\ Len(d.apps) \in Nat /\ Len(d.checks) \in Nat
  BY <1>1, LenProperties
<1> DEFINE U == AppEntry \union CheckEntry
<1>3. d.apps \in Seq(U) /\ d.checks \in Seq(U)
  BY <1>1, SeqMonotonic
<1> HIDE DEF U
<1>4. /\ Entries(d) \in Seq(U) /\ Len(Entries(d)) = Len(d.apps) + Len(d.checks)
      /\ \A k \in 1 .. Len(d.apps) + Len(d.checks) :
            Entries(d)[k] = IF k <= Len(d.apps) THEN d.apps[k]
                                                ELSE d.checks[k - Len(d.apps)]
  BY <1>3, ConcatProperties DEF Entries
<1>5. DOMAIN Entries(d) = 1 .. Len(d.apps) + Len(d.checks)
  BY <1>4, LenProperties
<1>6. \A k \in 1 .. Len(d.apps) : k \in 1 .. Len(d.apps) + Len(d.checks) /\ k <= Len(d.apps)
  <2>1. \A x, y \in Nat : \A k \in 1 .. x : k \in 1 .. x + y /\ k <= x
    OBVIOUS
  <2> QED
    BY <1>2, <2>1
<1>7. \A k \in DOMAIN d.apps : k \in DOMAIN Entries(d) /\ Entries(d)[k] = d.apps[k]
  <2>1. ASSUME NEW k \in 1 .. Len(d.apps)
        PROVE  k \in DOMAIN Entries(d) /\ Entries(d)[k] = d.apps[k]
    <3>1. k \in 1 .. Len(d.apps) + Len(d.checks) /\ k <= Len(d.apps)
      BY <1>6
    <3>2. Entries(d)[k] = d.apps[k]
      BY <1>4, <3>1
    <3> QED
      BY <1>5, <3>1, <3>2
  <2> QED
    BY <1>2, <2>1
<1> QED
  BY <1>7 DEF UniqueNames

LEMMA ValidIsSound == ASSUME NEW d \in Docs PROVE Valid(d) <=> Sound(d)
<1>1. /\ d.apps \in Seq(AppEntry) /\ d.checks \in Seq(CheckEntry)
      /\ \A i \in DOMAIN d.apps : d.apps[i] \in AppEntry
  BY PlanAssumption, LenProperties, ElementOfSeq DEF Doc
<1> DEFINE m == Read(d)
<1>2. ASSUME UniqueNames(d), NEW i \in DOMAIN d.apps
      PROVE  EntryOf(d, d.apps[i].name) = d.apps[i] /\ d.apps[i].name \in AppNames(d)
  <2>1. \A k, j \in DOMAIN d.apps : d.apps[k].name = d.apps[j].name => k = j
    BY <1>2, UniqueApps
  <2> DEFINE n == d.apps[i].name
             j == CHOOSE k \in DOMAIN d.apps : d.apps[k].name = n
  <2>2. j \in DOMAIN d.apps /\ d.apps[j].name = n
    OBVIOUS
  <2>3. j = i
    BY <2>1, <2>2
  <2> QED
    BY <2>3 DEF EntryOf, AppNames
<1>3. /\ m.apps = AppNames(d) /\ m.checks = CheckNames(d)
      /\ \A a \in AppNames(d) : m.cfg[a] = EntryOf(d, a)
  BY DEF Read
<1>4. ASSUME UniqueNames(d), NEW i \in DOMAIN d.apps
      PROVE  d.apps[i].name \in m.apps /\ m.cfg[d.apps[i].name] = d.apps[i]
  BY <1>2, <1>3, <1>4
<1>5. \A a \in m.apps : \E i \in DOMAIN d.apps : d.apps[i].name = a
  BY <1>3 DEF AppNames
<1> HIDE DEF m
<1>6. ASSUME Valid(d) PROVE Sound(d)
  <2>1. /\ UniqueNames(d) /\ ClaimedOnce(d)
        /\ \A i \in DOMAIN d.checks : d.checks[i].target
        /\ \A i \in DOMAIN d.apps :
              /\ d.apps[i].replicas # 0 /\ WindowFits(d.apps[i]) /\ d.apps[i].known
              /\ d.apps[i].deps \subseteq m.apps \union m.checks
    BY <1>3, <1>6 DEF Valid
  <2>2. \A i \in DOMAIN d.apps : d.apps[i].port + d.apps[i].replicas <= PortSpace
    BY <1>1, <2>1, WindowRefused
  <2>3. ASSUME NEW i \in DOMAIN d.apps, NEW r \in 0 .. d.apps[i].replicas - 1
        PROVE  PortOf(m, d.apps[i].name, r) = PortAt(d.apps[i], r)
    BY <1>1, <1>4, <2>1, <2>2, WindowPorts DEF PortOf
  <2>4. ASSUME NEW a \in m.apps
        PROVE  /\ m.cfg[a].replicas > 0
               /\ m.cfg[a].port + m.cfg[a].replicas <= PortSpace
               /\ m.cfg[a].deps \subseteq m.apps \union m.checks
    <3>1. PICK i \in DOMAIN d.apps : d.apps[i].name = a
      BY <1>5
    <3>2. d.apps[i].replicas \in Nat
      BY <1>1, PlanAssumption DEF AppEntry
    <3> QED
      BY <1>4, <2>1, <2>2, <3>1, <3>2
  <2>5. ASSUME NEW a \in m.apps, NEW b \in m.apps \ {a},
               NEW r \in 0 .. m.cfg[a].replicas - 1, NEW s \in 0 .. m.cfg[b].replicas - 1
        PROVE  PortOf(m, a, r) # PortOf(m, b, s)
    <3>1. PICK i \in DOMAIN d.apps : d.apps[i].name = a
      BY <1>5
    <3>2. PICK j \in DOMAIN d.apps : d.apps[j].name = b
      BY <1>5
    <3>3. i # j /\ r \in 0 .. d.apps[i].replicas - 1 /\ s \in 0 .. d.apps[j].replicas - 1
      BY <1>4, <2>1, <3>1, <3>2
    <3>4. PortAt(d.apps[i], r) # PortAt(d.apps[j], s)
      BY <2>1, <3>3 DEF ClaimedOnce
    <3> QED
      BY <2>3, <3>1, <3>2, <3>3, <3>4
  <2>6. Loadable(m)
    BY <2>4, <2>5 DEF Loadable
  <2> QED
    BY <2>1, <2>6 DEF Sound, m
<1>7. ASSUME Sound(d) PROVE Valid(d)
  <2>1. /\ UniqueNames(d) /\ Loadable(m)
        /\ \A i \in DOMAIN d.checks : d.checks[i].target
        /\ \A i \in DOMAIN d.apps : d.apps[i].known
    BY <1>7 DEF Sound, m
  <2>2. ASSUME NEW i \in DOMAIN d.apps
        PROVE  /\ d.apps[i].replicas # 0
               /\ d.apps[i].port + d.apps[i].replicas <= PortSpace
               /\ d.apps[i].deps \subseteq m.apps \union m.checks
    BY <1>4, <2>1 DEF Loadable
  <2>3. ASSUME NEW i \in DOMAIN d.apps PROVE WindowFits(d.apps[i])
    <3> DEFINE e == d.apps[i]
    <3>1. /\ e.port \in 0 .. PortSpace - 1 /\ e.replicas \in Nat /\ e.replicas # 0
          /\ PortSpace \in Nat \ {0} /\ WordSpace \in Nat \ {0} /\ WordSpace >= 2 * PortSpace
          /\ e.port + e.replicas <= PortSpace
      BY <1>1, <2>2, PlanAssumption DEF AppEntry, Port
    <3>2. e.port + e.replicas - 1 \in 0 .. WordSpace - 1
      BY <3>1
    <3>3. (e.port + e.replicas - 1) % WordSpace = e.port + e.replicas - 1
      BY <3>1, <3>2, ModSmall
    <3> QED
      BY <3>1, <3>3 DEF WindowFits
  <2>4. ClaimedOnce(d)
    <3> SUFFICES ASSUME NEW i \in DOMAIN d.apps, NEW j \in DOMAIN d.apps,
                        NEW r \in 0 .. d.apps[i].replicas - 1,
                        NEW s \in 0 .. d.apps[j].replicas - 1,
                        PortAt(d.apps[i], r) = PortAt(d.apps[j], s)
                 PROVE  i = j /\ r = s
      BY DEF ClaimedOnce
    <3> DEFINE a == d.apps[i].name
               b == d.apps[j].name
    <3>1. a \in m.apps /\ m.cfg[a] = d.apps[i] /\ b \in m.apps /\ m.cfg[b] = d.apps[j]
      BY <1>4, <2>1
    <3>2. /\ PortOf(m, a, r) = PortAt(d.apps[i], r) /\ PortAt(d.apps[i], r) = d.apps[i].port + r
          /\ PortOf(m, b, s) = PortAt(d.apps[j], s) /\ PortAt(d.apps[j], s) = d.apps[j].port + s
      BY <1>1, <2>2, <3>1, WindowPorts DEF PortOf
    <3>3. a = b
      BY <2>1, <3>1, <3>2 DEF Loadable
    <3>4. i = j
      BY <2>1, <3>3, UniqueApps
    <3>5. d.apps[i].port \in Int /\ d.apps[i].port + r = d.apps[i].port + s
      <4>1. d.apps[i].port \in 0 .. PortSpace - 1 /\ PortSpace \in Nat
        BY <1>1, PlanAssumption DEF AppEntry, Port
      <4>2. PortAt(d.apps[i], r) = d.apps[i].port + r /\ PortAt(d.apps[i], s) = d.apps[i].port + s
        BY <3>2, <3>4
      <4> QED
        BY <3>4, <4>1, <4>2
    <3>6. r = s
      BY <3>5
    <3> QED
      BY <3>4, <3>6
  <2>5. m.apps \union m.checks = AppNames(d) \union CheckNames(d)
    BY <1>3
  <2> QED
    BY <2>1, <2>2, <2>3, <2>4, <2>5 DEF Valid
<1> QED
  BY <1>6, <1>7

VInv == /\ pc \notin {"validate", "invalid"} => Valid(doc)
        /\ pc = "invalid" => ~ Valid(doc)

LEMMA ValidStep == TInv /\ VInv /\ [Next]_vars => VInv'
<1> SUFFICES ASSUME TInv, VInv, [Next]_vars PROVE VInv'
  OBVIOUS
<1>1. doc' = doc
  BY DEF Next, Validate, Select, Pop, SelectEnd, Root, Dep, Return, Sorted, Show, ShowEnd, vars
<1>2. Valid(doc)' = Valid(doc)
  BY <1>1
<1>3. CASE Validate
  BY <1>2, <1>3 DEF Validate, VInv
<1>4. CASE UNCHANGED vars
  BY <1>2, <1>4 DEF VInv, vars
<1>5. CASE \/ Select \/ Pop \/ SelectEnd \/ Root \/ Dep \/ Return
           \/ Sorted \/ Show \/ ShowEnd
  <2>1. pc' \notin {"select", "invalid", "validate"} /\ pc \notin {"validate", "invalid"}
    BY <1>5 DEF Select, Pop, SelectEnd, Root, Dep, Return, Sorted, Show, ShowEnd, Visit
  <2> QED
    BY <1>2, <2>1 DEF VInv
<1> QED
  BY <1>3, <1>4, <1>5 DEF Next

\* With ports and replica counts of any widths, although their sums wrap, a
\* document is accepted exactly if it is sound.
THEOREM LoadableAccepted == Spec => []AcceptsTheLoadable
<1>1. Init => VInv
  BY DEF Init, VInv
<1>2. TInv /\ VInv => AcceptsTheLoadable
  BY ValidIsSound DEF TInv, VInv, AcceptsTheLoadable, Sound
<1> QED
  BY <1>1, <1>2, InitType, NextType, ValidStep, PTL DEF Spec

-----------------------------------------------------------------------------
(***************************************************************************)
(* The print-out.                                                          *)
(***************************************************************************)

\* What an accepted document says of an app.
LEMMA AcceptedEntry ==
    ASSUME TInv, Valid(doc), NEW a \in Apps
    PROVE  LET e == EntryOf(doc, a)
           IN  e \in AppEntry /\ e.replicas # 0 /\ e.port + e.replicas <= PortSpace
<1> DEFINE m == Read(doc)
<1>1. doc \in Docs /\ a \in AppNames(doc)
  BY DEF TInv, Apps
<1>2. EntryOf(doc, a) \in AppEntry
  BY <1>1, EntryType
<1>3. m.apps = AppNames(doc) /\ m.cfg[a] = EntryOf(doc, a)
  BY <1>1 DEF Read
<1>4. Loadable(m)
  BY <1>1, ValidIsSound DEF Sound
<1> HIDE DEF m
<1>5. EntryOf(doc, a).replicas > 0 /\ EntryOf(doc, a).port + EntryOf(doc, a).replicas <= PortSpace
  BY <1>1, <1>3, <1>4 DEF Loadable
<1>6. EntryOf(doc, a).replicas # 0
  BY <1>5
<1> QED
  BY <1>2, <1>5, <1>6

\* The last port of a window that fits; the 16-bit sum may be 0 in between.
LEMMA LastPort ==
    ASSUME NEW e \in AppEntry, e.replicas # 0, e.port + e.replicas <= PortSpace
    PROVE  Last(e) = e.port + e.replicas - 1
<1> DEFINE p == e.port
           n == e.replicas
<1>1. /\ PortSpace \in Nat \ {0} /\ p \in 0 .. PortSpace - 1 /\ n \in Nat \ {0}
      /\ p + n <= PortSpace
  BY PlanAssumption DEF AppEntry, Port
<1>2. Last(e) = (((p + (n % PortSpace)) % PortSpace) - 1) % PortSpace
  BY DEF Last
<1> HIDE DEF p, n
<1>3. (0 - 1) % PortSpace = PortSpace - 1
  BY <1>1, SMTT(30)
<1>4. CASE n = PortSpace
  <2>1. n % PortSpace = 0 /\ p = 0
    BY <1>1, <1>4, ModSelf
  <2>2. (p + (n % PortSpace)) % PortSpace = 0
    BY <1>1, <2>1, ModSmall
  <2>3. Last(e) = p + n - 1
    BY <1>1, <1>2, <1>3, <1>4, <2>1, <2>2
  <2> QED
    BY <2>3 DEF p, n
<1>5. CASE n # PortSpace /\ p + n = PortSpace
  <2>1. n \in 0 .. PortSpace - 1
    BY <1>1, <1>5
  <2>2. n % PortSpace = n
    BY <1>1, <2>1, ModSmall
  <2>3. (p + (n % PortSpace)) % PortSpace = 0
    BY <1>1, <1>5, <2>2, ModSelf
  <2>4. Last(e) = p + n - 1
    BY <1>1, <1>2, <1>3, <1>5, <2>3
  <2> QED
    BY <2>4 DEF p, n
<1>6. CASE n # PortSpace /\ p + n # PortSpace
  <2> DEFINE q == p + n
  <2>1. n \in 0 .. PortSpace - 1 /\ q \in 0 .. PortSpace - 1 /\ q - 1 \in 0 .. PortSpace - 1
    BY <1>1, <1>6
  <2>2. n % PortSpace = n
    BY <1>1, <2>1, ModSmall
  <2>3. Last(e) = ((q % PortSpace) - 1) % PortSpace
    BY <1>2, <2>2
  <2> HIDE DEF q
  <2>4. q % PortSpace = q
    BY <1>1, <2>1, ModSmall
  <2>5. (q - 1) % PortSpace = q - 1
    BY <1>1, <2>1, ModSmall
  <2>6. Last(e) = q - 1
    BY <2>3, <2>4, <2>5
  <2> QED
    BY <1>1, <2>6 DEF p, n, q
<1> QED
  BY <1>4, <1>5, <1>6

\* A line shows the ports of all the replicas of its app, and no other.
LEMMA LinePorts ==
    ASSUME TInv, Valid(doc), NEW a \in Apps
    PROVE  Line(a).first .. Line(a).last =
              {PortOf(Read(doc), a, r) : r \in 0 .. EntryOf(doc, a).replicas - 1}
<1> DEFINE e == EntryOf(doc, a)
           p == e.port
           n == e.replicas
<1>1. e \in AppEntry /\ n # 0 /\ p + n <= PortSpace
  BY AcceptedEntry
<1>2. Line(a).first = p /\ Line(a).last = IF n = 1 THEN p ELSE Last(e)
  BY DEF Line
<1>3. Read(doc).cfg[a] = e
  BY DEF Read, Apps
<1> HIDE DEF e
<1>4. p \in Nat /\ n \in Nat
  BY <1>1, PlanAssumption DEF AppEntry, Port
<1>5. Last(e) = p + n - 1
  BY <1>1, LastPort
<1>6. \A r \in 0 .. n - 1 : PortOf(Read(doc), a, r) = p + r
  BY <1>1, <1>3, WindowPorts DEF PortOf
<1> HIDE DEF p, n
<1>7. Line(a).last = p + n - 1
  BY <1>2, <1>4, <1>5
<1>8. {PortOf(Read(doc), a, r) : r \in 0 .. n - 1} = {p + r : r \in 0 .. n - 1}
  BY <1>6
<1>9. p .. p + n - 1 = {p + r : r \in 0 .. n - 1}
  <2>1. ASSUME NEW x \in p .. p + n - 1 PROVE x - p \in 0 .. n - 1 /\ x = p + (x - p)
    BY <1>4
  <2>2. \A r \in 0 .. n - 1 : p + r \in p .. p + n - 1
    BY <1>4
  <2> QED
    BY <2>1, <2>2
<1> QED
  BY <1>2, <1>7, <1>8, <1>9 DEF n, e

\* The lines are those of the selected apps among the first `shown` of the
\* order, each once.
Listed == \A i \in 1 .. Len(lines) :
             \E j \in 1 .. shown : ordered[j] \in selected /\ lines[i] = Line(ordered[j])
Covered == \A j \in 1 .. shown : ordered[j] \in selected =>
              \E i \in 1 .. Len(lines) : lines[i].app = ordered[j]
NoneTwice == \A i, j \in 1 .. Len(lines) : lines[i].app = lines[j].app => i = j
LInv == /\ lines \in Seq({Line(a) : a \in Apps})
        /\ pc \notin {"show", "done"} => shown = 0
        /\ pc = "done" => shown = Len(ordered)
        /\ Listed /\ Covered /\ NoneTwice

LEMMA ShowLists == ASSUME TInv, DInv, LInv, Show PROVE LInv'
<1> DEFINE k == shown + 1
           a == ordered[k]
           n == Len(lines)
<1>1. /\ pc = "show" /\ shown < Len(ordered) /\ shown' = k /\ pc' = pc
      /\ lines' = IF a \in selected THEN Append(lines, Line(a)) ELSE lines
      /\ UNCHANGED <<doc, selected, ordered>>
  BY DEF Show, search
<1>2. Apps' = Apps /\ \A b : Line(b)' = Line(b)
  BY <1>1 DEF Apps, Line
<1>3. /\ ordered \in Seq(Apps) /\ Len(ordered) \in Nat /\ shown \in 0 .. Len(ordered)
      /\ DOMAIN ordered = 1 .. Len(ordered)
  BY LenProperties DEF TInv
<1>4. k \in 1 .. Len(ordered) /\ k \in Nat /\ shown = k - 1
  BY <1>1, <1>3
<1>5. a \in Apps
  BY <1>3, <1>4, ElementOfSeq
<1>6. \A j : Line(j).app = j
  BY DEF Line
<1>7. /\ lines \in Seq({Line(b) : b \in Apps}) /\ n \in Nat
      /\ Listed /\ Covered /\ NoneTwice
  BY DEF LInv
<1>8. \A j \in 1 .. shown : ordered[j] # a
  BY <1>3, <1>4 DEF DInv, StartOrder
<1>9. \A j \in 1 .. k : j \in 1 .. shown \/ j = k
  BY <1>4
<1>10. \A j \in 1 .. shown : j \in 1 .. k
  BY <1>4
<1>11. k \in 1 .. k
  BY <1>4
<1> HIDE DEF k, a
<1>12. a = ordered[k]
  BY DEF a
<1>13. CASE a \notin selected
  <2>1. lines' = lines
    BY <1>1, <1>13
  <2>2. Listed'
    BY <1>1, <1>2, <1>7, <1>10, <2>1 DEF Listed
  <2>3. Covered'
    BY <1>1, <1>7, <1>9, <1>12, <1>13, <2>1 DEF Covered
  <2>4. NoneTwice'
    BY <1>7, <2>1 DEF NoneTwice
  <2> QED
    BY <1>1, <1>2, <1>7, <2>1, <2>2, <2>3, <2>4 DEF LInv
<1>14. CASE a \in selected
  <2>1. lines' = Append(lines, Line(a)) /\ Line(a) \in {Line(b) : b \in Apps}
    BY <1>1, <1>5, <1>14
  <2>2. /\ lines' \in Seq({Line(b) : b \in Apps}) /\ Len(lines') = n + 1
        /\ \A i \in 1 .. n : lines'[i] = lines[i]
        /\ lines'[n + 1] = Line(a)
    BY <1>7, <2>1, AppendProperties
  <2>3. \A i \in 1 .. n + 1 : i \in 1 .. n \/ i = n + 1
    BY <1>7
  <2>4. \A i \in 1 .. n : i \in 1 .. n + 1
    BY <1>7
  <2>5. n + 1 \in 1 .. n + 1
    BY <1>7
  <2>6. \A i \in 1 .. n : \E j \in 1 .. shown :
           ordered[j] \in selected /\ lines[i] = Line(ordered[j])
    BY <1>7 DEF Listed
  <2> HIDE DEF n
  <2>7. Listed'
    <3>1. ASSUME NEW i \in 1 .. n + 1
          PROVE  \E j \in 1 .. k : ordered[j] \in selected /\ lines'[i] = Line(ordered[j])
      <4>1. CASE i \in 1 .. n
        BY <1>10, <2>2, <2>6, <4>1
      <4>2. CASE i = n + 1
        BY <1>11, <1>12, <1>14, <2>2, <4>2
      <4> QED
        BY <2>3, <4>1, <4>2
    <3> QED
      BY <1>1, <1>2, <2>2, <3>1 DEF Listed
  <2>8. Covered'
    <3>1. ASSUME NEW j \in 1 .. k, ordered[j] \in selected
          PROVE  \E i \in 1 .. n + 1 : lines'[i].app = ordered[j]
      <4>1. CASE j \in 1 .. shown
        <5>1. PICK i \in 1 .. n : lines[i].app = ordered[j]
          BY <1>7, <3>1, <4>1 DEF Covered, n
        <5> QED
          BY <2>2, <2>4, <5>1
      <4>2. CASE j = k
        BY <1>6, <1>12, <2>2, <2>5, <4>2
      <4> QED
        BY <1>9, <4>1, <4>2
    <3> QED
      BY <1>1, <2>2, <3>1 DEF Covered
  <2>9. NoneTwice'
    <3>1. \A i \in 1 .. n : lines'[i].app # a
      BY <1>6, <1>8, <2>2, <2>6
    <3>2. lines'[n + 1].app = a
      BY <1>6, <2>2
    <3>3. \A i, j \in 1 .. n : lines'[i].app = lines'[j].app => i = j
      BY <1>7, <2>2 DEF NoneTwice, n
    <3>4. \A i, j \in 1 .. n + 1 : lines'[i].app = lines'[j].app => i = j
      BY <2>3, <3>1, <3>2, <3>3
    <3> QED
      BY <2>2, <3>4 DEF NoneTwice
  <2> QED
    BY <1>1, <1>2, <2>2, <2>7, <2>8, <2>9 DEF LInv
<1> QED
  BY <1>13, <1>14

LEMMA ShownStep == TInv /\ DInv /\ LInv /\ [Next]_vars => LInv'
<1> SUFFICES ASSUME TInv, DInv, LInv, [Next]_vars PROVE LInv'
  OBVIOUS
<1>1. UNCHANGED doc
  BY DEF Next, Validate, Select, Pop, SelectEnd, Root, Dep, Return, Sorted, Show, ShowEnd, vars
<1>2. Apps' = Apps /\ \A b : Line(b)' = Line(b)
  BY <1>1 DEF Apps, Line
<1>3. CASE Show
  BY <1>3, ShowLists
<1>4. CASE Validate \/ Select \/ Pop \/ SelectEnd \/ Root \/ Dep \/ Return
  <2>1. UNCHANGED printed /\ pc' \notin {"show", "done"} /\ pc \notin {"show", "done"}
    BY <1>4 DEF Validate, Select, Pop, SelectEnd, Root, Dep, Return, Visit
  <2>2. shown = 0 /\ shown' = 0 /\ lines' = lines /\ lines \in Seq({Line(b) : b \in Apps})
    BY <2>1 DEF LInv, printed
  <2>3. \A j : j \notin 1 .. 0
    OBVIOUS
  <2>4. \A i : i \notin 1 .. Len(lines)
    BY <2>2, <2>3 DEF LInv, Listed
  <2>5. Listed' /\ Covered' /\ NoneTwice'
    BY <2>2, <2>3, <2>4 DEF Listed, Covered, NoneTwice
  <2> QED
    BY <1>2, <2>1, <2>2, <2>5 DEF LInv
<1>5. CASE Sorted \/ ShowEnd \/ UNCHANGED vars
  <2>1. UNCHANGED <<selected, ordered, shown, lines>>
    BY <1>5 DEF Sorted, ShowEnd, vars, search, printed
  <2>2. /\ pc' \notin {"show", "done"} => pc \notin {"show", "done"}
        /\ pc' = "done" => pc = "done" \/ shown = Len(ordered)
    BY <1>5 DEF Sorted, ShowEnd, vars
  <2>3. Listed' /\ Covered' /\ NoneTwice'
    BY <1>2, <2>1 DEF LInv, Listed, Covered, NoneTwice
  <2> QED
    BY <1>2, <2>1, <2>2, <2>3 DEF LInv
<1> QED
  BY <1>3, <1>4, <1>5 DEF Next

LEMMA InitShown == Init => LInv
<1> SUFFICES ASSUME Init PROVE LInv
  OBVIOUS
<1>1. lines = <<>> /\ Len(lines) = 0 /\ lines \in Seq({Line(b) : b \in Apps}) /\ shown = 0
  BY EmptySeq DEF Init
<1>2. \A i : i \notin 1 .. 0
  OBVIOUS
<1>3. Listed /\ Covered /\ NoneTwice
  BY <1>1, <1>2 DEF Listed, Covered, NoneTwice
<1> QED
  BY <1>1, <1>3 DEF Init, LInv

\* `plan` prints each selected app once, with the ports its instances get, for
\* every document and every width of ports and replica counts.
THEOREM ShowsThePorts == Spec => []PortsShown
<1>1. TInv /\ QInv /\ DInv /\ VInv /\ LInv => PortsShown
  <2> SUFFICES ASSUME TInv, QInv, DInv, VInv, LInv, pc = "done" PROVE PortsShown
    BY DEF PortsShown
  <2>1. /\ lines \in Seq({Line(a) : a \in Apps}) /\ DOMAIN lines = 1 .. Len(lines)
        /\ shown = Len(ordered) /\ Listed /\ Covered /\ NoneTwice
    BY LenProperties DEF LInv
  <2>2. Valid(doc) /\ selected = SelectApps(Read(doc), only) /\ selected \subseteq Apps
    BY DEF VInv, QInv, Closure, TInv
  <2>3. \A a \in Apps : \E j \in 1 .. shown : ordered[j] = a
    BY <2>1 DEF DInv, AllDone, DoneOrdered
  <2>4. \A a : Line(a).app = a
    BY DEF Line
  <2>5. ASSUME NEW i \in 1 .. Len(lines)
        PROVE  lines[i].app \in selected /\ lines[i] = Line(lines[i].app)
    BY <2>1, <2>4 DEF Listed
  <2>6. \A a \in selected : \E i \in 1 .. Len(lines) : lines[i].app = a
    BY <2>1, <2>2, <2>3 DEF Covered
  <2>7. {lines[i].app : i \in DOMAIN lines} = selected
    BY <2>1, <2>5, <2>6
  <2>8. \A i, j \in DOMAIN lines : lines[i].app = lines[j].app => i = j
    BY <2>1 DEF NoneTwice
  <2>9. ASSUME NEW i \in DOMAIN lines
        PROVE  lines[i].first .. lines[i].last =
                  {PortOf(Read(doc), lines[i].app, r) :
                      r \in 0 .. EntryOf(doc, lines[i].app).replicas - 1}
    <3> DEFINE a == lines[i].app
    <3>1. a \in Apps /\ lines[i] = Line(a)
      BY <2>1, <2>2, <2>5
    <3> HIDE DEF a
    <3>2. Line(a).first .. Line(a).last =
             {PortOf(Read(doc), a, r) : r \in 0 .. EntryOf(doc, a).replicas - 1}
      BY <2>2, <3>1, LinePorts
    <3>3. lines[i].first = Line(a).first /\ lines[i].last = Line(a).last
      BY <3>1
    <3> QED
      BY <3>2, <3>3 DEF a
  <2> QED
    BY <2>2, <2>7, <2>8, <2>9 DEF PortsShown
<1>2. Init => QInv /\ VInv
  BY DEF Init, QInv, VInv
<1> QED
  BY <1>1, <1>2, InitType, NextType, InitOrder, OrderStep, SelectStep, ValidStep, InitShown,
     ShownStep, PTL DEF Spec

=============================================================================
