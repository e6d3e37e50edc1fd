---------------------------------- MODULE Plan ----------------------------------
(***************************************************************************)
(* `artzain plan` (artzain-core/src/lib.rs): an artzain.toml as it was     *)
(* written is validated, the apps of --only and what they depend on are    *)
(* selected, the apps are put in start order, and the plan is printed.     *)
(* `up` starts with the same load and select_apps; its teardown sorts by   *)
(* the same apps_ordered.                                                  *)
(*                                                                         *)
(* Ports are u16 and replicas u32, and their sums wrap, as those of a      *)
(* release build do.  Sets stand for the lists whose order says nothing    *)
(* of the result: any element may be the next one.                         *)
(***************************************************************************)
EXTENDS ManifestFile, Sequences, FiniteSets

CONSTANTS
    WordSpace,  \* number of u32 values: 2^32 in the program
    Docs,       \* the documents to consider
    Onlys       \* the --only lists to consider; {} is no list

AppEntry == [name : App, port : Port, replicas : 0 .. WordSpace - 1,
             deps : SUBSET (App \union Check), known : BOOLEAN]
CheckEntry == [name : App \union Check, target : BOOLEAN]
Doc == [apps : Seq(AppEntry), checks : Seq(CheckEntry)]

ASSUME PlanAssumption ==
    /\ PortSpace \in Nat \ {0}
    /\ WordSpace \in Nat /\ WordSpace >= 2 * PortSpace
    /\ Docs \subseteq Doc /\ Onlys \subseteq SUBSET App

VARIABLES
    doc,        \* the file
    only,       \* the argument of --only
    pc,         \* where `plan` is
    queue,      \* select_apps: names to look at
    selected,   \* select_apps: names found
    roots,      \* apps_ordered: apps not yet visited from the loop
    mark,       \* apps_ordered: not seen, being visited, done
    stack,      \* apps_ordered: the calls of visit that have not returned
    ordered,    \* apps_ordered: the result
    shown,      \* the print-out: how many apps of the order it has come to
    lines       \* what is printed of the apps

vars == <<doc, only, pc, queue, selected, roots, mark, stack, ordered, shown, lines>>
search == <<roots, mark, stack, ordered>>
printed == <<shown, lines>>

-----------------------------------------------------------------------------
(***************************************************************************)
(* Manifest::validate.                                                     *)
(***************************************************************************)

Entries(d) == d.apps \o d.checks
UniqueNames(d) ==
    \A i, j \in DOMAIN Entries(d) : Entries(d)[i].name = Entries(d)[j].name => i = j
AppNames(d) == {d.apps[i].name : i \in DOMAIN d.apps}
CheckNames(d) == {d.checks[i].name : i \in DOMAIN d.checks}

\* port as u32 + replicas - 1 > u16::MAX
WindowFits(e) ==
    e.replicas > 1 => (e.port + e.replicas - 1) % WordSpace <= PortSpace - 1
\* port + i as u16
PortAt(e, i) == (e.port + (i % PortSpace)) % PortSpace
ClaimedOnceAcross(d) ==                                             \* mutant
    \A i, j \in DOMAIN d.apps :
       \A r \in 0 .. d.apps[i].replicas - 1, s \in 0 .. d.apps[j].replicas - 1 :
          i # j => PortAt(d.apps[i], r) # PortAt(d.apps[j], s)
ClaimedOnce(d) ==
    \A i, j \in DOMAIN d.apps :
       \A r \in 0 .. d.apps[i].replicas - 1, s \in 0 .. d.apps[j].replicas - 1 :
          PortAt(d.apps[i], r) = PortAt(d.apps[j], s) => i = j /\ r = s
Valid(d) ==
    /\ UniqueNames(d)
    /\ \A i \in DOMAIN d.checks : d.checks[i].target
    /\ \A i \in DOMAIN d.apps :
          LET e == d.apps[i]
          IN  /\ e.replicas # 0 /\ WindowFits(e) /\ e.known
              /\ e.deps \subseteq AppNames(d) \union CheckNames(d)
    /\ ClaimedOnce(d)

\* by_name: what the document says of an app.
EntryOf(d, a) == d.apps[CHOOSE i \in DOMAIN d.apps : d.apps[i].name = a]
Read(d) ==
    [apps |-> AppNames(d), checks |-> CheckNames(d),
     cfg |-> [a \in AppNames(d) |-> EntryOf(d, a)]]
Apps == AppNames(doc)
Deps(a) == EntryOf(doc, a).deps

Validate ==
    /\ pc = "validate"
    /\ pc' = IF Valid(doc) THEN "select" ELSE "invalid"
    /\ UNCHANGED <<doc, only, queue, selected, search, printed>>

-----------------------------------------------------------------------------
(***************************************************************************)
(* select_apps.                                                            *)
(***************************************************************************)

Select ==
    /\ pc = "select"
    /\ CASE only = {} ->
              pc' = "order" /\ selected' = Apps /\ UNCHANGED queue
         [] only # {} /\ only \subseteq Apps ->
              pc' = "queue" /\ queue' = only /\ UNCHANGED selected
         [] OTHER ->
              pc' = "unknown" /\ UNCHANGED <<queue, selected>>
    /\ UNCHANGED <<doc, only, search, printed>>

\* A name is popped; the apps it depends on are looked at too.
QueuedAgain(n) == Deps(n) \intersect Apps                           \* mutant
QueuedDirect(n) == IF n \in only THEN Deps(n) \intersect Apps ELSE {}   \* mutant
Queued(n) == IF n \in selected THEN {} ELSE Deps(n) \intersect Apps
Pop ==
    /\ pc = "queue"
    /\ \E n \in queue :
          /\ queue' = (queue \ {n}) \union Queued(n)
          /\ selected' = selected \union {n}
    /\ UNCHANGED <<doc, only, pc, search, printed>>

SelectEnd ==
    /\ pc = "queue" /\ queue = {}
    /\ pc' = "order"
    /\ UNCHANGED <<doc, only, queue, selected, search, printed>>

-----------------------------------------------------------------------------
(***************************************************************************)
(* apps_ordered.                                                           *)
(***************************************************************************)

\* visit(n), called with the calls s below it.
DoneEarly(n) == mark[n] # "new" \/ n \notin Apps                    \* mutant
Done(n) == mark[n] = "done" \/ n \notin Apps
OnPath(n) == mark[n] = "open"
Visit(n, s) ==
    \/ /\ Done(n)
       /\ stack' = s /\ UNCHANGED <<pc, mark>>
    \/ /\ OnPath(n) /\ ~ Done(n)
       /\ pc' = "cycle" /\ stack' = s /\ UNCHANGED mark
    \/ /\ ~ OnPath(n) /\ ~ Done(n)
       /\ mark' = [mark EXCEPT ![n] = "open"]
       /\ stack' = Append(s, [app |-> n, todo |-> Deps(n)])
       /\ UNCHANGED pc

Root ==
    /\ pc = "order" /\ stack = <<>>
    /\ \E a \in roots : roots' = roots \ {a} /\ Visit(a, stack)
    /\ UNCHANGED <<doc, only, queue, selected, ordered, printed>>

Top == stack[Len(stack)]
Below == SubSeq(stack, 1, Len(stack) - 1)
Dep ==
    /\ pc = "order" /\ stack # <<>>
    /\ \E d \in Top.todo : Visit(d, Append(Below, [Top EXCEPT !.todo = @ \ {d}]))
    /\ UNCHANGED <<doc, only, queue, selected, roots, ordered, printed>>

FinishedEarly == Cardinality(Top.todo) <= 1                         \* mutant
Finished == Top.todo = {}
Return ==
    /\ pc = "order" /\ stack # <<>> /\ Finished
    /\ mark' = [mark EXCEPT ![Top.app] = "done"]
    /\ ordered' = Append(ordered, Top.app)
    /\ stack' = Below
    /\ UNCHANGED <<doc, only, pc, queue, selected, roots, printed>>

-----------------------------------------------------------------------------
(***************************************************************************)
(* The print-out: the ports of each selected app, in start order.          *)
(***************************************************************************)

\* app.port + app.replicas as u16 - 1
LastPastEnd(e) == (e.port + (e.replicas % PortSpace)) % PortSpace     \* mutant
Last(e) == (((e.port + (e.replicas % PortSpace)) % PortSpace) - 1) % PortSpace
Line(a) ==
    LET e == EntryOf(doc, a)
    IN  [app |-> a, first |-> e.port, last |-> IF e.replicas = 1 THEN e.port ELSE Last(e)]

Sorted ==
    /\ pc = "order" /\ stack = <<>> /\ roots = {}
    /\ pc' = "show"
    /\ UNCHANGED <<doc, only, queue, selected, search, printed>>

\* The next app of the order: its line, if it is selected.
Show ==
    /\ pc = "show" /\ shown < Len(ordered)
    /\ shown' = shown + 1
    /\ LET app == ordered[shown + 1]
       IN  lines' = IF app \in selected THEN Append(lines, Line(app)) ELSE lines
    /\ UNCHANGED <<doc, only, pc, queue, selected, search>>

ShowEnd ==
    /\ pc = "show" /\ shown = Len(ordered)
    /\ pc' = "done"
    /\ UNCHANGED <<doc, only, queue, selected, search, printed>>

Init ==
    /\ doc \in Docs /\ only \in Onlys
    /\ pc = "validate"
    /\ queue = {} /\ selected = {}
    /\ roots = Apps
    /\ mark = [n \in App \union Check |-> "new"]
    /\ stack = <<>> /\ ordered = <<>>
    /\ shown = 0 /\ lines = <<>>

Next == Validate \/ Select \/ Pop \/ SelectEnd \/ Root \/ Dep \/ Return
        \/ Sorted \/ Show \/ ShowEnd

Spec == Init /\ [][Next]_vars
FairSpec == Spec /\ WF_vars(Next)

-----------------------------------------------------------------------------
(***************************************************************************)
(* Properties.                                                             *)
(***************************************************************************)

Frame == [app : App, todo : SUBSET (App \union Check)]

\* The variables have their shapes.
TypeOK ==
    /\ doc \in Doc /\ only \subseteq App
    /\ pc \in {"validate", "invalid", "select", "unknown", "queue", "order", "cycle",
              "show", "done"}
    /\ queue \subseteq Apps /\ selected \subseteq Apps /\ roots \subseteq Apps
    /\ mark \in [App \union Check -> {"new", "open", "done"}]
    /\ stack \in Seq(Frame) /\ ordered \in Seq(Apps)
    /\ shown \in 0 .. Len(ordered)

\* The port arithmetic may wrap in 16 and in 32 bits; still a document is
\* accepted exactly if its names are distinct, its checks and accounts are
\* complete and its manifest is Loadable: every window fits and no port is
\* claimed twice.
AcceptsTheLoadable ==
    pc \in {"select", "invalid"} =>
       (pc = "select" <=> /\ UniqueNames(doc)
                          /\ \A i \in DOMAIN doc.checks : doc.checks[i].target
                          /\ \A i \in DOMAIN doc.apps : doc.apps[i].known
                          /\ Loadable(Read(doc)))

\* The work list finds the least set of apps that has the named ones and, with
\* an app, the apps that one depends on; also around a cycle.
SelectsTheClosure ==
    pc \in {"order", "cycle", "show", "done"} => selected = SelectApps(Read(doc), only)

\* Before an app in the order come all the apps it depends on, and no app
\* comes twice.
StartOrder ==
    \A i \in DOMAIN ordered :
       /\ \A d \in Deps(ordered[i]) \intersect Apps : \E j \in 1 .. i - 1 : ordered[j] = d
       /\ \A j \in 1 .. i - 1 : ordered[j] # ordered[i]

\* A cycle is reported only if the document has one, and a plan is printed
\* only of all the apps, and if it has none.
Knot(S) == S # {} /\ \A a \in S : Deps(a) \intersect S # {}
CyclesAreFound ==
    /\ pc = "cycle" => \E S \in SUBSET Apps : Knot(S)
    /\ pc = "done" => /\ \A S \in SUBSET Apps : ~ Knot(S)
                      /\ Apps \subseteq {ordered[i] : i \in DOMAIN ordered}

\* The ports shown are those the instances get: the selected apps are shown,
\* each once, and no range is empty, overlaps another or hides a replica, even
\* where the sum passes the largest port.
PortsShown ==
    pc = "done" =>
       /\ {lines[i].app : i \in DOMAIN lines} = SelectApps(Read(doc), only)
       /\ \A i, j \in DOMAIN lines : lines[i].app = lines[j].app => i = j
       /\ \A i \in DOMAIN lines :
             lines[i].first .. lines[i].last =
                {PortOf(Read(doc), lines[i].app, r) :
                    r \in 0 .. EntryOf(doc, lines[i].app).replicas - 1}

\* However the apps depend on each other, the command comes to an end.
PlanEnds == <>(pc \in {"invalid", "unknown", "cycle", "done"})

=============================================================================
