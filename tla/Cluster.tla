-------------------------------- MODULE Cluster --------------------------------
(***************************************************************************)
(* What `artzain up` promises of the slots it manages, with no loop, no    *)
(* files, no timers and no probes: which slots are wanted changes as the   *)
(* operator edits; each slot holds at most one child, which lives, is      *)
(* asked to stop at most once, exits, and is noticed; a slot is filled     *)
(* only while it is wanted, and emptied only when its child is gone.       *)
(* ReconcilerScale implements it: see Slots there.                         *)
(***************************************************************************)
CONSTANTS
    Slot,       \* <<app, replica>>
    Goals       \* the sets of slots an operator may ask for

VARIABLES
    wanted,     \* the slots to fill
    cell,       \* what each slot holds
    open        \* FALSE once the cluster is being shut down

vars == <<wanted, cell, open>>

\* No child: "empty", or "waiting" (for a backoff, a dependency, a check).
\* A child: "live", "stopping" (it was sent SIGTERM), or "dead", not reaped yet.
Cell == {"empty", "waiting", "live", "stopping", "dead"}

Init ==
    /\ wanted \in Goals
    /\ cell = [s \in Slot |-> "empty"]
    /\ open = TRUE

\* The ways one slot moves.
Launch(s) == /\ open /\ s \in wanted
             /\ cell[s] \in {"empty", "waiting"} /\ cell'[s] = "live"
Await(s)  == open /\ s \in wanted /\ cell[s] = "empty" /\ cell'[s] = "waiting"
Halt(s)   == cell[s] = "live" /\ cell'[s] = "stopping"
Exit(s)   == cell[s] \in {"live", "stopping"} /\ cell'[s] = "dead"
Harvest(s) == cell[s] = "dead" /\ cell'[s] \in {"waiting", "empty"}
Vacate(s) == s \notin wanted /\ cell[s] = "waiting" /\ cell'[s] = "empty"

\* A handler moves many slots in one step, each in one of those ways.
Move ==
    /\ cell' = [s \in Slot |-> cell'[s]]
    /\ \A s \in Slot : \/ cell'[s] = cell[s]
                       \/ Launch(s) \/ Await(s) \/ Halt(s) \/ Exit(s)
                       \/ Harvest(s) \/ Vacate(s)
    /\ UNCHANGED <<wanted, open>>
Edit == wanted' \in Goals /\ UNCHANGED <<cell, open>>
Close ==
    /\ open /\ open' = FALSE
    /\ cell' = [s \in Slot |-> IF cell[s] = "live" THEN "stopping" ELSE cell[s]]
    /\ UNCHANGED wanted

Next == Move \/ Edit \/ Close
Spec == Init /\ [][Next]_vars

=============================================================================
