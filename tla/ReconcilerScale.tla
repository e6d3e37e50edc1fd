---------------------------- MODULE ReconcilerScale ----------------------------
(***************************************************************************)
(* The control loop when the operator only scales, adds and removes apps:  *)
(* the manifests agree on what each app is, and give each slot a port that *)
(* no other slot of any of them has.  It implements Cluster.               *)
(***************************************************************************)
EXTENDS Reconciler

ASSUME SameApps ==
    \A m, n \in Manifests : \A a \in m.apps \intersect n.apps :
        m.cfg[a].spec = n.cfg[a].spec /\ m.cfg[a].port = n.cfg[a].port

ASSUME DisjointPorts ==
    \A m, n \in Manifests : \A a \in m.apps, b \in n.apps :
        \A r \in 0 .. m.cfg[a].replicas - 1, q \in 0 .. n.cfg[b].replicas - 1 :
            PortOf(m, a, r) = PortOf(n, b, q) => a = b /\ r = q

\* What an instance means for its slot.
CellOf(r) == CASE r.proc = "none"   -> "waiting"
               [] r.proc = "exited" -> "dead"
               [] OTHER             -> IF r.sig = "none" THEN "live" ELSE "stopping"
CellAt(s) == IF OfSlot(s) = {} THEN "empty"
             ELSE CellOf(inst[CHOOSE i \in OfSlot(s) : TRUE])

Slots == INSTANCE Cluster WITH
            Slot   <- Slot,
            Goals  <- (SUBSET Slot) \ {{}},
            wanted <- Desired,
            cell   <- [s \in Slot |-> CellAt(s)],
            open   <- pc \notin {"teardown", "down"}

\* The loop implements the promise: through edits, half-written files, crashes,
\* failed probes and stops, a slot gets a new child only while it is wanted and
\* its last child is gone, no child is forgotten before it has exited or stopped
\* twice, and the set of wanted slots never becomes empty.
ImplementsCluster == Slots!Spec

=============================================================================
