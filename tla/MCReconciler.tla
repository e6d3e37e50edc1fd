----------------------------- MODULE MCReconciler -----------------------------
(***************************************************************************)
(* Small clusters for TLC.                                                 *)
(***************************************************************************)
EXTENDS Reconciler

Server(v) == [ver |-> v, ready |-> TRUE, live |-> TRUE]
Worker(v) == [ver |-> v, ready |-> FALSE, live |-> FALSE]
Absent == [replicas |-> 0, port |-> 0, spec |-> Worker("v1"), deps |-> {}]
Cfg(n, p, spec, deps) == [replicas |-> n, port |-> p, spec |-> spec, deps |-> deps]
File(apps, cfg, checks, surge) ==
    [apps |-> apps, cfg |-> cfg, checks |-> checks, surge |-> surge]

\* One server app of n replicas at version v.
OneApp(n, v, surge) ==
    File({"web"}, [a \in App |-> Cfg(n, 0, Server(v), {})], {}, surge)

\* What a file that is half written, or does not parse, reads as.
Broken == File({}, [a \in App |-> Absent], {}, 0)

\* Scaling one app between one and two replicas.
ScaleFiles == {OneApp(1, "v1", 0), OneApp(2, "v1", 0), Broken}
ScaleFirst == OneApp(2, "v1", 0)

\* A server that a worker depends on, with and without the worker; both need
\* the check "db".
PairFile(apps) ==
    File(apps, [a \in App |-> IF a = "api"
                              THEN Cfg(1, 0, Server("v1"), {"db"})
                              ELSE Cfg(1, 1, Worker("v1"), {"api", "db"})],
         {"db"}, 0)
PairFiles == {PairFile({"api", "job"}), PairFile({"api"}), Broken}
PairFirst == PairFile({"api", "job"})

\* Editing the version of one app.
EditFiles(n, surge) == {OneApp(n, "v1", surge), OneApp(n, "v2", surge)}
EditOne == EditFiles(1, 0)
EditAny == EditFiles(1, 0) \union {OneApp(1, "v2", 1)}
EditOneFirst == OneApp(1, "v1", 0)
EditTwo == EditFiles(2, 0)
EditTwoFirst == OneApp(2, "v1", 0)

\* An operator who saves the manifest only while the cluster is settled.
PatientNext == Next /\ (disk' # disk => Settled)
PatientSpec == Init /\ [][PatientNext]_vars

=============================================================================
