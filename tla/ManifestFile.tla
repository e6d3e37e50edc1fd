----------------------------- MODULE ManifestFile -----------------------------
(***************************************************************************)
(* What artzain.toml declares, and what the program takes from it          *)
(* (artzain-core/src/manifest.rs, select_apps of reconcile.rs): the shape  *)
(* of a manifest, which ones are accepted, which apps a --only list means. *)
(* Plan shows that the code's algorithms compute these operators.          *)
(***************************************************************************)
EXTENDS Integers

CONSTANTS
    App,            \* names of apps
    Check,          \* names of external checks
    Version,        \* what an app's bin, args, env, ... may be
    MaxReplicas,    \* most replicas an app declares
    PortSpace       \* number of ports: 2^16 in the program

Port == 0 .. PortSpace - 1
Launch == [ver : Version, ready : BOOLEAN, live : BOOLEAN]
AppConfig == [replicas : 0 .. MaxReplicas, port : Port, spec : Launch,
              deps : SUBSET (App \union Check)]
Manifest == [apps : SUBSET App, checks : SUBSET Check,
             cfg : [App -> AppConfig], surge : Nat]

\* The port of replica r: a u16 sum.
PortOf(m, a, r) == (m.cfg[a].port + r) % PortSpace

\* Manifest::validate: replicas, port windows, dependencies, no port twice.
Loadable(m) ==
    \A a \in m.apps :
       /\ m.cfg[a].replicas > 0
       /\ m.cfg[a].port + m.cfg[a].replicas <= PortSpace
       /\ m.cfg[a].deps \subseteq m.apps \union m.checks
       /\ \A b \in m.apps \ {a} :
             \A r \in 0 .. m.cfg[a].replicas - 1, s \in 0 .. m.cfg[b].replicas - 1 :
                PortOf(m, a, r) # PortOf(m, b, s)

\* select_apps: the named apps with all they depend on, or every app.
Closed(m, S) == \A a \in S : m.cfg[a].deps \intersect m.apps \subseteq S
SelectApps(m, only) ==
    IF only = {}
    THEN m.apps
    ELSE {a \in m.apps :
            \A S \in SUBSET m.apps : only \subseteq S /\ Closed(m, S) => a \in S}

=============================================================================
