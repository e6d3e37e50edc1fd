--------------------------------- MODULE MCPlan ---------------------------------
(* Small documents: two apps with any ports and numbers of replicas, or three *)
(* apps with any dependencies.                                               *)
EXTENDS Plan
CONSTANTS a, b, c, k

Entry(n, p, r, D) == [name |-> n, port |-> p, replicas |-> r, deps |-> D, known |-> TRUE]
Target(n, t) == [name |-> n, target |-> t]

\* Any ports, with names that may collide.
PortDocs ==
    {[apps |-> <<Entry(a, p, r, {})>>, checks |-> <<>>] :
        p \in Port, r \in 0 .. WordSpace - 1}
    \union
    {[apps |-> <<Entry(a, p, r, {}), Entry(n, q, s, {})>>, checks |-> <<>>] :
        n \in {a, b}, p \in Port, q \in Port,
        r \in 0 .. WordSpace - 1, s \in 0 .. WordSpace - 1}

\* Any dependencies among three apps.
GraphDocs ==
    {[apps |-> <<Entry(a, 0, 1, D), Entry(b, 1, 2, E), Entry(c, 3, 1, F)>>,
      checks |-> <<Target(k, TRUE)>>] :
        D \in SUBSET {a, b, c, k}, E \in SUBSET {a, b, c}, F \in SUBSET {a, b, c}}

\* What else may be wrong with a document.
OddDocs ==
    {[apps |-> <<[Entry(a, 0, 1, {n}) EXCEPT !.known = u]>>,
      checks |-> <<Target(x, t)>>] :
        n \in {a, b, k}, x \in {a, k}, u \in BOOLEAN, t \in BOOLEAN}

MCDocs == PortDocs \union GraphDocs \union OddDocs
MCOnlys == {{}, {a}, {b, c}}
=============================================================================
