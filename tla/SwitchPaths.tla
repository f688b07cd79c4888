----------------------------- MODULE SwitchPaths -----------------------------
(***************************************************************************)
(* What the shortest-path functions of ControllerApp (src/controller.py)   *)
(* are to compute: paths of a switch graph g, g[a][b] being the port of    *)
(* switch a towards its neighbour b, None when they are not neighbours.    *)
(* Topology routes by these definitions; Routing runs the two algorithms   *)
(* step by step and is checked against them.                               *)
(***************************************************************************)
EXTENDS Naturals, FiniteSets

CONSTANTS
    Dpid,   \* switches
    None    \* an absent entry of a dictionary

\* Simple paths of n switches from s to t.
Paths(g, s, t, n) ==
    {q \in [1..n -> Dpid] :
        /\ q[1] = s
        /\ q[n] = t
        /\ \A k \in 1..(n - 1) : g[q[k]][q[k + 1]] # None
        /\ \A j, k \in 1..n : q[j] = q[k] => j = k}

\* Switch t is n - 1 hops from s by some path; both are keys ns of the graph.
Reachable(g, ns, s, t, n) == s \in ns /\ t \in ns /\ Paths(g, s, t, n) # {}

\* The paths with the fewest hops; none when t cannot be reached.
ShortestPaths(g, ns, s, t) ==
    IF s = t THEN {[k \in 1..1 |-> s]}
    ELSE UNION {Paths(g, s, t, n) :
                    n \in {n \in 2..Cardinality(Dpid) :
                              /\ Reachable(g, ns, s, t, n)
                              /\ \A k \in 2..(n - 1) : ~Reachable(g, ns, s, t, k)}}

\* The port of switch d towards the switch that follows it on path q.
HopPort(g, q, d) ==
    LET k == CHOOSE k \in DOMAIN q : q[k] = d IN g[d][q[k + 1]]

=============================================================================
