------------------------------- MODULE Routing -------------------------------
(***************************************************************************)
(* The two shortest-path functions of ControllerApp (src/controller.py),   *)
(* step by step: _dijkstra, over a heap, and _bellman_ford, over rounds.   *)
(* Links weigh one hop.  The order in which a dictionary lists the         *)
(* switches, which is the order they joined in, is an input; a distance    *)
(* that is None is infinite.                                               *)
(*                                                                         *)
(* An operator whose name starts with Fault_ is a plausible mistake in the *)
(* operator that follows it; no specification uses it.                     *)
(***************************************************************************)
EXTENDS SwitchPaths, Naturals, Sequences, FiniteSets

CONSTANT Orders   \* the orders in which a dictionary of the graph lists its keys

ASSUME RoutingAssumption ==
    /\ Dpid \subseteq Nat
    /\ IsFiniteSet(Dpid)
    /\ None \notin Nat
    /\ \A o \in Orders :
          /\ o \in Seq(Dpid)
          /\ \A i, j \in DOMAIN o : o[i] = o[j] => i = j

VARIABLES
    algorithm,   \* ROUTING_ALGORITHM
    graph,       \* self.graph: graph[a][b] is the port of a towards b
    order,       \* the keys of self.graph, in the order of the dictionary
    src, dst,    \* the arguments
    pc,          \* where the function stands
    dist,        \* dist
    prev,        \* prev[v] = <<prev_node[v], prev_port[v]>>
    pq,          \* the heap of Dijkstra
    round, pos,  \* the two loops of Bellman-Ford
    updated,     \* its flag
    curr, path,  \* the walk back, and the hops it has found
    result       \* what the function returns

input == <<algorithm, graph, order, src, dst>>
search == <<dist, prev, pq, round, pos, updated>>
walk == <<curr, path>>
vars == <<input, pc, search, walk, result>>

Nodes == {order[k] : k \in DOMAIN order}

\* The port of a switch towards a neighbour, here named after the neighbour.
LinkGraph(links) ==
    [a \in Dpid |-> [b \in Dpid |-> IF {a, b} \in links THEN b ELSE None]]

\* The graphs the event handlers can leave: links join keys, both ways.
Init ==
    /\ algorithm \in {"dijkstra", "bellman_ford"}
    /\ order \in Orders
    /\ \E links \in SUBSET {l \in SUBSET Nodes : Cardinality(l) = 2} :
           graph = LinkGraph(links)
    /\ src \in Dpid
    /\ dst \in Dpid
    /\ pc = "call"
    /\ dist = [v \in Dpid |-> None]
    /\ prev = [v \in Dpid |-> <<None, None>>]
    /\ pq = {}
    /\ round = 1
    /\ pos = 1
    /\ updated = FALSE
    /\ curr = dst
    /\ path = <<>>
    /\ result = None

Return(r) == pc' = "done" /\ result' = r

\* The early returns, and the initial distances.
Call ==
    /\ pc = "call"
    /\ \/ /\ src = dst
          /\ Return(<<>>)
          /\ UNCHANGED dist
       \/ /\ src # dst
          /\ ~({src, dst} \subseteq Nodes)
          /\ Return(None)
          /\ UNCHANGED dist
       \/ /\ src # dst
          /\ {src, dst} \subseteq Nodes
          /\ pc' = algorithm
          /\ dist' = [dist EXCEPT ![src] = 0]
          /\ UNCHANGED result
    /\ pq' = IF pc' = "dijkstra" THEN {<<0, src>>} ELSE {}
    /\ UNCHANGED <<input, prev, round, pos, updated, walk>>

-----------------------------------------------------------------------------
Fault_Closer(u, v, d) == graph[u][v] # None

\* Neighbour v of u is reached over u by a shorter path than any so far.
Closer(u, v, d) == graph[u][v] # None /\ (dist[v] = None \/ d + 1 < dist[v])

Fault_Relax(u, d) ==
    /\ dist' = [v \in Dpid |-> IF Closer(u, v, d) THEN d + 1 ELSE dist[v]]
    /\ prev' = [v \in Dpid |-> IF Closer(u, v, d) THEN <<u, None>> ELSE prev[v]]

\* What relaxing every link of u at distance d makes of dist and prev.
Relax(u, d) ==
    /\ dist' = [v \in Dpid |-> IF Closer(u, v, d) THEN d + 1 ELSE dist[v]]
    /\ prev' = [v \in Dpid |-> IF Closer(u, v, d) THEN <<u, graph[u][v]>> ELSE prev[v]]

Fault_Least(e, f) == TRUE

\* Entry e of the heap comes out before f: tuples compare in this order.
Least(e, f) == e[1] < f[1] \/ (e[1] = f[1] /\ e[2] <= f[2])

Fault_Rest(e) == pq

\* The heap once e is taken out of it.
Rest(e) == pq \ {e}

\* One turn of the loop of _dijkstra.
Pop ==
    /\ pc = "dijkstra"
    /\ \E e \in pq :
          LET d == e[1]
              u == e[2]
          IN  /\ \A f \in pq : Least(e, f)
              /\ IF u = dst \/ d > dist[u]
                 THEN /\ pc' = IF d > dist[u] THEN pc ELSE "walk"
                      /\ pq' = Rest(e)
                      /\ UNCHANGED <<dist, prev>>
                 ELSE /\ Relax(u, d)
                      /\ pq' = Rest(e) \cup {<<d + 1, v>> : v \in {v \in Dpid : Closer(u, v, d)}}
                      /\ UNCHANGED pc
    /\ UNCHANGED <<input, round, pos, updated, walk, result>>

\* The heap is empty.
Exhausted ==
    /\ pc = "dijkstra"
    /\ pq = {}
    /\ pc' = "walk"
    /\ UNCHANGED <<input, search, walk, result>>

\* The links of the next switch, in the inner loop of _bellman_ford.
Scan ==
    /\ pc = "bellman_ford"
    /\ pos <= Len(order)
    /\ LET u == order[pos]
       IN  IF dist[u] = None THEN UNCHANGED <<dist, prev, updated>>
           ELSE /\ Relax(u, dist[u])
                /\ updated' = (updated \/ \E v \in Dpid : Closer(u, v, dist[u]))
    /\ pos' = pos + 1
    /\ UNCHANGED <<input, pc, pq, round, walk, result>>

Rounds == Len(order) - 1

\* The end of a round: the last one, or one that changed nothing.
EndRound ==
    /\ pc = "bellman_ford"
    /\ pos > Len(order)
    /\ IF round = Rounds \/ ~updated
       THEN pc' = "walk" /\ UNCHANGED <<round, pos, updated>>
       ELSE round' = round + 1 /\ pos' = 1 /\ updated' = FALSE /\ UNCHANGED pc
    /\ UNCHANGED <<input, dist, prev, pq, walk, result>>

\* One step back from the destination, or the end of the function.
WalkBack ==
    /\ pc = "walk"
    /\ IF dist[dst] = None THEN Return(None) /\ UNCHANGED walk
       ELSE IF curr = src THEN Return(path) /\ UNCHANGED walk
       ELSE /\ path' = <<prev[curr]>> \o path
            /\ curr' = prev[curr][1]
            /\ UNCHANGED <<pc, result>>
    /\ UNCHANGED <<input, search>>

Next == Call \/ Pop \/ Exhausted \/ Scan \/ EndRound \/ WalkBack

\* The function runs on until it returns.
Spec == Init /\ [][Next]_vars /\ WF_vars(Next)

-----------------------------------------------------------------------------
(***************************************************************************)
(* Correctness.                                                            *)
(***************************************************************************)

TypeOK ==
    /\ pc \in {"call", "dijkstra", "bellman_ford", "walk", "done"}
    /\ dist \in [Dpid -> Nat \cup {None}]
    /\ prev \in [Dpid -> (Dpid \X Dpid) \cup {<<None, None>>}]
    /\ pq \subseteq Nat \X Dpid
    /\ round \in Nat \ {0} /\ pos \in Nat \ {0}
    /\ curr \in Dpid
    /\ path \in Seq(Dpid \X Dpid)
    /\ result = None \/ result \in Seq(Dpid \X Dpid)

\* The hops along path q: each of its switches but the last, with its port.
Hops(q) == [k \in 1..(Len(q) - 1) |-> <<q[k], graph[q[k]][q[k + 1]]>>]

\* Whatever the graph and the order of the dictionary, the function returns
\* the hops of a path with the fewest hops, and None exactly when there is no
\* path: the early exits of both loops lose none (_dijkstra, _bellman_ford).
ResultIsShortest ==
    LET best == ShortestPaths(graph, Nodes, src, dst)
    IN  pc = "done" =>
            IF best = {} THEN result = None ELSE result \in {Hops(q) : q \in best}

\* The predecessors lead from every switch reached back towards the source,
\* over links and at strictly smaller distances, although they are replaced
\* while the search runs: the walk back reads no missing entry and does not
\* go in circles (the prev_node and prev_port loops).
PredecessorsLeadBack ==
    \A v \in Dpid \ {src} : dist[v] # None =>
        LET u == prev[v][1]
        IN  /\ u # None
            /\ graph[u][v] # None /\ prev[v][2] = graph[u][v]
            /\ dist[u] # None /\ dist[u] < dist[v]

\* The stages of a call; either search is the second.
Stage == [call |-> 0, dijkstra |-> 1, bellman_ford |-> 1, walk |-> 2, done |-> 3]

\* What the heap holds and what it may still be given: an entry is pushed only
\* if it beats the distance known.
Pending ==
    pq \cup {e \in (0..Cardinality(Dpid)) \X Dpid : dist[e[2]] = None \/ e[1] < dist[e[2]]}

\* Every turn of a loop brings it nearer to its end, although distances change
\* under it and the heap is pushed to: Dijkstra uses up an entry for good, even
\* an outdated one, Bellman-Ford goes through its bounded rounds, and the walk
\* back comes nearer to the source (_dijkstra, _bellman_ford).
EveryTurnCounts ==
    [][\/ Stage[pc'] > Stage[pc]
       \/ pc = "dijkstra" /\ Pending' \subseteq Pending /\ Pending' # Pending
       \/ /\ pc = "bellman_ford" /\ round' <= Rounds /\ pos' <= Len(order) + 1
          /\ round' > round \/ (round' = round /\ pos' > pos)
       \/ pc = "walk" /\ dist[curr'] # None /\ dist[curr'] < dist[curr]]_vars

\* The function returns on every graph (both loops, and the walk back).
Returns == <>(pc = "done")

=============================================================================
