--------------------------- MODULE RoutingProofs ---------------------------
(***************************************************************************)
(* Proofs about Routing: its types, that the predecessors lead back, that  *)
(* both algorithms return a shortest path, and that they come to an end.   *)
(***************************************************************************)
EXTENDS Routing, TLAPS, FiniteSetTheorems, WellFoundedInduction

\* The arguments, and a graph whose ports are named after the neighbour.
InputOK ==
    /\ algorithm \in {"dijkstra", "bellman_ford"}
    /\ order \in Seq(Dpid)
    /\ src \in Dpid /\ dst \in Dpid
    /\ graph \in [Dpid -> [Dpid -> Dpid \cup {None}]]
    /\ \A a, b \in Dpid : graph[a][b] # None => {a, b} \subseteq Nodes

\* Distances start at the source, and the heap holds none below the present.
DistancesOK ==
    /\ pc = "call" => pq = {} /\ \A v \in Dpid : dist[v] = None
    /\ pc \in {"dijkstra", "bellman_ford", "walk"} => dist[src] = 0
    /\ \A e \in pq : dist[e[2]] # None /\ dist[e[2]] <= e[1]

\* The walk back comes only to switches that were reached.
WalkOK == curr = dst \/ dist[curr] # None

Inv == TypeOK /\ InputOK /\ DistancesOK /\ PredecessorsLeadBack /\ WalkOK

-----------------------------------------------------------------------------
\* Relaxing the links of a reached switch u keeps what is known of distances
\* and predecessors, lowers distances only, and leaves u's alone.
LEMMA RelaxStep ==
    ASSUME dist \in [Dpid -> Nat \cup {None}],
           prev \in [Dpid -> (Dpid \X Dpid) \cup {<<None, None>>}],
           InputOK, PredecessorsLeadBack, dist[src] = 0,
           NEW u \in Dpid, dist[u] # None, Relax(u, dist[u])
    PROVE  /\ dist' \in [Dpid -> Nat \cup {None}]
           /\ prev' \in [Dpid -> (Dpid \X Dpid) \cup {<<None, None>>}]
           /\ \A v \in Dpid : dist[v] # None => dist'[v] # None /\ dist'[v] <= dist[v]
           /\ \A v \in Dpid : dist'[v] = IF Closer(u, v, dist[u]) THEN dist[u] + 1 ELSE dist[v]
           /\ dist'[u] = dist[u]
           /\ dist'[src] = 0
           /\ graph' = graph /\ src' = src => PredecessorsLeadBack'
<1>0. None \notin Nat /\ Dpid \subseteq Nat
  BY RoutingAssumption
<1>1. dist[u] \in Nat
  OBVIOUS
<1>2. \A v \in Dpid : Closer(u, v, dist[u]) => graph[u][v] \in Dpid
  BY DEF InputOK, Closer
<1>3. dist' = [v \in Dpid |-> IF Closer(u, v, dist[u]) THEN dist[u] + 1 ELSE dist[v]]
  BY DEF Relax
<1>4. prev' = [v \in Dpid |-> IF Closer(u, v, dist[u]) THEN <<u, graph[u][v]>> ELSE prev[v]]
  BY DEF Relax
<1>5. dist' \in [Dpid -> Nat \cup {None}]
  BY <1>1, <1>3
<1>6. prev' \in [Dpid -> (Dpid \X Dpid) \cup {<<None, None>>}]
  BY <1>2, <1>4
<1>7. ASSUME NEW v \in Dpid, dist[v] # None
      PROVE  dist'[v] # None /\ dist'[v] <= dist[v]
  BY <1>0, <1>1, <1>3, <1>7 DEF Closer
<1>8. \A v \in Dpid : dist'[v] = IF Closer(u, v, dist[u]) THEN dist[u] + 1 ELSE dist[v]
  BY <1>3
<1>9. dist'[src] = 0
  BY <1>0, <1>1, <1>3 DEF Closer, InputOK
<1>10. dist'[u] = dist[u]
  BY <1>1, <1>3 DEF Closer
<1>11. ASSUME graph' = graph, src' = src, NEW v \in Dpid \ {src}, dist'[v] # None
       PROVE  /\ prev'[v][1] # None
              /\ graph[prev'[v][1]][v] # None /\ prev'[v][2] = graph[prev'[v][1]][v]
              /\ dist'[prev'[v][1]] # None /\ dist'[prev'[v][1]] < dist'[v]
  <2>1. CASE Closer(u, v, dist[u])
    <3>1. prev'[v] = <<u, graph[u][v]>> /\ dist'[v] = dist[u] + 1
      BY <2>1, <1>3, <1>4
    <3>2. graph[u][v] # None
      BY <2>1 DEF Closer
    <3> QED BY <3>1, <3>2, <1>0, <1>1, <1>10
  <2>2. CASE ~Closer(u, v, dist[u])
    <3>1. prev'[v] = prev[v] /\ dist'[v] = dist[v]
      BY <2>2, <1>3, <1>4
    <3>2. /\ prev[v][1] # None
          /\ graph[prev[v][1]][v] # None /\ prev[v][2] = graph[prev[v][1]][v]
          /\ dist[prev[v][1]] # None /\ dist[prev[v][1]] < dist[v]
      BY <3>1, <1>11 DEF PredecessorsLeadBack
    <3>3. prev[v][1] \in Dpid
      BY <3>2
    <3>4. dist'[prev[v][1]] # None /\ dist'[prev[v][1]] <= dist[prev[v][1]]
      BY <3>2, <3>3, <1>7
    <3>5. dist[prev[v][1]] \in Nat /\ dist[v] \in Nat /\ dist'[prev[v][1]] \in Nat
      BY <3>1, <3>2, <3>3, <3>4, <1>5, <1>11
    <3> QED BY <3>1, <3>2, <3>4, <3>5
  <2> QED BY <2>1, <2>2
<1>12. graph' = graph /\ src' = src => PredecessorsLeadBack'
  BY <1>11 DEF PredecessorsLeadBack
<1> QED BY <1>5, <1>6, <1>7, <1>8, <1>9, <1>10, <1>12

\* Where distances stay defined, the walk back stays on switches reached.
LEMMA WalkKept ==
    ASSUME InputOK, curr \in Dpid, WalkOK, UNCHANGED <<input, walk>>,
           \A v \in Dpid : dist[v] # None => dist'[v] # None
    PROVE  WalkOK'
  BY DEF WalkOK, InputOK, Nodes, input, walk

-----------------------------------------------------------------------------
LEMMA CallStep == ASSUME Inv, Call PROVE Inv'
<1>0. None \notin Nat /\ Dpid \subseteq Nat
  BY RoutingAssumption
<1>1. InputOK'
  BY DEF Call, Inv, InputOK, Nodes, input
<1>2. \A v \in Dpid : dist[v] = None
  BY DEF Inv, DistancesOK, Call
<1>3. CASE UNCHANGED dist /\ Return(<<>>) /\ pq' = {}
  <2>1. TypeOK'
    BY <1>3 DEF Call, Inv, TypeOK, Return, walk
  <2>2. DistancesOK' /\ PredecessorsLeadBack' /\ WalkOK'
    BY <1>2, <1>3 DEF Call, Inv, TypeOK, InputOK, Return, walk, DistancesOK, PredecessorsLeadBack, WalkOK, input
  <2> QED BY <1>1, <2>1, <2>2 DEF Inv
<1>4. CASE UNCHANGED dist /\ Return(None) /\ pq' = {}
  <2>1. TypeOK'
    BY <1>4 DEF Call, Inv, TypeOK, Return, walk
  <2>2. DistancesOK' /\ PredecessorsLeadBack' /\ WalkOK'
    BY <1>2, <1>4 DEF Call, Inv, TypeOK, InputOK, Return, walk, DistancesOK, PredecessorsLeadBack, WalkOK, input
  <2> QED BY <1>1, <2>1, <2>2 DEF Inv
<1>5. CASE /\ pc' = algorithm
           /\ dist' = [dist EXCEPT ![src] = 0] /\ UNCHANGED result
           /\ pq' \in {{<<0, src>>}, {}}
  <2>1. dist' \in [Dpid -> Nat \cup {None}] /\ dist'[src] = 0
    BY <1>5 DEF Inv, TypeOK, InputOK
  <2>2. \A v \in Dpid \ {src} : dist'[v] = None
    BY <1>2, <1>5 DEF Inv, TypeOK, InputOK
  <2>3. src \in Dpid /\ src' = src
    BY DEF Inv, InputOK, Call, input
  <2>4. TypeOK'
    BY <1>5, <2>1, <2>3, <1>0 DEF Call, Inv, TypeOK, InputOK, walk
  <2>5. DistancesOK'
    BY <1>5, <2>1, <2>3, <1>0 DEF DistancesOK, Inv, InputOK
  <2>6. PredecessorsLeadBack'
    BY <2>2, <2>3 DEF PredecessorsLeadBack
  <2>7. WalkOK'
    BY <1>2 DEF Call, Inv, TypeOK, walk, WalkOK, input
  <2> QED BY <1>1, <2>4, <2>5, <2>6, <2>7 DEF Inv
<1> QED BY <1>3, <1>4, <1>5 DEF Call, Return

LEMMA PopStep == ASSUME Inv, Pop PROVE Inv'
<1>0. None \notin Nat /\ Dpid \subseteq Nat
  BY RoutingAssumption
<1>1. InputOK' /\ UNCHANGED <<input, walk>>
  BY DEF Pop, Inv, InputOK, Nodes, input
<1>2. PICK e \in pq :
         IF e[2] = dst \/ e[1] > dist[e[2]]
         THEN /\ pc' = IF e[1] > dist[e[2]] THEN pc ELSE "walk"
              /\ pq' = pq \ {e}
              /\ UNCHANGED <<dist, prev>>
         ELSE /\ Relax(e[2], e[1])
              /\ pq' = (pq \ {e}) \cup {<<e[1] + 1, v>> : v \in {v \in Dpid : Closer(e[2], v, e[1])}}
              /\ UNCHANGED pc
  BY DEF Pop, Rest
<1>3. /\ e[1] \in Nat /\ e[2] \in Dpid
      /\ dist[e[2]] # None /\ dist[e[2]] <= e[1] /\ dist[e[2]] \in Nat
  BY DEF Inv, TypeOK, DistancesOK
<1>4. dist[src] = 0 /\ pc = "dijkstra"
  BY DEF Pop, Inv, DistancesOK
<1>5. CASE e[2] = dst \/ e[1] > dist[e[2]]
  <2>1. TypeOK' /\ DistancesOK'
    BY <1>1, <1>2, <1>4, <1>5 DEF Inv, TypeOK, DistancesOK, Pop, walk, input
  <2>2. PredecessorsLeadBack'
    BY <1>1, <1>2, <1>5 DEF Inv, PredecessorsLeadBack, input
  <2>3. WalkOK'
    BY <1>1, <1>2, <1>5, WalkKept DEF Inv, TypeOK
  <2> QED BY <1>1, <2>1, <2>2, <2>3 DEF Inv
<1>6. CASE ~(e[2] = dst \/ e[1] > dist[e[2]])
  <2>1. e[1] = dist[e[2]]
    BY <1>3, <1>6
  <2>2. /\ Relax(e[2], dist[e[2]])
        /\ pq' = (pq \ {e}) \cup {<<dist[e[2]] + 1, v>> : v \in {v \in Dpid : Closer(e[2], v, dist[e[2]])}}
        /\ UNCHANGED pc
    BY <1>2, <1>6, <2>1
  <2>3. /\ dist' \in [Dpid -> Nat \cup {None}]
        /\ prev' \in [Dpid -> (Dpid \X Dpid) \cup {<<None, None>>}]
        /\ \A v \in Dpid : dist[v] # None => dist'[v] # None /\ dist'[v] <= dist[v]
        /\ \A v \in Dpid : dist'[v] = IF Closer(e[2], v, dist[e[2]]) THEN dist[e[2]] + 1 ELSE dist[v]
        /\ dist'[src] = 0
        /\ graph' = graph /\ src' = src => PredecessorsLeadBack'
    BY <1>3, <1>4, <2>2, RelaxStep DEF Inv, TypeOK
  <2>4. TypeOK'
    BY <1>1, <1>3, <2>2, <2>3 DEF Inv, TypeOK, Pop, walk
  <2>5. ASSUME NEW f \in pq' PROVE dist'[f[2]] # None /\ dist'[f[2]] <= f[1]
    <3>1. CASE f \in pq
      <4>1. /\ f[1] \in Nat /\ f[2] \in Dpid
            /\ dist[f[2]] # None /\ dist[f[2]] <= f[1] /\ dist[f[2]] \in Nat
        BY <3>1 DEF Inv, TypeOK, DistancesOK
      <4>2. dist'[f[2]] # None /\ dist'[f[2]] <= dist[f[2]] /\ dist'[f[2]] \in Nat
        BY <2>3, <4>1
      <4> QED BY <4>1, <4>2
    <3>2. CASE f \notin pq
      <4>1. PICK v \in Dpid : Closer(e[2], v, dist[e[2]]) /\ f = <<dist[e[2]] + 1, v>>
        BY <2>2, <3>2
      <4>2. dist'[f[2]] = dist[e[2]] + 1 /\ f[1] = dist[e[2]] + 1
        BY <2>3, <4>1
      <4> QED BY <4>2, <1>0, <1>3
    <3> QED BY <3>1, <3>2
  <2>6. DistancesOK'
    BY <1>1, <1>4, <2>2, <2>3, <2>5 DEF DistancesOK, input
  <2>7. WalkOK'
    BY <1>1, <2>3, WalkKept DEF Inv, TypeOK
  <2> QED BY <1>1, <2>3, <2>4, <2>6, <2>7 DEF Inv, input
<1> QED BY <1>5, <1>6

LEMMA ExhaustedStep == ASSUME Inv, Exhausted PROVE Inv'
<1>1. UNCHANGED <<input, search, walk, result>> /\ pc' = "walk" /\ pc = "dijkstra"
  BY DEF Exhausted
<1>2. TypeOK' /\ InputOK' /\ DistancesOK'
  BY <1>1 DEF Inv, TypeOK, InputOK, Nodes, DistancesOK, input, search, walk
<1>3. PredecessorsLeadBack' /\ WalkOK'
  BY <1>1 DEF Inv, PredecessorsLeadBack, WalkOK, input, search, walk
<1> QED BY <1>2, <1>3 DEF Inv

LEMMA ScanStep == ASSUME Inv, Scan PROVE Inv'
<1> DEFINE u == order[pos]
<1>1. InputOK' /\ UNCHANGED <<input, walk, pc, pq>>
  BY DEF Scan, Inv, InputOK, Nodes, input
<1>2. dist[src] = 0 /\ pc = "bellman_ford"
  BY DEF Scan, Inv, DistancesOK
<1>3. CASE dist[u] = None
  <2>1. UNCHANGED <<dist, prev>>
    BY <1>3 DEF Scan
  <2>2. TypeOK' /\ DistancesOK'
    BY <1>1, <2>1 DEF Inv, TypeOK, DistancesOK, Scan, walk, input
  <2>3. PredecessorsLeadBack' /\ WalkOK'
    BY <1>1, <2>1 DEF Inv, PredecessorsLeadBack, WalkOK, input, walk
  <2> QED BY <1>1, <2>2, <2>3 DEF Inv
<1>4. CASE dist[u] # None
  <2>1. u \in Dpid
    BY DEF Inv, TypeOK, InputOK, Scan
  <2>2. Relax(u, dist[u])
    BY <1>4 DEF Scan
  <2> HIDE DEF u
  <2>3. /\ dist' \in [Dpid -> Nat \cup {None}]
        /\ prev' \in [Dpid -> (Dpid \X Dpid) \cup {<<None, None>>}]
        /\ \A v \in Dpid : dist[v] # None => dist'[v] # None /\ dist'[v] <= dist[v]
        /\ dist'[src] = 0
        /\ graph' = graph /\ src' = src => PredecessorsLeadBack'
    BY <1>2, <1>4, <2>1, <2>2, RelaxStep DEF Inv, TypeOK
  <2>4. TypeOK'
    BY <1>1, <2>3 DEF Inv, TypeOK, Scan, walk
  <2>5. ASSUME NEW f \in pq PROVE dist'[f[2]] # None /\ dist'[f[2]] <= f[1]
    <3>1. /\ f[1] \in Nat /\ f[2] \in Dpid
          /\ dist[f[2]] # None /\ dist[f[2]] <= f[1] /\ dist[f[2]] \in Nat
      BY DEF Inv, TypeOK, DistancesOK
    <3>2. dist'[f[2]] # None /\ dist'[f[2]] <= dist[f[2]] /\ dist'[f[2]] \in Nat
      BY <2>3, <3>1
    <3> QED BY <3>1, <3>2
  <2>6. DistancesOK'
    BY <1>1, <1>2, <2>3, <2>5 DEF DistancesOK, input
  <2>7. WalkOK'
    BY <1>1, <2>3, WalkKept DEF Inv, TypeOK
  <2> QED BY <1>1, <2>3, <2>4, <2>6, <2>7 DEF Inv, input
<1> QED BY <1>3, <1>4

LEMMA EndRoundStep == ASSUME Inv, EndRound PROVE Inv'
<1>1. /\ UNCHANGED <<input, dist, prev, pq, walk, result>> /\ pc' \in {pc, "walk"} /\ pc = "bellman_ford"
      /\ round' \in Nat \ {0} /\ pos' \in Nat \ {0}
  BY DEF EndRound, Inv, TypeOK
<1>2. TypeOK' /\ InputOK' /\ DistancesOK'
  BY <1>1 DEF Inv, TypeOK, InputOK, Nodes, DistancesOK, input, walk
<1>3. PredecessorsLeadBack' /\ WalkOK'
  BY <1>1 DEF Inv, PredecessorsLeadBack, WalkOK, input, walk
<1> QED BY <1>2, <1>3 DEF Inv

LEMMA WalkBackStep == ASSUME Inv, WalkBack PROVE Inv'
<1>0. None \notin Nat /\ Dpid \subseteq Nat
  BY RoutingAssumption
<1>1. UNCHANGED <<input, search>> /\ pc = "walk"
  BY DEF WalkBack
<1>2. InputOK' /\ PredecessorsLeadBack'
  BY <1>1 DEF Inv, InputOK, Nodes, PredecessorsLeadBack, input, search
<1>3. DistancesOK'
  BY <1>1 DEF Inv, DistancesOK, WalkBack, Return, input, search
<1>4. CASE UNCHANGED walk /\ (Return(None) \/ Return(path))
  <2>1. TypeOK'
    BY <1>1, <1>4 DEF Inv, TypeOK, Return, walk, search
  <2>2. WalkOK'
    BY <1>1, <1>4 DEF Inv, WalkOK, walk, search, input
  <2> QED BY <1>2, <1>3, <2>1, <2>2 DEF Inv
<1>5. CASE /\ dist[dst] # None /\ curr # src
           /\ path' = <<prev[curr]>> \o path
           /\ curr' = prev[curr][1]
           /\ UNCHANGED <<pc, result>>
  <2>1. curr \in Dpid \ {src} /\ dist[curr] # None
    BY <1>5 DEF Inv, TypeOK, WalkOK
  <2>2. prev[curr][1] # None /\ dist[prev[curr][1]] # None
    BY <2>1 DEF Inv, PredecessorsLeadBack
  <2>3. prev[curr] \in Dpid \X Dpid
    BY <2>1, <2>2 DEF Inv, TypeOK
  <2>4. path' \in Seq(Dpid \X Dpid)
    BY <1>5, <2>3 DEF Inv, TypeOK
  <2>5. TypeOK'
    BY <1>1, <1>5, <2>3, <2>4 DEF Inv, TypeOK, search
  <2>6. WalkOK'
    BY <1>1, <1>5, <2>2 DEF WalkOK, search, input
  <2> QED BY <1>2, <1>3, <2>5, <2>6 DEF Inv
<1> QED BY <1>4, <1>5 DEF WalkBack

-----------------------------------------------------------------------------
\* The invariant holds in every reachable state.
LEMMA Invariance == Spec => []Inv
<1>1. Init => Inv
  <2> SUFFICES ASSUME Init PROVE Inv
    OBVIOUS
  <2>1. PICK links \in SUBSET {l \in SUBSET Nodes : Cardinality(l) = 2} : graph = LinkGraph(links)
    BY DEF Init
  <2>2. InputOK
    BY <2>1, RoutingAssumption DEF Init, InputOK, Nodes, LinkGraph
  <2>3. TypeOK
    BY DEF Init, TypeOK
  <2>4. DistancesOK /\ PredecessorsLeadBack /\ WalkOK
    BY DEF Init, DistancesOK, PredecessorsLeadBack, WalkOK
  <2> QED BY <2>2, <2>3, <2>4 DEF Inv
<1>2. Inv /\ [Next]_vars => Inv'
  <2> SUFFICES ASSUME Inv, [Next]_vars PROVE Inv'
    OBVIOUS
  <2>1. CASE UNCHANGED vars
    <3>1. TypeOK' /\ InputOK' /\ DistancesOK'
      BY <2>1 DEF Inv, TypeOK, InputOK, Nodes, DistancesOK, vars, input, search, walk
    <3>2. PredecessorsLeadBack' /\ WalkOK'
      BY <2>1 DEF Inv, PredecessorsLeadBack, WalkOK, vars, input, search, walk
    <3> QED BY <3>1, <3>2 DEF Inv
  <2> QED BY <2>1, CallStep, PopStep, ExhaustedStep, ScanStep, EndRoundStep, WalkBackStep DEF Next
<1> QED BY <1>1, <1>2, PTL DEF Spec

\* Every reachable state of a search has its type: the walk back, in
\* particular, never leaves the switches.
THEOREM TypeCorrect == Spec => []TypeOK
<1>1. Inv => TypeOK
  BY DEF Inv
<1> QED BY <1>1, Invariance, PTL

\* On every graph, by both algorithms, the predecessors lead from each switch
\* reached back towards the source at strictly smaller distances.
THEOREM AlwaysLeadsBack == Spec => []PredecessorsLeadBack
<1>1. Inv => PredecessorsLeadBack
  BY DEF Inv
<1> QED BY <1>1, Invariance, PTL

-----------------------------------------------------------------------------
(***************************************************************************)
(* The result is a shortest path.                                          *)
(***************************************************************************)

\* Paths from the source that may meet a switch twice.
Walks(n) ==
    {q \in [1..n -> Dpid] :
        q[1] = src /\ \A k \in 1..(n - 1) : graph[q[k]][q[k + 1]] # None}

\* Switch v was reached in at most n hops.
Within(v, n) == dist[v] # None /\ dist[v] <= n

\* No link of u gives a shorter path than those known.
Relaxed(u) == \A v \in Dpid : graph[u][v] # None => dist[v] # None /\ dist[v] <= dist[u] + 1

\* The heap has come past v.
Settled(v) == dist[v] # None /\ <<dist[v], v>> \notin pq

\* Dijkstra: the links of what the heap has come past are relaxed, and what is
\* left in the heap is no nearer.
Heaped ==
    pc = "dijkstra" =>
        \A u \in Dpid : Settled(u) => Relaxed(u) /\ \A e \in pq : dist[u] <= e[1]

\* The switches the inner loop of Bellman-Ford has come past.
Scanned == {order[i] : i \in {i \in DOMAIN order : i < pos}}

\* Bellman-Ford: after r - 1 rounds every walk of r - 1 hops is accounted for,
\* and those of r hops whose last link has been scanned; a round that has
\* changed nothing leaves nothing to relax.
Rounded ==
    /\ pc = "call" => round = 1 /\ pos = 1
    /\ pc = "bellman_ford" =>
          /\ pq = {}
          /\ \A n \in 1..(round + 1) : \A q \in Walks(n) :
                n <= round \/ q[n - 1] \in Scanned => Within(q[n], n - 1)
          /\ ~updated => \A u \in Scanned : dist[u] # None => Relaxed(u)

\* The search has found the distance of the destination.
Found ==
    pc = "walk" =>
        \A n \in Nat \ {0} : \A q \in Paths(graph, src, dst, n) : Within(dst, n - 1)

\* The switches of the path that the walk back has found so far.
Stop(k) == IF k <= Len(path) THEN path[k][1] ELSE dst

\* That path leads from where the walk stands to the destination, along links,
\* at growing distances, and is as short as the distances say.
Walked ==
    /\ pc \in {"call", "dijkstra", "bellman_ford"} => path = <<>> /\ curr = dst
    /\ (pc = "walk" /\ dist[dst] # None) =>
          /\ curr = Stop(1)
          /\ dist[curr] + Len(path) <= dist[dst]
          /\ \A k \in 1..(Len(path) + 1) : Stop(k) \in Dpid /\ dist[Stop(k)] # None
          /\ \A k \in 1..Len(path) :
                /\ path[k] = <<Stop(k), graph[Stop(k)][Stop(k + 1)]>>
                /\ graph[Stop(k)][Stop(k + 1)] # None
          /\ \A j, k \in 1..(Len(path) + 1) : j < k => dist[Stop(j)] < dist[Stop(k)]

\* Only different keys of the graph are searched.
Ends == pc \in {"dijkstra", "bellman_ford", "walk"} => src # dst /\ {src, dst} \subseteq Nodes

Shortest == Heaped /\ Rounded /\ Found /\ Walked /\ Ends /\ ResultIsShortest

-----------------------------------------------------------------------------
\* A set of numbers has a least one.
LEMMA Minimum ==
    ASSUME NEW T \in SUBSET Nat, T # {}
    PROVE  \E n \in T : \A m \in T : n <= m
<1>1. IsWellFoundedOn(OpToRel(<, Nat), Nat)
  BY NatLessThanWellFounded
<1>2. PICK n \in T : \A m \in T : <<m, n>> \notin OpToRel(<, Nat)
  BY <1>1, WFMin
<1>3. \A m \in T : ~(m < n)
  BY <1>2 DEF OpToRel
<1> QED BY <1>3

\* Where all that is settled is relaxed, a walk ends at a settled switch within
\* its length, or the heap has an entry within that length.
LEMMA WalkIsCovered ==
    ASSUME TypeOK, InputOK, dist[src] = 0,
           \A u \in Dpid : Settled(u) => Relaxed(u),
           NEW n \in Nat \ {0}, NEW q \in Walks(n)
    PROVE  \/ Settled(q[n]) /\ Within(q[n], n - 1)
           \/ \E e \in pq : e[1] <= n - 1
<1> DEFINE Bad == {k \in 1..n : ~(Settled(q[k]) /\ Within(q[k], k - 1))}
<1>0. None \notin Nat
  BY RoutingAssumption
<1>1. /\ q \in [1..n -> Dpid] /\ q[1] = src
      /\ \A k \in 1..(n - 1) : graph[q[k]][q[k + 1]] # None
  BY DEF Walks
<1>2. CASE Bad = {}
  BY <1>2
<1>3. CASE Bad # {}
  <2>1. PICK k \in Bad : \A j \in Bad : k <= j
    <3>1. Bad \in SUBSET Nat
      OBVIOUS
    <3> HIDE DEF Bad
    <3> QED BY <3>1, <1>3, Minimum
  <2>2. k \in 1..n /\ q[k] \in Dpid
    BY <1>1
  <2>3. Within(q[k], k - 1)
    <3>1. CASE k = 1
      BY <3>1, <1>0, <1>1 DEF Within
    <3>2. CASE k > 1
      <4>1. k - 1 \in 1..n /\ k - 1 \notin Bad
        BY <3>2, <2>1, <2>2
      <4>2. q[k - 1] \in Dpid /\ Settled(q[k - 1]) /\ Within(q[k - 1], k - 2)
        BY <4>1, <1>1
      <4>3. graph[q[k - 1]][q[k]] # None
        BY <4>1, <1>1, <2>2
      <4>4. dist[q[k]] # None /\ dist[q[k]] <= dist[q[k - 1]] + 1
        BY <4>2, <4>3, <2>2 DEF Relaxed
      <4>5. dist[q[k - 1]] \in Nat /\ dist[q[k]] \in Nat /\ dist[q[k - 1]] <= k - 2
        BY <4>2, <4>4, <2>2 DEF TypeOK, Within
      <4> QED BY <4>4, <4>5, <2>2 DEF Within
    <3> QED BY <2>2, <3>1, <3>2
  <2>4. <<dist[q[k]], q[k]>> \in pq
    BY <2>1, <2>3 DEF Settled, Within
  <2>5. dist[q[k]] \in Nat /\ dist[q[k]] <= n - 1
    BY <2>2, <2>3 DEF TypeOK, Within
  <2> QED BY <2>4, <2>5
<1> QED BY <1>2, <1>3

\* A path is a walk, has two switches at least, and no more than the dictionary
\* has keys, nor than there are switches.
LEMMA PathFits ==
    ASSUME InputOK, src # dst, NEW n \in Nat \ {0}, NEW q \in Paths(graph, src, dst, n)
    PROVE  /\ q \in Walks(n) /\ q[n] = dst
           /\ n >= 2 /\ n <= Len(order) /\ n <= Cardinality(Dpid)
<1>1. /\ q \in [1..n -> Dpid] /\ q[1] = src /\ q[n] = dst
      /\ \A k \in 1..(n - 1) : graph[q[k]][q[k + 1]] # None
      /\ \A j, k \in 1..n : q[j] = q[k] => j = k
  BY DEF Paths
<1>2. n >= 2
  BY <1>1
<1>3. \A k \in 1..n : q[k] \in Nodes
  <2>1. ASSUME NEW k \in 1..n PROVE q[k] \in Nodes
    <3>1. CASE k < n
      BY <3>1, <1>1, <1>2 DEF InputOK
    <3>2. CASE k = n
      <4>1. n - 1 \in 1..(n - 1) /\ (n - 1) + 1 = n
        BY <1>2
      <4>2. graph[q[n - 1]][q[n]] # None
        BY <1>1, <4>1
      <4> QED BY <3>2, <4>1, <4>2, <1>1 DEF InputOK
    <3> QED BY <3>1, <3>2
  <2> QED BY <2>1
<1>4. \A m \in Nat : IsFiniteSet(1..m) /\ Cardinality(1..m) = m
  <2>1. ASSUME NEW m \in Nat PROVE IsFiniteSet(1..m) /\ Cardinality(1..m) = m
    BY FS_Interval
  <2> QED BY <2>1
<1>5. n <= Cardinality(Dpid)
  <2>1. IsFiniteSet(Dpid) /\ Cardinality(Dpid) \in Nat
    BY RoutingAssumption, FS_CardinalityType
  <2>2. ~(Cardinality(Dpid) < Cardinality(1..n))
    BY <1>1, <1>4, <2>1, FS_PigeonHole
  <2> QED BY <1>4, <2>1, <2>2
<1>6. n <= Len(order)
  <2> DEFINE f == [k \in 1..n |-> CHOOSE i \in DOMAIN order : order[i] = q[k]]
  <2>1. Len(order) \in Nat /\ DOMAIN order = 1..Len(order)
    BY DEF InputOK
  <2>2. IsFiniteSet(1..Len(order)) /\ Cardinality(1..Len(order)) = Len(order)
    BY <1>4, <2>1
  <2>3. \A k \in 1..n : f[k] \in 1..Len(order) /\ order[f[k]] = q[k]
    BY <1>3, <2>1 DEF Nodes
  <2>4. f \in [1..n -> 1..Len(order)]
    BY <2>3
  <2>5. \A j, k \in 1..n : f[j] = f[k] => j = k
    BY <1>1, <2>3
  <2> HIDE DEF f
  <2>6. ~(Cardinality(1..Len(order)) < Cardinality(1..n))
    BY <1>4, <2>2, <2>4, <2>5, FS_PigeonHole
  <2> QED BY <1>4, <2>1, <2>2, <2>6
<1> QED BY <1>1, <1>2, <1>5, <1>6 DEF Walks

-----------------------------------------------------------------------------
(***************************************************************************)
(* Each step keeps Shortest, given the types before and after.             *)
(***************************************************************************)

\* What does not move the walk back keeps its facts, while it has not begun.
LEMMA WalkNotBegun ==
    ASSUME Walked, UNCHANGED <<input, walk>>,
           pc \in {"call", "dijkstra", "bellman_ford"}, Inv', pc' # "call"
    PROVE  Walked'
<1>0. None \notin Nat /\ Dpid \subseteq Nat
  BY RoutingAssumption
<1>1. path' = <<>> /\ curr' = dst'
  BY DEF Walked, input, walk
<1>2. Len(path') = 0 /\ 1..Len(path') = {} /\ 1..(Len(path') + 1) = {1}
  BY <1>1
<1>3. \A k \in 1..(Len(path') + 1) : k = 1
  BY <1>2
<1>4. Stop(1)' = dst'
  BY <1>2 DEF Stop
<1>5. dst' \in Dpid /\ dist' \in [Dpid -> Nat \cup {None}]
  BY DEF Inv, InputOK, TypeOK
<1> HIDE DEF Stop
<1>6. dist'[curr'] # None => dist'[curr'] + Len(path') <= dist'[dst']
  BY <1>1, <1>2, <1>5
<1>7. ASSUME NEW j \in 1..(Len(path') + 1), NEW k \in 1..(Len(path') + 1), j < k PROVE FALSE
  BY <1>3, <1>7
<1> QED BY <1>1, <1>2, <1>3, <1>4, <1>5, <1>6, <1>7 DEF Walked

LEMMA CallShortest == ASSUME Inv, Inv', Shortest, Call PROVE Shortest'
<1>0. None \notin Nat /\ Dpid \subseteq Nat /\ None \notin Dpid
  BY RoutingAssumption
<1>1. /\ UNCHANGED <<input, prev, round, pos, updated, walk>> /\ pc = "call"
      /\ Nodes' = Nodes /\ src' = src /\ dst' = dst /\ graph' = graph
  BY DEF Call, input, Nodes
<1>2. pc' # "call" /\ pc' # "walk"
  BY DEF Call, Return, Inv, InputOK
<1>3. Walked'
  BY <1>1, <1>2, WalkNotBegun DEF Shortest
<1>4. Found'
  BY <1>2 DEF Found
<1>5. Ends'
  BY <1>1, <1>2 DEF Call, Return, Ends
<1>6. Heaped'
  <2> SUFFICES ASSUME pc' = "dijkstra", NEW u \in Dpid, Settled(u)' PROVE FALSE
    BY DEF Heaped
  <2>1. dist' = [dist EXCEPT ![src] = 0] /\ pq' = {<<0, src>>}
    BY DEF Call, Return
  <2>2. \A v \in Dpid : dist[v] = None
    BY <1>1 DEF Inv, DistancesOK
  <2> QED BY <2>1, <2>2, <1>0 DEF Settled, Inv, TypeOK, InputOK
<1>7. Rounded'
  <2> SUFFICES ASSUME pc' = "bellman_ford"
               PROVE  /\ pq' = {}
                      /\ \A n \in 1..(round' + 1) : \A q \in Walks(n)' :
                            n <= round' \/ q[n - 1] \in Scanned' => Within(q[n], n - 1)'
                      /\ ~updated' => \A u \in Scanned' : dist'[u] # None => Relaxed(u)'
    BY <1>2 DEF Rounded
  <2>1. round' = 1 /\ pos' = 1
    BY <1>1 DEF Shortest, Rounded
  <2>2. Scanned' = {}
    BY <2>1, <1>1 DEF Scanned, Inv, InputOK
  <2>3. dist' = [dist EXCEPT ![src] = 0] /\ pq' = {}
    BY DEF Call, Return
  <2>4. \A n \in 1..(round' + 1) : n <= round' => n = 1
    BY <2>1
  <2>5. ASSUME NEW q \in Walks(1)' PROVE Within(q[1], 0)'
    <3>1. q[1] = src
      BY <2>5, <1>1 DEF Walks
    <3> QED BY <3>1, <2>3, <1>0 DEF Within, Inv, TypeOK, InputOK
  <2> QED BY <2>1, <2>2, <2>3, <2>4, <2>5
<1>8. ResultIsShortest'
  <2> SUFFICES ASSUME pc' = "done"
               PROVE  LET best == ShortestPaths(graph, Nodes, src, dst)
                      IN  IF best = {} THEN result' = None
                          ELSE result' \in {Hops(q) : q \in best}
    BY <1>1 DEF ResultIsShortest, Hops
  <2>1. CASE src = dst
    <3>1. ShortestPaths(graph, Nodes, src, dst) = {[k \in 1..1 |-> src]}
      BY <2>1 DEF ShortestPaths
    <3>2. result' = <<>>
      BY <2>1 DEF Call, Return
    <3>3. Hops([k \in 1..1 |-> src]) = <<>>
      BY DEF Hops
    <3> QED BY <3>1, <3>2, <3>3
  <2>2. CASE src # dst
    <3>1. ~({src, dst} \subseteq Nodes) /\ result' = None
      BY <2>2 DEF Call, Return, Inv, InputOK
    <3>2. ShortestPaths(graph, Nodes, src, dst) = {}
      BY <2>2, <3>1 DEF ShortestPaths, Reachable
    <3> QED BY <3>1, <3>2
  <2> QED BY <2>1, <2>2
<1> QED BY <1>3, <1>4, <1>5, <1>6, <1>7, <1>8 DEF Shortest

\* The search ends where no entry of the heap is nearer than the destination.
LEMMA SearchEnds ==
    ASSUME TypeOK, InputOK, dist[src] = 0, src # dst,
           \A u \in Dpid : Settled(u) => Relaxed(u),
           dist[dst] # None => \A e \in pq : dist[dst] <= e[1],
           dist[dst] = None => pq = {},
           NEW n \in Nat \ {0}, NEW q \in Paths(graph, src, dst, n)
    PROVE  Within(dst, n - 1)
<1>1. q \in Walks(n) /\ q[n] = dst
  BY PathFits
<1>2. CASE Settled(q[n]) /\ Within(q[n], n - 1)
  BY <1>1, <1>2
<1>3. CASE \E e \in pq : e[1] <= n - 1
  <2>1. PICK e \in pq : e[1] <= n - 1
    BY <1>3
  <2>2. dist[dst] # None /\ dist[dst] <= e[1]
    BY <2>1
  <2>3. dist[dst] \in Nat /\ e[1] \in Nat
    BY <2>2 DEF TypeOK, InputOK
  <2> QED BY <2>1, <2>2, <2>3 DEF Within
<1> QED BY <1>1, <1>2, <1>3, WalkIsCovered

LEMMA PopShortest == ASSUME Inv, Inv', Shortest, Pop PROVE Shortest'
<1>0. None \notin Nat /\ Dpid \subseteq Nat
  BY RoutingAssumption
<1>1. /\ UNCHANGED <<input, walk>> /\ pc = "dijkstra" /\ pc' \in {"dijkstra", "walk"}
      /\ Nodes' = Nodes /\ src' = src /\ dst' = dst /\ graph' = graph
  BY DEF Pop, input, Nodes
<1>2. PICK e \in pq :
         /\ \A f \in pq : e[1] <= f[1]
         /\ IF e[2] = dst \/ e[1] > dist[e[2]]
            THEN /\ pc' = IF e[1] > dist[e[2]] THEN pc ELSE "walk"
                 /\ pq' = pq \ {e}
                 /\ UNCHANGED <<dist, prev>>
            ELSE /\ Relax(e[2], e[1])
                 /\ pq' = (pq \ {e}) \cup {<<e[1] + 1, v>> : v \in {v \in Dpid : Closer(e[2], v, e[1])}}
                 /\ UNCHANGED pc
  <2>1. \A e, f \in pq : Least(e, f) => e[1] <= f[1]
    BY DEF Least, Inv, TypeOK
  <2> QED BY <2>1 DEF Pop, Rest
<1>3. /\ e[1] \in Nat /\ e[2] \in Dpid /\ e = <<e[1], e[2]>>
      /\ dist[e[2]] # None /\ dist[e[2]] <= e[1] /\ dist[e[2]] \in Nat
  BY DEF Inv, TypeOK, DistancesOK
<1>4. dist[src] = 0 /\ src # dst
  BY <1>1 DEF Inv, DistancesOK, Shortest, Ends
<1>5. Ends' /\ Rounded' /\ ResultIsShortest'
  BY <1>1 DEF Shortest, Ends, Rounded, ResultIsShortest
<1>6. Walked'
  BY <1>1, WalkNotBegun DEF Shortest
<1>7. \A u \in Dpid : Settled(u) => Relaxed(u) /\ \A f \in pq : dist[u] <= f[1]
  BY <1>1 DEF Shortest, Heaped
<1>8. CASE e[1] > dist[e[2]]
  <2>1. pc' = "dijkstra" /\ pq' = pq \ {e} /\ dist' = dist
    BY <1>1, <1>2, <1>8
  <2>2. ASSUME NEW u \in Dpid, Settled(u)' PROVE Settled(u)
    BY <2>1, <2>2, <1>3, <1>8 DEF Settled
  <2>3. ASSUME NEW u \in Dpid, Relaxed(u) PROVE Relaxed(u)'
    BY <2>1, <2>3, <1>1 DEF Relaxed
  <2>4. Heaped'
    BY <2>1, <2>2, <2>3, <1>7 DEF Heaped
  <2>5. Found'
    BY <2>1 DEF Found
  <2> QED BY <2>4, <2>5, <1>5, <1>6 DEF Shortest
<1>9. CASE e[2] = dst /\ ~(e[1] > dist[e[2]])
  <2>1. pc' = "walk" /\ dist' = dist
    BY <1>2, <1>9
  <2>2. dist[dst] = e[1]
    BY <1>3, <1>9
  <2>3. ASSUME NEW n \in Nat \ {0}, NEW q \in Paths(graph, src, dst, n) PROVE Within(dst, n - 1)
    BY <2>2, <1>2, <1>3, <1>4, <1>7, <1>9, SearchEnds DEF Inv
  <2>4. Found'
    BY <2>1, <2>3, <1>1 DEF Found, Within
  <2>5. Heaped'
    BY <2>1 DEF Heaped
  <2> QED BY <2>4, <2>5, <1>5, <1>6 DEF Shortest
<1>10. CASE e[2] # dst /\ ~(e[1] > dist[e[2]])
  <2> DEFINE w == e[2]
             d == e[1]
  <2>1. d = dist[w] /\ dist[w] # None /\ w \in Dpid /\ d \in Nat
    BY <1>3, <1>10
  <2>2. /\ Relax(w, dist[w])
        /\ pq' = (pq \ {e}) \cup {<<d + 1, v>> : v \in {v \in Dpid : Closer(w, v, d)}}
        /\ pc' = "dijkstra"
    BY <1>1, <1>2, <1>10, <2>1
  <2>3. e = <<d, w>>
    BY <1>3
  <2>4. \A f \in pq : d <= f[1] /\ f[1] \in Nat
    BY <1>2 DEF Inv, TypeOK
  <2> HIDE DEF w, d
  <2>5. /\ \A v \in Dpid : dist[v] # None => dist'[v] # None /\ dist'[v] <= dist[v]
        /\ \A v \in Dpid : dist'[v] = IF Closer(w, v, d) THEN d + 1 ELSE dist[v]
        /\ dist'[w] = d
    BY <1>3, <1>4, <2>1, <2>2, RelaxStep DEF Inv, TypeOK
  <2>6. \A v \in Dpid : (dist[v] # None => dist[v] \in Nat) /\ (dist'[v] # None => dist'[v] \in Nat)
    BY DEF Inv, TypeOK
  <2>7. \A f \in pq' : f \in pq \/ f[1] = d + 1
    BY <2>2
  <2>8. Relaxed(w)' /\ \A f \in pq' : dist'[w] <= f[1]
    <3>1. \A f \in pq' : dist'[w] <= f[1]
      BY <2>1, <2>4, <2>5, <2>7
    <3>2. ASSUME NEW v \in Dpid, graph[w][v] # None
          PROVE  dist'[v] # None /\ dist'[v] <= d + 1
      <4>1. CASE Closer(w, v, d)
        BY <4>1, <2>1, <2>5, <1>0
      <4>2. CASE ~Closer(w, v, d)
        <5>1. dist[v] # None /\ ~(d + 1 < dist[v])
          BY <3>2, <4>2 DEF Closer
        <5> QED BY <5>1, <4>2, <2>1, <2>5, <2>6
      <4> QED BY <4>1, <4>2
    <3> QED BY <3>1, <3>2, <2>5, <1>1 DEF Relaxed
  <2>9. ASSUME NEW u \in Dpid, u # w, Settled(u)'
        PROVE  Relaxed(u)' /\ \A f \in pq' : dist'[u] <= f[1]
    <3>1. ~Closer(w, u, d)
      <4>1. SUFFICES ASSUME Closer(w, u, d) PROVE FALSE
        OBVIOUS
      <4>2. dist'[u] = d + 1 /\ <<d + 1, u>> \in pq'
        BY <4>1, <2>2, <2>5
      <4> QED BY <4>2, <2>9 DEF Settled
    <3>2. dist'[u] = dist[u]
      BY <3>1, <2>5
    <3>3. <<dist[u], u>> # e
      BY <2>3, <2>9
    <3>4. Settled(u)
      BY <3>2, <3>3, <2>2, <2>9 DEF Settled
    <3>5. Relaxed(u) /\ \A f \in pq : dist[u] <= f[1]
      BY <3>4, <1>7
    <3>6. dist[u] \in Nat /\ dist[u] <= d
      BY <3>4, <3>5, <2>6, <2>3 DEF Settled
    <3>7. \A f \in pq' : dist'[u] <= f[1]
      BY <3>2, <3>5, <3>6, <2>1, <2>7
    <3>8. ASSUME NEW v \in Dpid, graph[u][v] # None
          PROVE  dist'[v] # None /\ dist'[v] <= dist[u] + 1
      <4>1. dist[v] # None /\ dist[v] <= dist[u] + 1
        BY <3>5, <3>8 DEF Relaxed
      <4>2. dist'[v] # None /\ dist'[v] <= dist[v]
        BY <4>1, <2>5
      <4> QED BY <4>1, <4>2, <3>6, <2>6
    <3> QED BY <3>2, <3>7, <3>8, <1>1 DEF Relaxed
  <2>10. Heaped'
    BY <2>8, <2>9, <2>1 DEF Heaped
  <2>11. Found'
    BY <2>2 DEF Found
  <2> QED BY <2>10, <2>11, <1>5, <1>6 DEF Shortest
<1> QED BY <1>8, <1>9, <1>10

LEMMA ExhaustedShortest == ASSUME Inv, Inv', Shortest, Exhausted PROVE Shortest'
<1>1. /\ UNCHANGED <<input, search, walk, result>> /\ pc = "dijkstra" /\ pc' = "walk" /\ pq = {}
      /\ Nodes' = Nodes /\ src' = src /\ dst' = dst /\ graph' = graph /\ dist' = dist
  BY DEF Exhausted, input, search, Nodes
<1>2. dist[src] = 0 /\ src # dst
  BY <1>1 DEF Inv, DistancesOK, Shortest, Ends
<1>3. Ends' /\ Rounded' /\ ResultIsShortest' /\ Heaped'
  BY <1>1 DEF Shortest, Ends, Rounded, ResultIsShortest, Heaped
<1>4. Walked'
  BY <1>1, WalkNotBegun DEF Shortest
<1>5. ASSUME NEW n \in Nat \ {0}, NEW q \in Paths(graph, src, dst, n) PROVE Within(dst, n - 1)
  BY <1>1, <1>2, SearchEnds DEF Inv, Shortest, Heaped
<1>6. Found'
  BY <1>1, <1>5 DEF Found, Within
<1> QED BY <1>3, <1>4, <1>6 DEF Shortest

LEMMA ScanShortest == ASSUME Inv, Inv', Shortest, Scan PROVE Shortest'
<1>0. None \notin Nat /\ Dpid \subseteq Nat
  BY RoutingAssumption
<1>1. /\ UNCHANGED <<input, walk, pc, pq, round>> /\ pc = "bellman_ford" /\ pos' = pos + 1
      /\ Nodes' = Nodes /\ src' = src /\ dst' = dst /\ graph' = graph
      /\ order \in Seq(Dpid) /\ pos \in 1..Len(order)
  BY DEF Scan, input, Nodes, Inv, TypeOK, InputOK
<1>2. dist[src] = 0 /\ src # dst
  BY <1>1 DEF Inv, DistancesOK, Shortest, Ends
<1>3. Ends' /\ Heaped' /\ Found' /\ ResultIsShortest'
  BY <1>1 DEF Shortest, Ends, Heaped, Found, ResultIsShortest
<1>4. Walked'
  BY <1>1, WalkNotBegun DEF Shortest
<1> PICK u \in Dpid : u = order[pos]
  BY <1>1
<1>5. Scanned' = Scanned \cup {u}
  <2>1. order' = order /\ DOMAIN order = 1..Len(order)
    BY <1>1 DEF input
  <2>2. \A i \in DOMAIN order : i < pos + 1 <=> i < pos \/ i = pos
    BY <1>1
  <2> QED BY <1>1, <2>1, <2>2 DEF Scanned
<1>6. /\ pq = {}
      /\ \A n \in 1..(round + 1) : \A q \in Walks(n) :
            n <= round \/ q[n - 1] \in Scanned => Within(q[n], n - 1)
      /\ ~updated => \A v \in Scanned : dist[v] # None => Relaxed(v)
  BY <1>1 DEF Shortest, Rounded
<1>7. IF dist[u] = None THEN UNCHANGED <<dist, prev, updated>>
      ELSE /\ Relax(u, dist[u])
           /\ updated' = (updated \/ \E v \in Dpid : Closer(u, v, dist[u]))
  BY DEF Scan
<1>8. /\ \A v \in Dpid : dist[v] # None => dist'[v] # None /\ dist'[v] <= dist[v]
      /\ dist[u] # None => Relaxed(u)' /\ dist'[u] = dist[u]
  <2>1. CASE dist[u] = None
    BY <2>1, <1>7 DEF Inv, TypeOK
  <2>2. CASE dist[u] # None
    <3>1. /\ \A v \in Dpid : dist[v] # None => dist'[v] # None /\ dist'[v] <= dist[v]
          /\ \A v \in Dpid : dist'[v] = IF Closer(u, v, dist[u]) THEN dist[u] + 1 ELSE dist[v]
          /\ dist'[u] = dist[u]
      BY <2>2, <1>2, <1>7, RelaxStep DEF Inv, TypeOK
    <3>2. dist[u] \in Nat
      BY <2>2, <1>2 DEF Inv, TypeOK
    <3>3. ASSUME NEW v \in Dpid, graph[u][v] # None
          PROVE  dist'[v] # None /\ dist'[v] <= dist[u] + 1
      <4>1. CASE Closer(u, v, dist[u])
        BY <4>1, <3>1, <3>2, <1>0
      <4>2. CASE ~Closer(u, v, dist[u])
        <5>1. dist[v] # None /\ ~(dist[u] + 1 < dist[v])
          BY <3>3, <4>2 DEF Closer
        <5>2. dist[v] \in Nat
          BY <5>1 DEF Inv, TypeOK
        <5> QED BY <5>1, <5>2, <4>2, <3>1, <3>2
      <4> QED BY <4>1, <4>2
    <3> QED BY <3>1, <3>3, <1>1 DEF Relaxed
  <2> QED BY <2>1, <2>2
<1>9. ASSUME NEW v \in Dpid, NEW n \in Nat, Within(v, n) PROVE Within(v, n)'
  <2>1. dist[v] \in Nat /\ dist'[v] \in Nat /\ dist'[v] # None /\ dist'[v] <= dist[v] /\ dist[v] <= n
    BY <1>8, <1>9 DEF Within, Inv, TypeOK
  <2> QED BY <2>1 DEF Within
<1>10. ASSUME NEW n \in 1..(round + 1), NEW q \in Walks(n), n <= round \/ q[n - 1] \in Scanned \cup {u}
       PROVE  Within(q[n], n - 1)'
  <2>0. round \in Nat \ {0} /\ n \in Nat \ {0} /\ n - 1 \in Nat
    BY DEF Inv, TypeOK
  <2>1. /\ q \in [1..n -> Dpid] /\ q[1] = src
        /\ \A k \in 1..(n - 1) : graph[q[k]][q[k + 1]] # None
    BY DEF Walks
  <2>2. q[n] \in Dpid
    BY <2>0, <2>1
  <2>3. CASE n <= round \/ q[n - 1] \in Scanned
    <3>1. Within(q[n], n - 1)
      BY <2>3, <1>6
    <3> QED BY <3>1, <2>0, <2>2, <1>9
  <2>4. CASE n = round + 1 /\ q[n - 1] = u
    <3> DEFINE r == [k \in 1..round |-> q[k]]
    <3>1. r \in Walks(round)
      <4>1. r \in [1..round -> Dpid] /\ r[1] = src
        BY <2>0, <2>1, <2>4
      <4>2. ASSUME NEW k \in 1..(round - 1) PROVE graph[r[k]][r[k + 1]] # None
        <5>1. k \in 1..round /\ k + 1 \in 1..round /\ k \in 1..(n - 1)
          BY <2>0, <2>4
        <5>2. r[k] = q[k] /\ r[k + 1] = q[k + 1]
          BY <5>1
        <5> QED BY <5>1, <5>2, <2>1
      <4> QED BY <4>1, <4>2 DEF Walks
    <3>2. r[round] = u
      BY <2>0, <2>4
    <3> HIDE DEF r
    <3>3. Within(u, round - 1)
      BY <3>1, <3>2, <1>6, <2>0
    <3>4. Relaxed(u)' /\ dist'[u] = dist[u] /\ dist[u] <= round - 1
      BY <3>3, <1>8 DEF Within
    <3>5. graph[u][q[n]] # None
      BY <2>0, <2>1, <2>4
    <3>6. dist'[q[n]] # None /\ dist'[q[n]] <= dist[u] + 1
      BY <3>4, <3>5, <2>2, <1>1 DEF Relaxed
    <3>7. dist[u] \in Nat /\ dist'[q[n]] \in Nat
      BY <3>3, <3>6, <2>2, <1>2 DEF Within, Inv, TypeOK
    <3> QED BY <3>4, <3>6, <3>7, <2>0, <2>4 DEF Within
  <2> QED BY <2>0, <2>3, <2>4, <1>10
<1>11. ASSUME ~updated', NEW v \in Scanned \cup {u}, dist'[v] # None PROVE Relaxed(v)'
  <2>1. dist' = dist
    <3>1. CASE dist[u] = None
      BY <3>1, <1>7
    <3>2. CASE dist[u] # None
      <4>1. \A x \in Dpid : ~Closer(u, x, dist[u])
        BY <3>2, <1>7, <1>11
      <4>2. dist' = [x \in Dpid |-> IF Closer(u, x, dist[u]) THEN dist[u] + 1 ELSE dist[x]]
        BY <3>2, <1>7 DEF Relax
      <4> QED BY <4>1, <4>2 DEF Inv, TypeOK
    <3> QED BY <3>1, <3>2
  <2>2. CASE v = u
    BY <2>1, <2>2, <1>8, <1>11
  <2>3. CASE v \in Scanned
    <3>1. ~updated
      BY <1>7, <1>11
    <3>2. Relaxed(v)
      BY <2>1, <2>3, <3>1, <1>6, <1>11
    <3> QED BY <3>2, <2>1, <1>1 DEF Relaxed
  <2> QED BY <2>2, <2>3
<1>12. \A n : Walks(n)' = Walks(n)
  BY <1>1 DEF Walks
<1>13. Rounded'
  BY <1>1, <1>5, <1>6, <1>10, <1>11, <1>12 DEF Rounded
<1> QED BY <1>3, <1>4, <1>13 DEF Shortest

LEMMA EndRoundShortest == ASSUME Inv, Inv', Shortest, EndRound PROVE Shortest'
<1>0. None \notin Nat /\ Dpid \subseteq Nat
  BY RoutingAssumption
<1>1. /\ UNCHANGED <<input, walk, pq, dist>> /\ pc = "bellman_ford"
      /\ pc' \in {"bellman_ford", "walk"}
      /\ Nodes' = Nodes /\ src' = src /\ dst' = dst /\ graph' = graph
      /\ order \in Seq(Dpid) /\ pos > Len(order)
  BY DEF EndRound, input, Nodes, Inv, InputOK
<1>2. dist[src] = 0 /\ src # dst
  BY <1>1 DEF Inv, DistancesOK, Shortest, Ends
<1>3. Ends' /\ Heaped' /\ ResultIsShortest'
  BY <1>1 DEF Shortest, Ends, Heaped, ResultIsShortest
<1>4. Walked'
  BY <1>1, WalkNotBegun DEF Shortest
<1>5. Scanned = Nodes
  BY <1>1 DEF Scanned, Nodes, Inv, TypeOK
<1>6. pq = {} /\ (~updated => \A v \in Nodes : dist[v] # None => Relaxed(v))
  BY <1>1, <1>5 DEF Shortest, Rounded
<1>7. round \in Nat \ {0}
  BY DEF Inv, TypeOK
<1>8. ASSUME NEW n \in 1..(round + 1), NEW q \in Walks(n) PROVE Within(q[n], n - 1)
  <2>1. n <= round \/ q[n - 1] \in Scanned => Within(q[n], n - 1)
    BY <1>1, <1>8 DEF Shortest, Rounded
  <2>2. CASE n = round + 1
    <3>1. n - 1 \in 1..(n - 1) /\ n - 1 \in 1..n /\ n \in 1..n /\ (n - 1) + 1 = n
      BY <2>2, <1>7
    <3>2. q \in [1..n -> Dpid] /\ graph[q[n - 1]][q[n]] # None
      BY <3>1 DEF Walks
    <3>3. q[n - 1] \in Nodes
      BY <3>1, <3>2 DEF Inv, InputOK
    <3> QED BY <3>3, <2>1, <1>5
  <2> QED BY <2>1, <2>2, <1>7
<1>9. CASE pc' = "walk"
  <2>1. round = Len(order) - 1 \/ ~updated
    BY <1>1, <1>9 DEF EndRound, Rounds
  <2>2. ASSUME NEW n \in Nat \ {0}, NEW q \in Paths(graph, src, dst, n) PROVE Within(dst, n - 1)
    <3>1. q \in Walks(n) /\ q[n] = dst /\ n <= Len(order)
      BY <1>2, PathFits DEF Inv
    <3>2. CASE round = Len(order) - 1
      <4>1. n \in 1..(round + 1)
        BY <3>1, <3>2, <1>1
      <4> QED BY <3>1, <4>1, <1>8
    <3>3. CASE ~updated
      <4>1. ASSUME NEW v \in Dpid, Settled(v) PROVE Relaxed(v)
        <5>1. CASE v \in Nodes
          BY <5>1, <4>1, <3>3, <1>6 DEF Settled
        <5>2. CASE v \notin Nodes
          BY <5>2, <4>1 DEF Relaxed, Inv, InputOK
        <5> QED BY <5>1, <5>2
      <4> QED BY <4>1, <1>2, <1>6, SearchEnds DEF Inv
    <3> QED BY <2>1, <3>2, <3>3
  <2>3. Found'
    BY <2>2, <1>1 DEF Found, Within
  <2>4. Rounded'
    BY <1>9 DEF Rounded
  <2> QED BY <2>3, <2>4, <1>3, <1>4 DEF Shortest
<1>10. CASE pc' = "bellman_ford"
  <2>1. round' = round + 1 /\ pos' = 1
    BY <1>10 DEF EndRound
  <2>2. Scanned' = {}
    BY <2>1, <1>1 DEF Scanned, Inv, InputOK, input
  <2>3. \A n : Walks(n)' = Walks(n)
    BY <1>1 DEF Walks
  <2>4. ASSUME NEW n \in 1..(round' + 1), NEW q \in Walks(n), n <= round' PROVE Within(q[n], n - 1)'
    <3>1. n \in 1..(round + 1)
      BY <2>1, <2>4, <1>7
    <3> QED BY <3>1, <1>1, <1>8 DEF Within
  <2>5. Rounded'
    BY <2>1, <2>2, <2>3, <2>4, <1>1, <1>6, <1>10 DEF Rounded
  <2>6. Found'
    BY <1>10 DEF Found
  <2> QED BY <2>5, <2>6, <1>3, <1>4 DEF Shortest
<1> QED BY <1>1, <1>9, <1>10

\* There is no path to a destination that was not reached.
LEMMA NoPath ==
    ASSUME Found, pc = "walk", src # dst, dist[dst] = None
    PROVE  ShortestPaths(graph, Nodes, src, dst) = {}
<1>1. ASSUME NEW n \in 2..Cardinality(Dpid) PROVE Paths(graph, src, dst, n) = {}
  <2>1. Cardinality(Dpid) \in Nat
    BY RoutingAssumption, FS_CardinalityType
  <2> QED BY <2>1 DEF Found, Within
<1> QED BY <1>1 DEF ShortestPaths, Reachable

\* The walk back ends with a shortest path.
LEMMA WalkIsShortest ==
    ASSUME Inv, Shortest, pc = "walk", dist[dst] # None, curr = src
    PROVE  path \in {Hops(q) : q \in ShortestPaths(graph, Nodes, src, dst)}
<1> DEFINE n == Len(path) + 1
           q == [k \in 1..n |-> Stop(k)]
<1>1. /\ src # dst /\ {src, dst} \subseteq Nodes
      /\ \A k \in Nat \ {0} : \A p \in Paths(graph, src, dst, k) : Within(dst, k - 1)
      /\ dist[src] = 0
  BY DEF Shortest, Ends, Found, Inv, DistancesOK
<1>2. /\ curr = Stop(1)
      /\ dist[curr] + Len(path) <= dist[dst]
      /\ \A k \in 1..n : Stop(k) \in Dpid /\ dist[Stop(k)] # None
      /\ \A k \in 1..Len(path) :
            /\ path[k] = <<Stop(k), graph[Stop(k)][Stop(k + 1)]>>
            /\ graph[Stop(k)][Stop(k + 1)] # None
      /\ \A j, k \in 1..n : j < k => dist[Stop(j)] < dist[Stop(k)]
  BY DEF Shortest, Walked
<1>3. path \in Seq(Dpid \X Dpid) /\ Len(path) \in Nat /\ dist[dst] \in Nat
  BY DEF Inv, TypeOK, InputOK
<1>4. Stop(n) = dst /\ n \in Nat \ {0}
  BY <1>3 DEF Stop
<1>5. n >= 2
  BY <1>1, <1>2, <1>3, <1>4
<1>6. q \in Paths(graph, src, dst, n)
  <2>1. q \in [1..n -> Dpid] /\ q[1] = src /\ q[n] = dst
    BY <1>2, <1>4
  <2>2. ASSUME NEW k \in 1..(n - 1) PROVE graph[q[k]][q[k + 1]] # None
    <3>1. k \in 1..Len(path) /\ k \in 1..n /\ k + 1 \in 1..n
      BY <1>3
    <3> QED BY <3>1, <1>2
  <2>3. ASSUME NEW j \in 1..n, NEW k \in 1..n, q[j] = q[k] PROVE j = k
    <3>1. Stop(j) = Stop(k) /\ dist[Stop(j)] \in Nat
      BY <2>3, <1>2 DEF Inv, TypeOK
    <3>2. ~(j < k) /\ ~(k < j)
      BY <3>1, <1>2
    <3> QED BY <3>2, <1>3
  <2> HIDE DEF q, n
  <2> QED BY <2>1, <2>2, <2>3 DEF Paths
<1>7. Hops(q) = path
  <2>1. Len(q) = n
    BY <1>4
  <2>2. Hops(q) = [k \in 1..(n - 1) |-> <<q[k], graph[q[k]][q[k + 1]]>>]
    BY <2>1 DEF Hops
  <2>3. n - 1 = Len(path)
    BY <1>3
  <2>4. ASSUME NEW k \in 1..Len(path) PROVE Hops(q)[k] = path[k]
    <3>1. k \in 1..n /\ k + 1 \in 1..n
      BY <1>3
    <3> QED BY <3>1, <2>2, <2>3, <1>2
  <2>5. path = [k \in 1..Len(path) |-> path[k]] /\ Hops(q) = [k \in 1..Len(path) |-> Hops(q)[k]]
    BY <2>2, <2>3, <1>3
  <2> HIDE DEF q, n
  <2> QED BY <2>4, <2>5
<1>8. q \in ShortestPaths(graph, Nodes, src, dst)
  <2>1. n \in 2..Cardinality(Dpid)
    <3>1. n <= Cardinality(Dpid) /\ Cardinality(Dpid) \in Nat
      BY <1>1, <1>4, <1>6, PathFits, RoutingAssumption, FS_CardinalityType DEF Inv
    <3> QED BY <3>1, <1>4, <1>5
  <2>2. Reachable(graph, Nodes, src, dst, n)
    BY <1>1, <1>6 DEF Reachable
  <2>3. ASSUME NEW k \in 2..(n - 1) PROVE ~Reachable(graph, Nodes, src, dst, k)
    <3>1. SUFFICES ASSUME NEW p \in Paths(graph, src, dst, k) PROVE FALSE
      BY DEF Reachable
    <3>2. k \in Nat \ {0}
      BY <1>4
    <3>3. dist[dst] <= k - 1
      BY <3>2, <1>1 DEF Within
    <3>4. Len(path) <= dist[dst]
      BY <1>1, <1>2, <1>3
    <3> QED BY <3>2, <3>3, <3>4, <1>3
  <2> HIDE DEF q, n
  <2> QED BY <2>1, <2>2, <2>3, <1>1, <1>6 DEF ShortestPaths
<1> HIDE DEF q
<1> QED BY <1>7, <1>8

LEMMA WalkBackShortest == ASSUME Inv, Inv', Shortest, WalkBack PROVE Shortest'
<1>1. /\ UNCHANGED <<input, search>> /\ pc = "walk" /\ pc' \in {"walk", "done"}
      /\ Nodes' = Nodes /\ src' = src /\ dst' = dst /\ graph' = graph /\ dist' = dist
  BY DEF WalkBack, Return, input, search, Nodes
<1>2. Ends' /\ Heaped' /\ Rounded'
  BY <1>1 DEF Shortest, Ends, Heaped, Rounded
<1>3. Found'
  BY <1>1 DEF Shortest, Found, Within
<1>4. src # dst
  BY <1>1 DEF Shortest, Ends
<1>5. CASE dist[dst] = None
  <2>1. pc' = "done" /\ result' = None
    BY <1>5 DEF WalkBack, Return
  <2>2. ShortestPaths(graph, Nodes, src, dst) = {}
    BY <1>1, <1>4, <1>5, NoPath DEF Shortest
  <2>3. ResultIsShortest'
    BY <2>1, <2>2, <1>1 DEF ResultIsShortest
  <2>4. Walked'
    BY <2>1 DEF Walked
  <2> QED BY <2>3, <2>4, <1>2, <1>3 DEF Shortest
<1>6. CASE dist[dst] # None /\ curr = src
  <2>1. pc' = "done" /\ result' = path
    BY <1>6 DEF WalkBack, Return
  <2>2. path \in {Hops(q) : q \in ShortestPaths(graph, Nodes, src, dst)}
    BY <1>1, <1>6, WalkIsShortest
  <2>3. ResultIsShortest'
    BY <2>1, <2>2, <1>1 DEF ResultIsShortest, Hops
  <2>4. Walked'
    BY <2>1 DEF Walked
  <2> QED BY <2>3, <2>4, <1>2, <1>3 DEF Shortest
<1>7. CASE dist[dst] # None /\ curr # src
  <2>1. path' = <<prev[curr]>> \o path /\ curr' = prev[curr][1] /\ pc' = "walk"
    BY <1>1, <1>7 DEF WalkBack
  <2> DEFINE m == Len(path)
  <2> PICK s : s = [k \in 1..(Len(path) + 1) |-> Stop(k)]
    OBVIOUS
  <2>2. m \in Nat /\ path \in Seq(Dpid \X Dpid)
    BY DEF Inv, TypeOK
  <2>3. /\ curr = s[1]
        /\ dist[curr] + m <= dist[dst]
        /\ \A k \in 1..(m + 1) : s[k] \in Dpid /\ dist[s[k]] # None
        /\ \A k \in 1..m :
              /\ path[k] = <<s[k], graph[s[k]][s[k + 1]]>>
              /\ graph[s[k]][s[k + 1]] # None
        /\ \A j, k \in 1..(m + 1) : j < k => dist[s[j]] < dist[s[k]]
    <3>1. \A k \in 1..(m + 1) : s[k] = Stop(k)
      OBVIOUS
    <3>2. \A k \in 1..m : k \in 1..(m + 1) /\ k + 1 \in 1..(m + 1)
      BY <2>2
    <3>3. 1 \in 1..(m + 1)
      BY <2>2
    <3> QED BY <3>1, <3>2, <3>3, <1>1, <1>7 DEF Shortest, Walked
  <2> PICK u : u = prev[curr][1]
    OBVIOUS
  <2>4. /\ curr \in Dpid \ {src} /\ dist[curr] # None
        /\ u # None /\ graph[u][curr] # None /\ prev[curr][2] = graph[u][curr]
        /\ dist[u] # None /\ dist[u] < dist[curr]
    BY <1>7 DEF Inv, TypeOK, WalkOK, PredecessorsLeadBack
  <2>5. u \in Dpid /\ prev[curr] = <<u, graph[u][curr]>>
    BY <2>4 DEF Inv, TypeOK
  <2>6. prev[curr] \in Dpid \X Dpid
    BY <2>4 DEF Inv, TypeOK
  <2>7. /\ Len(path') = m + 1
        /\ path'[1] = prev[curr]
        /\ \A k \in 1..m : path'[k + 1] = path[k]
    BY <2>1, <2>2, <2>6
  <2>8. dist[u] \in Nat /\ dist[curr] \in Nat /\ dist[dst] \in Nat
        /\ \A k \in 1..(m + 1) : dist[s[k]] \in Nat
    BY <1>7, <2>3, <2>4, <2>5 DEF Inv, TypeOK, InputOK
  <2>9. Stop(1)' = u
    BY <2>5, <2>7, <2>2 DEF Stop
  <2>10. ASSUME NEW k \in 1..(m + 1) PROVE Stop(k + 1)' = s[k]
    <3>1. CASE k <= m
      <4>1. k \in 1..m
        BY <3>1, <2>2
      <4>2. path'[k + 1] = path[k] /\ k + 1 <= Len(path')
        BY <4>1, <2>2, <2>7
      <4>3. path[k] = <<s[k], graph[s[k]][s[k + 1]]>>
        BY <4>1, <2>3
      <4> QED BY <4>2, <4>3 DEF Stop
    <3>2. CASE k = m + 1
      <4>1. ~(k + 1 <= Len(path')) /\ s[k] = dst
        BY <3>2, <2>2, <2>7 DEF Stop
      <4> QED BY <4>1, <1>1 DEF Stop
    <3> QED BY <3>1, <3>2, <2>2
  <2>11. \A k \in 2..(m + 2) : k - 1 \in 1..(m + 1) /\ Stop(k)' = s[k - 1]
    <3>1. ASSUME NEW k \in 2..(m + 2) PROVE k - 1 \in 1..(m + 1) /\ (k - 1) + 1 = k
      BY <2>2
    <3> QED BY <3>1, <2>10
  <2>12. 1..(Len(path') + 1) = {1} \cup 2..(m + 2)
    BY <2>2, <2>7
  <2> HIDE DEF m
  <2> DEFINE t(k) == Stop(k)'
  <2>13. /\ t(1) = u /\ \A k \in 2..(m + 2) : k - 1 \in 1..(m + 1) /\ t(k) = s[k - 1]
    BY <2>9, <2>11
  <2> HIDE DEF t
  <2>14. curr' = t(1) /\ dist[curr'] + Len(path') <= dist[dst]
    BY <2>1, <2>2, <2>3, <2>4, <2>7, <2>8, <2>13
  <2>15. \A k \in 1..(Len(path') + 1) : t(k) \in Dpid /\ dist[t(k)] # None
    <3>1. t(1) \in Dpid /\ dist[t(1)] # None
      BY <2>4, <2>5, <2>13, Zenon
    <3>2. ASSUME NEW k \in 2..(m + 2) PROVE t(k) \in Dpid /\ dist[t(k)] # None
      BY <2>3, <2>13, Zenon
    <3> QED BY <3>1, <3>2, <2>12, Zenon
  <2>16. ASSUME NEW k \in 1..Len(path')
         PROVE  path'[k] = <<t(k), graph[t(k)][t(k + 1)]>> /\ graph[t(k)][t(k + 1)] # None
    <3>1. CASE k = 1
      <4>1. t(1 + 1) = s[1]
        BY <2>2, <2>13
      <4> QED BY <3>1, <4>1, <2>3, <2>4, <2>5, <2>7, <2>13
    <3>2. CASE k > 1
      <4>1. PICK j \in 1..m : k = j + 1
        BY <3>2, <2>2, <2>7
      <4>2. t(k) = s[j] /\ t(k + 1) = s[j + 1]
        BY <4>1, <2>2, <2>13
      <4> QED BY <4>1, <4>2, <2>3, <2>7, SMTT(30)
    <3> QED BY <3>1, <3>2, <2>2, <2>7
  <2>17. ASSUME NEW j \in 1..(Len(path') + 1), NEW k \in 1..(Len(path') + 1), j < k
         PROVE  dist[t(j)] < dist[t(k)]
    <3>1. k \in 2..(m + 2) /\ t(k) = s[k - 1] /\ k - 1 \in 1..(m + 1)
      BY <2>12, <2>13, <2>17, <2>2
    <3>2. CASE j = 1
      <4>1. 1 \in 1..(m + 1) /\ (k - 1 = 1 \/ 1 < k - 1)
        BY <3>1, <2>2
      <4>2. dist[s[k - 1]] \in Nat /\ (dist[curr] = dist[s[k - 1]] \/ dist[curr] < dist[s[k - 1]])
        BY <3>1, <4>1, <2>3, <2>8
      <4>3. dist[u] < dist[s[k - 1]]
        BY <4>2, <2>4, <2>8
      <4> QED BY <3>1, <3>2, <4>3, <2>13
    <3>3. CASE j > 1
      <4>1. j \in 2..(m + 2) /\ t(j) = s[j - 1] /\ j - 1 \in 1..(m + 1) /\ j - 1 < k - 1
        BY <3>3, <2>12, <2>13, <2>17, <2>2
      <4> QED BY <3>1, <4>1, <2>3
    <3> QED BY <3>2, <3>3, <2>2, <2>7
  <2>18. Walked'
    BY <2>1, <2>14, <2>15, <2>16, <2>17, <1>1 DEF Walked, t
  <2>19. ResultIsShortest'
    BY <2>1 DEF ResultIsShortest
  <2> QED BY <2>18, <2>19, <1>2, <1>3 DEF Shortest
<1> QED BY <1>5, <1>6, <1>7

LEMMA AlwaysSound == Spec => []Shortest
<1>1. Init => Shortest
  <2> SUFFICES ASSUME Init PROVE Shortest
    OBVIOUS
  <2>1. Heaped /\ Rounded /\ Found /\ Walked /\ Ends /\ ResultIsShortest
    BY DEF Init, Heaped, Rounded, Found, Walked, Ends, ResultIsShortest
  <2> QED BY <2>1 DEF Shortest
<1>2. Inv /\ Inv' /\ Shortest /\ [Next]_vars => Shortest'
  <2> SUFFICES ASSUME Inv, Inv', Shortest, [Next]_vars PROVE Shortest'
    OBVIOUS
  <2>1. CASE UNCHANGED vars
    <3>1. Heaped' /\ Found' /\ Ends'
      BY <2>1 DEF vars, input, search, Shortest, Heaped, Found, Ends, Settled, Relaxed, Within, Nodes
    <3>2. Rounded'
      BY <2>1 DEF vars, input, search, Shortest, Rounded, Walks, Within, Scanned, Relaxed
    <3>3. Walked'
      BY <2>1 DEF vars, input, search, walk, Shortest, Walked, Stop
    <3>4. ResultIsShortest'
      <4>1. /\ UNCHANGED <<pc, result, graph, src, dst>> /\ Nodes' = Nodes
            /\ \A q : Hops(q)' = Hops(q)
        BY <2>1 DEF vars, input, Nodes, Hops
      <4> QED BY <4>1 DEF Shortest, ResultIsShortest
    <3> QED BY <3>1, <3>2, <3>3, <3>4 DEF Shortest
  <2> QED BY <2>1, CallShortest, PopShortest, ExhaustedShortest, ScanShortest,
             EndRoundShortest, WalkBackShortest DEF Next
<1> QED BY <1>1, <1>2, Invariance, PTL DEF Spec

\* By either algorithm, on every graph and in every order of the dictionary,
\* the function returns a path with the fewest hops, or None where there is no
\* path.
THEOREM AlwaysShortest == Spec => []ResultIsShortest
<1>1. Shortest => ResultIsShortest
  BY DEF Shortest
<1> QED BY <1>1, AlwaysSound, PTL

-----------------------------------------------------------------------------
\* The switches whose entry Dijkstra has taken from the heap.
Past == {v \in Dpid : Settled(v)}

\* No distance exceeds their number.
Near ==
    pc = "dijkstra" =>
        \A v \in Dpid : dist[v] # None => dist[v] <= Cardinality(Past)

\* The rounds of Bellman-Ford do not pass the last one.
Counted == pc = "bellman_ford" => round <= Rounds

LEMMA PastIsFinite ==
    /\ IsFiniteSet(Past) /\ Cardinality(Past) \in Nat
    /\ IsFiniteSet(Dpid) /\ Cardinality(Dpid) \in Nat
    /\ \A u \in Dpid : u \notin Past => Cardinality(Past) + 1 <= Cardinality(Dpid)
<1>1. IsFiniteSet(Dpid) /\ Past \subseteq Dpid
  BY RoutingAssumption DEF Past
<1>2. IsFiniteSet(Past)
  BY <1>1, FS_Subset
<1>3. Cardinality(Past) \in Nat /\ Cardinality(Dpid) \in Nat
  BY <1>1, <1>2, FS_CardinalityType
<1>4. ASSUME NEW u \in Dpid, u \notin Past PROVE Cardinality(Past) + 1 <= Cardinality(Dpid)
  <2>1. Cardinality(Past \cup {u}) = Cardinality(Past) + 1
    BY <1>2, <1>4, FS_AddElement
  <2>2. Past \cup {u} \subseteq Dpid
    BY <1>1
  <2> QED BY <1>1, <2>1, <2>2, FS_Subset
<1> QED BY <1>1, <1>2, <1>3, <1>4

\* A set with one more member.
LEMMA OneMore ==
    ASSUME NEW S, NEW T, IsFiniteSet(T), S \subseteq T, NEW u \in T, u \notin S
    PROVE  Cardinality(S) \in Nat /\ Cardinality(T) \in Nat
           /\ Cardinality(S) + 1 <= Cardinality(T)
<1>1. IsFiniteSet(S)
  BY FS_Subset
<1>2. Cardinality(S \cup {u}) = Cardinality(S) + 1
  BY <1>1, FS_AddElement
<1>3. S \cup {u} \subseteq T
  OBVIOUS
<1> QED BY <1>1, <1>2, <1>3, FS_Subset, FS_CardinalityType

\* A turn of Dijkstra's loop: it ends the search, or an entry is used up.
LEMMA PopCounts ==
    ASSUME Inv, Inv', Shortest, Near, Pop
    PROVE  /\ Near'
           /\ pc' = "walk" \/ (pc' = "dijkstra" /\ Pending' \subseteq Pending /\ Pending' # Pending)
<1>0. None \notin Nat /\ Dpid \subseteq Nat
  BY RoutingAssumption
<1>1. pc = "dijkstra"
  BY DEF Pop
<1>2. PICK e \in pq :
         /\ \A f \in pq : e[1] <= f[1]
         /\ IF e[2] = dst \/ e[1] > dist[e[2]]
            THEN /\ pc' = IF e[1] > dist[e[2]] THEN pc ELSE "walk"
                 /\ pq' = pq \ {e}
                 /\ UNCHANGED <<dist, prev>>
            ELSE /\ Relax(e[2], e[1])
                 /\ pq' = (pq \ {e}) \cup {<<e[1] + 1, v>> : v \in {v \in Dpid : Closer(e[2], v, e[1])}}
                 /\ UNCHANGED pc
  <2>1. \A e, f \in pq : Least(e, f) => e[1] <= f[1]
    BY DEF Least, Inv, TypeOK
  <2> QED BY <2>1 DEF Pop, Rest
<1> DEFINE d == e[1]
           u == e[2]
           ranks == (0..Cardinality(Dpid)) \X Dpid
<1>3. /\ d \in Nat /\ u \in Dpid /\ e = <<d, u>>
      /\ dist[u] # None /\ dist[u] <= d /\ dist[u] \in Nat
  BY DEF Inv, TypeOK, DistancesOK
<1>4. CASE pc' = "walk"
  BY <1>4 DEF Near
<1>5. CASE d > dist[u]
  <2>1. pc' = "dijkstra" /\ pq' = pq \ {e} /\ dist' = dist
    BY <1>1, <1>2, <1>5
  <2>2. Past \subseteq Past'
    BY <2>1 DEF Past, Settled
  <2>3. Cardinality(Past) <= Cardinality(Past') /\ Cardinality(Past) \in Nat
        /\ Cardinality(Past') \in Nat
    <3>1. IsFiniteSet(Past')
      <4>1. Past' \subseteq Dpid /\ IsFiniteSet(Dpid)
        BY RoutingAssumption DEF Past
      <4> QED BY <4>1, FS_Subset
    <3> QED BY <2>2, <3>1, FS_Subset, FS_CardinalityType
  <2>4. ASSUME NEW v \in Dpid, dist'[v] # None PROVE dist'[v] <= Cardinality(Past')
    <3>1. dist[v] \in Nat /\ dist[v] <= Cardinality(Past)
      BY <1>1, <2>1, <2>4 DEF Inv, TypeOK, Near
    <3> QED BY <2>1, <2>3, <3>1
  <2>5. Near'
    BY <2>4, Zenon DEF Near
  <2>6. Pending' \subseteq Pending
    BY <2>1 DEF Pending
  <2>7. e \in Pending /\ e \notin Pending'
    BY <1>3, <1>5, <2>1 DEF Pending
  <2> QED BY <2>1, <2>5, <2>6, <2>7
<1>6. CASE ~(d > dist[u]) /\ pc' # "walk"
  <2>1. d = dist[u] /\ u # dst
    BY <1>2, <1>3, <1>6
  <2>2. /\ Relax(u, dist[u]) /\ pc' = "dijkstra"
        /\ pq' = (pq \ {e}) \cup {<<d + 1, v>> : v \in {v \in Dpid : Closer(u, v, d)}}
    BY <1>1, <1>2, <1>6, <2>1
  <2>3. /\ \A v \in Dpid : dist'[v] = IF Closer(u, v, d) THEN d + 1 ELSE dist[v]
        /\ dist'[u] = dist[u]
        /\ dist \in [Dpid -> Nat \cup {None}] /\ dist' \in [Dpid -> Nat \cup {None}]
    <3>1. dist[src] = 0 /\ InputOK /\ PredecessorsLeadBack
      BY <1>1 DEF Inv, DistancesOK
    <3> QED BY <1>3, <2>1, <2>2, <3>1, RelaxStep DEF Inv, TypeOK
  <2>4. \A v \in Dpid : Closer(u, v, d) => dist[v] = None \/ d + 1 < dist[v]
    BY DEF Closer
  <2>5. u \in Past' /\ u \notin Past
    <3>1. <<dist[u], u>> \in pq
      BY <1>3, <2>1
    <3>2. <<dist'[u], u>> \notin pq'
      BY <1>3, <2>1, <2>2, <2>3
    <3> QED BY <1>3, <2>3, <3>1, <3>2, Zenon DEF Past, Settled
  <2>6. Past \subseteq Past'
    <3> SUFFICES ASSUME NEW v \in Past PROVE v \in Past'
      OBVIOUS
    <3>1. v \in Dpid /\ dist[v] # None /\ <<dist[v], v>> \notin pq /\ dist[v] \in Nat
      BY <2>3 DEF Past, Settled
    <3>2. dist[v] <= d
      BY <1>1, <1>2 DEF Past, Shortest, Heaped
    <3>3. ~Closer(u, v, d) /\ dist'[v] = dist[v]
      BY <1>3, <2>3, <2>4, <3>1, <3>2
    <3>4. <<dist[v], v>> \notin pq'
      BY <2>2, <3>1, <3>3
    <3> QED BY <3>1, <3>3, <3>4, Zenon DEF Past, Settled
  <2>7. /\ Cardinality(Past) \in Nat /\ Cardinality(Past') \in Nat
        /\ Cardinality(Past) + 1 <= Cardinality(Past')
        /\ Cardinality(Past) + 1 <= Cardinality(Dpid) /\ Cardinality(Dpid) \in Nat
    <3>1. Past' \subseteq Dpid /\ IsFiniteSet(Dpid)
      BY RoutingAssumption DEF Past
    <3>2. IsFiniteSet(Past')
      BY <3>1, FS_Subset
    <3> QED BY <1>3, <2>5, <2>6, <3>2, OneMore, PastIsFinite
  <2>8. d <= Cardinality(Past)
    BY <1>1, <1>3, <2>1 DEF Near
  <2>9. ASSUME NEW v \in Dpid, dist'[v] # None PROVE dist'[v] <= Cardinality(Past')
    <3>1. CASE Closer(u, v, d)
      BY <1>3, <2>3, <2>7, <2>8, <3>1
    <3>2. CASE ~Closer(u, v, d)
      <4>1. dist'[v] = dist[v] /\ dist[v] \in Nat /\ dist[v] <= Cardinality(Past)
        BY <1>1, <2>3, <2>9, <3>2 DEF Near
      <4> QED BY <2>7, <4>1
    <3> QED BY <3>1, <3>2
  <2>10. Near'
    BY <2>9, Zenon DEF Near
  <2>11. ASSUME NEW f \in Pending' PROVE f \in Pending
    <3>1. CASE f \in pq
      BY <3>1 DEF Pending
    <3>2. CASE f \in pq' /\ f \notin pq
      <4>1. PICK v \in Dpid : Closer(u, v, d) /\ f = <<d + 1, v>>
        BY <2>2, <3>2
      <4>2. d + 1 \in 0..Cardinality(Dpid)
        BY <1>3, <2>7, <2>8
      <4> QED BY <2>4, <4>1, <4>2 DEF Pending
    <3>3. CASE f \notin pq'
      <4>1. f \in ranks /\ (dist'[f[2]] = None \/ f[1] < dist'[f[2]])
        BY <3>3 DEF Pending
      <4>2. f[1] \in Nat /\ f[2] \in Dpid
        BY <2>7, <4>1
      <4>3. dist[f[2]] = None \/ f[1] < dist[f[2]]
        BY <1>0, <1>3, <2>3, <2>4, <4>1, <4>2
      <4> QED BY <4>1, <4>3 DEF Pending
    <3> QED BY <3>1, <3>2, <3>3
  <2>12. e \in Pending /\ e \notin Pending'
    <3>1. e \notin pq'
      BY <1>3, <2>2
    <3>2. ~(dist'[u] = None \/ d < dist'[u])
      BY <1>0, <1>3, <2>1, <2>3
    <3> QED BY <1>3, <3>1, <3>2 DEF Pending
  <2> QED BY <2>2, <2>10, <2>11, <2>12
<1>7. pc' = "walk" \/ d > dist[u] \/ (~(d > dist[u]) /\ pc' # "walk")
  OBVIOUS
<1> QED BY <1>4, <1>5, <1>6, <1>7

\* The search begins with one entry, or with the first of its rounds.
LEMMA CallCounts ==
    ASSUME Inv, Shortest, Call
    PROVE  Near' /\ Counted' /\ Stage[pc'] > Stage[pc]
<1>1. pc = "call" /\ \A v \in Dpid : dist[v] = None
  BY DEF Call, Inv, DistancesOK
<1>2. CASE pc' = "done"
  BY <1>1, <1>2 DEF Near, Counted, Stage
<1>3. CASE pc' = algorithm /\ src # dst /\ {src, dst} \subseteq Nodes
           /\ dist' = [dist EXCEPT ![src] = 0]
  <2>1. pc' \in {"dijkstra", "bellman_ford"} /\ src \in Dpid
    BY <1>3 DEF Inv, InputOK
  <2>2. Near'
    <3>1. Cardinality(Past') \in Nat
      <4>1. Past' \subseteq Dpid /\ IsFiniteSet(Dpid)
        BY RoutingAssumption DEF Past
      <4> QED BY <4>1, FS_Subset, FS_CardinalityType
    <3>2. \A v \in Dpid : dist'[v] # None => dist'[v] = 0
      BY <1>1, <1>3, <2>1 DEF Inv, TypeOK
    <3> QED BY <3>1, <3>2 DEF Near
  <2>3. round' = 1 /\ Len(order') = Len(order) /\ Rounds' = Rounds
    BY <1>1 DEF Call, input, Shortest, Rounded, Rounds
  <2>4. Rounds >= 1
    <3>1. Len(order) \in Nat /\ DOMAIN order = 1..Len(order)
      BY DEF Inv, InputOK
    <3>2. PICK i \in 1..Len(order), j \in 1..Len(order) : order[i] = src /\ order[j] = dst
      BY <1>3, <3>1 DEF Nodes
    <3>3. i # j
      BY <1>3, <3>2
    <3> QED BY <3>1, <3>2, <3>3 DEF Rounds
  <2>5. Counted'
    BY <2>3, <2>4 DEF Counted
  <2> QED BY <1>1, <2>1, <2>2, <2>5 DEF Stage
<1> QED BY <1>2, <1>3 DEF Call, Return

\* Whatever the graph, each turn of the loops uses up something of which there
\* is only so much: with n switches Dijkstra's loop ends after n * (n + 1)
\* turns at most.
THEOREM TurnsAlwaysCount == Spec => EveryTurnCounts
<1> DEFINE Progress ==
             \/ Stage[pc'] > Stage[pc]
             \/ pc = "dijkstra" /\ Pending' \subseteq Pending /\ Pending' # Pending
             \/ /\ pc = "bellman_ford" /\ round' <= Rounds /\ pos' <= Len(order) + 1
                /\ round' > round \/ (round' = round /\ pos' > pos)
             \/ pc = "walk" /\ dist[curr'] # None /\ dist[curr'] < dist[curr]
<1>1. ASSUME Inv, Inv', Shortest, Near, Counted, Next
      PROVE  Near' /\ Counted' /\ Progress
  <2>1. CASE Call
    BY <1>1, <2>1, CallCounts
  <2>2. CASE Pop
    <3>1. pc = "dijkstra"
      BY <2>2 DEF Pop
    <3>2. /\ Near'
          /\ pc' = "walk" \/ (pc' = "dijkstra" /\ Pending' \subseteq Pending /\ Pending' # Pending)
      BY <1>1, <2>2, PopCounts
    <3> QED BY <3>1, <3>2 DEF Counted, Stage
  <2>3. CASE Exhausted
    BY <2>3 DEF Exhausted, Near, Counted, Stage
  <2>4. CASE Scan
    <3>1. /\ pc = "bellman_ford" /\ pc' = pc /\ pos <= Len(order) /\ pos' = pos + 1
          /\ round' = round /\ order' = order
      BY <2>4 DEF Scan, input
    <3>2. pos \in Nat /\ Len(order) \in Nat
      BY <1>1 DEF Inv, TypeOK, InputOK
    <3>3. Near' /\ Counted' /\ round' <= Rounds
      BY <1>1, <3>1 DEF Near, Counted, Rounds
    <3> QED BY <3>1, <3>2, <3>3
  <2>5. CASE EndRound
    <3>1. /\ pc = "bellman_ford" /\ order' = order
          /\ \/ pc' = "walk"
             \/ pc' = pc /\ round # Rounds /\ round' = round + 1 /\ pos' = 1
      BY <2>5 DEF EndRound, input
    <3>2. round \in Nat /\ Len(order) \in Nat /\ Rounds \in Int /\ round <= Rounds /\ Rounds' = Rounds
      BY <1>1, <3>1 DEF Inv, TypeOK, InputOK, Counted, Rounds
    <3>3. CASE pc' = "walk"
      BY <3>1, <3>3 DEF Near, Counted, Stage
    <3>4. CASE pc' = pc /\ round # Rounds /\ round' = round + 1 /\ pos' = 1
      <4>1. round' <= Rounds /\ round' > round /\ pos' <= Len(order) + 1
        BY <3>2, <3>4
      <4> QED BY <3>1, <3>2, <3>4, <4>1 DEF Near, Counted
    <3> QED BY <3>1, <3>3, <3>4
  <2>6. CASE WalkBack
    <3>1. /\ pc = "walk"
          /\ \/ pc' = "done"
             \/ pc' = pc /\ dist[dst] # None /\ curr # src /\ curr' = prev[curr][1]
      BY <2>6 DEF WalkBack, Return
    <3>2. Near' /\ Counted'
      BY <3>1 DEF Near, Counted
    <3>3. CASE pc' = "done"
      BY <3>1, <3>2, <3>3 DEF Stage
    <3>4. CASE dist[dst] # None /\ curr # src /\ curr' = prev[curr][1]
      BY <1>1, <3>1, <3>2, <3>4 DEF Inv, TypeOK, WalkOK, PredecessorsLeadBack
    <3> QED BY <3>1, <3>3, <3>4
  <2> QED BY <1>1, <2>1, <2>2, <2>3, <2>4, <2>5, <2>6 DEF Next
<1>2. Init => Near /\ Counted
  BY DEF Init, Near, Counted
<1>3. Near /\ Counted /\ UNCHANGED vars => Near' /\ Counted'
  <2> SUFFICES ASSUME Near, Counted, UNCHANGED vars PROVE Near' /\ Counted'
    OBVIOUS
  <2>1. UNCHANGED <<pc, order, dist, pq, round>>
    BY DEF vars, input, search
  <2>2. Past' = Past
    BY <2>1 DEF Past, Settled
  <2> QED BY <2>1, <2>2 DEF Near, Counted, Rounds
<1>4. Inv /\ Inv' /\ Shortest /\ Near /\ Counted /\ [Next]_vars
        => Near' /\ Counted' /\ [Progress]_vars
  <2> HIDE DEF Progress
  <2> QED BY <1>1, <1>3
<1> QED BY <1>2, <1>4, AlwaysSound, Invariance, PTL DEF Spec, EveryTurnCounts

=============================================================================
