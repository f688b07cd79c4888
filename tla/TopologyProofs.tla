--------------------------- MODULE TopologyProofs ---------------------------
(***************************************************************************)
(* Proofs about Topology, for every network, every number of hosts and     *)
(* every cabling.                                                          *)
(***************************************************************************)
EXTENDS Topology, TLAPS, FiniteSetTheorems, WellFoundedInduction

USE NoneAssumption

-----------------------------------------------------------------------------
(***************************************************************************)
(* Paths.                                                                  *)
(***************************************************************************)

\* A nonempty set of positions of a sequence has a last one.
LEMMA LastPosition ==
    ASSUME NEW n \in Nat, NEW T \in SUBSET (1..n), T # {}
    PROVE  \E x \in T : \A y \in T : y <= x
<1> DEFINE after(k) == (k + 1)..n
<1> DEFINE U == {after(k) : k \in T}
<1>1. U \subseteq FiniteSubsetsOf(1..n) /\ U # {}
  <2>1. \A k \in T : after(k) \in SUBSET (1..n)
    OBVIOUS
  <2>2. \A k \in T : IsFiniteSet(after(k))
    BY FS_Interval
  <2> QED BY <2>1, <2>2 DEF FiniteSubsetsOf
<1>2. PICK u \in U : \A y \in U : ~(<<y, u>> \in StrictSubsetOrdering(1..n))
  <2> HIDE DEF U
  <2> QED BY <1>1, WFMin, FS_StrictSubsetOrderingWellFounded
<1>3. PICK x \in T : u = after(x)
  OBVIOUS
<1>4. ASSUME NEW y \in T, y > x PROVE FALSE
  <2>1. after(y) \subseteq after(x) /\ after(y) # after(x)
    BY <1>4
  <2>2. after(y) \in SUBSET (1..n) /\ after(x) \in SUBSET (1..n)
    OBVIOUS
  <2>3. <<after(y), after(x)>> \in StrictSubsetOrdering(1..n)
    BY <2>1, <2>2 DEF StrictSubsetOrdering
  <2> QED BY <1>2, <1>3, <2>3
<1> QED BY <1>4

\* q is a simple path of n switches of the graph that ends at t.
IsPath(q, n, t) ==
    /\ n \in Nat \ {0}
    /\ q \in [1..n -> Dpid]
    /\ q[n] = t
    /\ \A k \in 1..(n - 1) : adj[q[k]][q[k + 1]] # None
    /\ \A j, k \in 1..n : q[j] = q[k] => j = k

LEMMA ShortestPathIsPath ==
    ASSUME NEW s \in Dpid, NEW t \in Dpid, NEW q \in ShortestPaths(adj, nodes, s, t)
    PROVE  \E n \in Nat : IsPath(q, n, t)
<1>1. CASE s = t
  <2>1. q = [k \in 1..1 |-> s]
    BY <1>1 DEF ShortestPaths
  <2>2. IsPath(q, 1, t)
    BY <1>1, <2>1 DEF IsPath
  <2> QED BY <2>2
<1>2. CASE s # t
  <2>1. PICK n \in 2..Cardinality(Dpid) : q \in Paths(adj, s, t, n)
    BY <1>2 DEF ShortestPaths
  <2>2. n \in Nat \ {0}
    BY DpidAssumption, FS_CardinalityType
  <2>3. IsPath(q, n, t)
    BY <2>1, <2>2 DEF Paths, IsPath
  <2> QED BY <2>2, <2>3
<1> QED BY <1>1, <1>2

\* The port a switch of a path is given is the one towards its successor.
LEMMA HopPortIsNext ==
    ASSUME NEW q, NEW n, NEW t, IsPath(q, n, t), NEW k \in 1..(n - 1)
    PROVE  HopPort(adj, q, q[k]) = adj[q[k]][q[k + 1]]
<1>1. n \in Nat /\ DOMAIN q = 1..n /\ k \in 1..n
  BY DEF IsPath
<1>2. \A j \in 1..n : q[j] = q[k] => j = k
  BY <1>1 DEF IsPath
<1>3. (CHOOSE j \in DOMAIN q : q[j] = q[k]) = k
  BY <1>1, <1>2
<1> QED BY <1>3 DEF HopPort

-----------------------------------------------------------------------------
(***************************************************************************)
(* Types.                                                                  *)
(***************************************************************************)

Graphs == [Dpid -> [Dpid -> Port \cup {None}]]
Locations == [Mac -> Loc \cup {None}]
Caches == [Ip -> Mac \cup {None}]
FlowTables == [Dpid -> [Mac -> Port \cup {None}]]

LEMMA InstalledType ==
    ASSUME TypeOK, NEW f \in FlowTables, NEW s \in Dpid, NEW loc \in Loc,
           NEW m \in Mac, NEW g \in InstallPathFlows(f, s, loc, m)
    PROVE  g \in FlowTables
<1>1. CASE g = f
  BY <1>1
<1>2. CASE \E q \in ShortestPaths(adj, nodes, s, loc[1]) : g = Installed(f, q, loc, m)
  <2>1. PICK q \in ShortestPaths(adj, nodes, s, loc[1]) : g = Installed(f, q, loc, m)
    BY <1>2
  <2>2. loc[1] \in Dpid /\ loc[2] \in Port
    BY DEF Loc
  <2>3. PICK n \in Nat : IsPath(q, n, loc[1])
    BY <2>2, ShortestPathIsPath
  <2>4. ASSUME NEW d \in Dpid, NEW k \in DOMAIN q, q[k] = d, d # loc[1]
        PROVE  HopPort(adj, q, d) \in Port \cup {None}
    <3>1. k \in 1..(n - 1) /\ k + 1 \in 1..n
      BY <2>3, <2>4 DEF IsPath
    <3>2. HopPort(adj, q, d) = adj[d][q[k + 1]]
      BY <2>3, <2>4, <3>1, HopPortIsNext
    <3>3. q[k + 1] \in Dpid
      BY <2>3, <3>1 DEF IsPath
    <3> QED BY <3>2, <3>3 DEF TypeOK
  <2>5. ASSUME NEW d \in Dpid
        PROVE  Installed(f, q, loc, m)[d] \in [Mac -> Port \cup {None}]
    BY <2>2, <2>4 DEF Installed, FlowTables
  <2> QED BY <2>1, <2>5 DEF Installed, FlowTables
<1> QED BY <1>1, <1>2 DEF InstallPathFlows

LEMMA ClearedType ==
    ASSUME NEW f \in FlowTables, NEW sw, NEW macs
    PROVE  Cleared(f, sw, macs) \in FlowTables
BY DEF Cleared, FlowTables

LEMMA UnlocatedType ==
    ASSUME NEW locs \in Locations, NEW macs
    PROVE  Unlocated(locs, macs) \in Locations
BY DEF Unlocated, Locations

LEMMA UnresolvedType ==
    ASSUME NEW ips \in Caches, NEW macs
    PROVE  Unresolved(ips, macs) \in Caches
BY DEF Unresolved, Caches

LEMMA UnlinkedType ==
    ASSUME NEW g \in Graphs, NEW d, NEW far
    PROVE  Unlinked(g, d, far) \in Graphs
BY DEF Unlinked, Graphs

LEMMA LearningType ==
    ASSUME TypeOK, NEW m \in Mac, NEW d \in Dpid, NEW p \in Port,
           NEW a \in BOOLEAN
    PROVE  /\ LocAfter(m, d, p, a) \in Locations
           /\ FlowsAfter(m, d, p, a) \in FlowTables
<1>1. mac_to_loc \in Locations /\ flows \in FlowTables
  BY DEF TypeOK, Locations, FlowTables
<1>2. <<d, p>> \in Loc
  BY DEF Loc
<1>3. [mac_to_loc EXCEPT ![m] = <<d, p>>] \in Locations
  BY <1>1, <1>2 DEF Locations
<1> QED BY <1>1, <1>3, UnlocatedType, ClearedType DEF LocAfter, FlowsAfter

LEMMA ArpAfterType ==
    ASSUME TypeOK, NEW m \in Mac, NEW i \in Ip \cup {None}
    PROVE  ArpAfter(m, i) \in Caches
BY DEF TypeOK, ArpAfter, Caches

\* TypeOK in terms of the sets above.
LEMMA TypeSets ==
    TypeOK <=> /\ nodes \subseteq Dpid
               /\ adj \in Graphs
               /\ connected \subseteq Dpid
               /\ mac_to_loc \in Locations
               /\ ip_to_mac \in Caches
               /\ warming \subseteq Dpid
               /\ flows \in FlowTables
BY DEF TypeOK, Graphs, Locations, Caches, FlowTables

LEMMA SwitchTypes ==
    ASSUME TypeOK, NEW d \in Dpid, SwitchAdd(d) \/ SwitchDelete(d)
    PROVE  TypeOK'
<1>1. NoFlows \in [Mac -> Port \cup {None}]
  BY DEF NoFlows
<1>2. CASE SwitchAdd(d)
  <2>1. PICK table \in {NoFlows, flows[d]} : flows' = [flows EXCEPT ![d] = table]
    BY <1>2 DEF SwitchAdd
  <2>2. flows' \in FlowTables
    BY <1>1, <2>1 DEF TypeOK, FlowTables
  <2> QED BY <1>2, <2>2 DEF SwitchAdd, TypeOK, FlowTables
<1>3. CASE SwitchDelete(d)
  <2>1. flows \in FlowTables /\ mac_to_loc \in Locations
        /\ ip_to_mac \in Caches /\ adj \in Graphs
    BY TypeSets
  <2>2. flows' \in FlowTables /\ mac_to_loc' \in Locations
        /\ ip_to_mac' \in Caches /\ adj' \in Graphs
    BY <1>3, <2>1, ClearedType, UnlocatedType, UnresolvedType, UnlinkedType
    DEF SwitchDelete
  <2> QED BY <1>3, <2>2 DEF SwitchDelete, Neighbors, TypeOK, FlowTables,
                            Locations, Caches, Graphs
<1> QED BY <1>2, <1>3

LEMMA LinkTypes ==
    ASSUME TypeOK, LinkEvent
    PROVE  TypeOK'
<1>1. flows \in FlowTables /\ mac_to_loc \in Locations
      /\ ip_to_mac \in Caches /\ adj \in Graphs
  BY TypeSets
<1>2. ASSUME NEW c \in Cable, LinkAdd(c[1], c[2]) PROVE TypeOK'
  <2>1. c[1] \in Dpid \X Port /\ c[2] \in Dpid \X Port
    BY CableAssumption DEF Loc
  <2>2. c[1][1] \in Dpid /\ c[1][2] \in Port /\ c[2][1] \in Dpid /\ c[2][2] \in Port
    BY <2>1
  <2>3. adj' = [adj EXCEPT ![c[1][1]][c[2][1]] = c[1][2],
                           ![c[2][1]][c[1][1]] = c[2][2]]
    BY <1>2 DEF LinkAdd
  <2>4. adj' \in Graphs
    BY <1>1, <2>2, <2>3 DEF Graphs
  <2>5. flows' \in FlowTables /\ mac_to_loc' \in Locations
    BY <1>1, <1>2, ClearedType, UnlocatedType DEF LinkAdd
  <2> QED BY <1>2, <2>2, <2>4, <2>5, TypeSets, ZenonT(60)
          DEF LinkAdd, TypeOK, FlowTables, Locations, Graphs
<1>3. ASSUME NEW a \in Dpid, NEW b \in Dpid, LinkDelete(a, b) PROVE TypeOK'
  <2>1. flows' \in FlowTables /\ mac_to_loc' \in Locations /\ adj' \in Graphs
    BY <1>1, <1>3, ClearedType, UnlocatedType, UnlinkedType DEF LinkDelete
  <2> QED BY <1>3, <2>1 DEF LinkDelete, TypeOK, FlowTables, Locations, Graphs
<1>4. ASSUME NEW d \in Dpid, NEW p \in Port, PortModify(d, p) PROVE TypeOK'
  <2>1. flows' \in FlowTables /\ mac_to_loc' \in Locations
        /\ ip_to_mac' \in Caches /\ adj' \in Graphs
    BY <1>1, <1>4, ClearedType, UnlocatedType, UnresolvedType, UnlinkedType
    DEF PortModify
  <2> QED BY <1>4, <2>1 DEF PortModify, TypeOK, FlowTables, Locations, Caches, Graphs
<1> QED BY <1>2, <1>3, <1>4 DEF LinkEvent

LEMMA OriginType ==
    ASSUME NEW locs \in Locations, NEW m \in Mac, NEW d \in Dpid
    PROVE  Origin(locs, m, d) \in Dpid
BY DEF Origin, Locations, Loc

\* A packet-in is a HostAdd, an ArpRequest, an ArpReply or an IpPacket of some
\* host heard somewhere.
LEMMA HostEventCases ==
    ASSUME HostEvent
    PROVE  \E m \in Mac, d \in Dpid, p \in Port :
              \/ \E ips \in SUBSET Ip : HostAdd(m, d, p, ips)
              \/ \E i \in Ip \cup {None}, g \in BOOLEAN : ArpRequest(m, i, d, p, g)
              \/ \E i \in Ip, tm \in Mac, ti \in Ip : ArpReply(m, i, d, p, tm, ti)
              \/ \E i \in Ip, dm \in Mac : IpPacket(m, i, d, p, dm)
<1>1. PICK h \in Heard :
              \/ \E ips \in SUBSET Ip : HostAdd(h[1], h[2][1], h[2][2], ips)
              \/ \E i \in Ip \cup {None}, g \in BOOLEAN :
                    ArpRequest(h[1], i, h[2][1], h[2][2], g)
              \/ \E i \in Ip, tm \in Mac \ {h[1]}, ti \in Ip :
                    ArpReply(h[1], i, h[2][1], h[2][2], tm, ti)
              \/ \E i \in Ip, dm \in Mac \ {h[1]} :
                    IpPacket(h[1], i, h[2][1], h[2][2], dm)
  BY DEF HostEvent
<1>2. h[1] \in Mac /\ h[2][1] \in Dpid /\ h[2][2] \in Port
  BY HostAssumption DEF Loc
<1> QED BY <1>1, <1>2

\* The new flow table is what learning leaves, or that with a path to a host
\* whose location is known installed.
FlowsLearned(locs, learned) ==
    \/ flows' = learned
    \/ \E s \in Dpid, h \in Mac :
          locs[h] # None /\ flows' \in InstallPathFlows(learned, s, locs[h], h)

\* Every packet-in and EventHostAdd learns a location, may install a path, and
\* leaves the graph alone.
LEMMA HostEventLearns ==
    ASSUME TypeOK, HostEvent
    PROVE  /\ UNCHANGED <<nodes, adj, connected, warming>>
           /\ ip_to_mac' \in Caches
           /\ \E m \in Mac, d \in Dpid, p \in Port, a \in BOOLEAN :
                 /\ mac_to_loc' = LocAfter(m, d, p, a)
                 /\ FlowsLearned(LocAfter(m, d, p, a), FlowsAfter(m, d, p, a))
                 /\ a => \E ips \in SUBSET Ip : HostAdd(m, d, p, ips)
<1>1. PICK m \in Mac, d \in Dpid, p \in Port :
              \/ \E ips \in SUBSET Ip : HostAdd(m, d, p, ips)
              \/ \E i \in Ip \cup {None}, g \in BOOLEAN : ArpRequest(m, i, d, p, g)
              \/ \E i \in Ip, tm \in Mac, ti \in Ip : ArpReply(m, i, d, p, tm, ti)
              \/ \E i \in Ip, dm \in Mac : IpPacket(m, i, d, p, dm)
  BY HostEventCases
<1> DEFINE locs(a) == LocAfter(m, d, p, a)
           learned(a) == FlowsAfter(m, d, p, a)
           Goal(a) == /\ UNCHANGED <<nodes, adj, connected, warming>>
                      /\ ip_to_mac' \in Caches
                      /\ mac_to_loc' = locs(a)
                      /\ FlowsLearned(locs(a), learned(a))
<1>2. Origin(locs(FALSE), m, d) \in Dpid
  BY LearningType, OriginType
<1>3. ip_to_mac \in Caches
  BY TypeSets
<1>4. CASE \E ips \in SUBSET Ip : HostAdd(m, d, p, ips)
  <2>1. Goal(TRUE)
    BY <1>3, <1>4 DEF HostAdd, Caches, FlowsLearned
  <2> QED BY <1>4, <2>1
<1>5. CASE \E i \in Ip \cup {None}, g \in BOOLEAN : ArpRequest(m, i, d, p, g)
  <2>1. Goal(FALSE)
    BY <1>5, ArpAfterType DEF ArpRequest, FlowsLearned
  <2> QED BY <2>1
<1>6. CASE \E i \in Ip, tm \in Mac, ti \in Ip : ArpReply(m, i, d, p, tm, ti)
  <2>1. PICK i \in Ip, tm \in Mac, ti \in Ip : ArpReply(m, i, d, p, tm, ti)
    BY <1>6
  <2>2. ip_to_mac' \in Caches
    BY <2>1, ArpAfterType DEF ArpReply, Caches
  <2>3. \/ flows' = learned(FALSE)
        \/ /\ locs(FALSE)[tm] # None
           /\ flows' \in InstallPathFlows(learned(FALSE), Origin(locs(FALSE), m, d),
                                          locs(FALSE)[tm], tm)
    BY <2>1 DEF ArpReply
  <2>4. FlowsLearned(locs(FALSE), learned(FALSE))
    BY <1>2, <2>3 DEF FlowsLearned
  <2>5. Goal(FALSE)
    BY <2>1, <2>2, <2>4 DEF ArpReply
  <2> QED BY <2>5
<1>7. CASE \E i \in Ip, dm \in Mac : IpPacket(m, i, d, p, dm)
  <2>1. PICK i \in Ip, dm \in Mac : IpPacket(m, i, d, p, dm)
    BY <1>7
  <2>2. ip_to_mac' \in Caches
    BY <2>1, ArpAfterType DEF IpPacket
  <2>3. \/ flows' = learned(FALSE)
        \/ /\ locs(FALSE)[dm] # None
           /\ flows' \in InstallPathFlows(learned(FALSE), Origin(locs(FALSE), m, d),
                                          locs(FALSE)[dm], dm)
    BY <2>1 DEF IpPacket
  <2>4. FlowsLearned(locs(FALSE), learned(FALSE))
    BY <1>2, <2>3 DEF FlowsLearned
  <2>5. Goal(FALSE)
    BY <2>1, <2>2, <2>4 DEF IpPacket
  <2> QED BY <2>5
<1> QED BY <1>1, <1>4, <1>5, <1>6, <1>7

LEMMA HostTypes ==
    ASSUME TypeOK, HostEvent
    PROVE  TypeOK'
<1>1. PICK m \in Mac, d \in Dpid, p \in Port, a \in BOOLEAN :
              /\ mac_to_loc' = LocAfter(m, d, p, a)
              /\ FlowsLearned(LocAfter(m, d, p, a), FlowsAfter(m, d, p, a))
  BY HostEventLearns
<1> DEFINE locs == LocAfter(m, d, p, a)
           learned == FlowsAfter(m, d, p, a)
<1>2. locs \in Locations /\ learned \in FlowTables
  BY LearningType
<1>3. \A h \in Mac : locs[h] # None => locs[h] \in Loc
  BY <1>2 DEF Locations
<1>4. flows' \in FlowTables
  <2> HIDE DEF locs, learned
  <2> QED BY <1>1, <1>2, <1>3, InstalledType DEF FlowsLearned, locs, learned
<1> QED BY <1>1, <1>2, <1>4, HostEventLearns
        DEF TypeOK, FlowTables, Locations, Caches

LEMMA InitTypes == Init => TypeOK
BY HostAssumption DEF Init, TypeOK, NoFlows

\* Every table keeps its shape: locations are known switches and ports, and no
\* handler writes a half-made entry.
THEOREM TypeCorrect == Spec => []TypeOK
<1>1. TypeOK /\ [Next]_vars => TypeOK'
  <2> SUFFICES ASSUME TypeOK, [Next]_vars PROVE TypeOK'
    OBVIOUS
  <2>1. CASE SwitchEvent
    BY <2>1, SwitchTypes DEF SwitchEvent
  <2>2. CASE LinkEvent
    BY <2>2, LinkTypes
  <2>3. CASE HostEvent
    BY <2>3, HostTypes
  <2>4. CASE UNCHANGED vars
    BY <2>4 DEF vars, TypeOK
  <2> QED BY <2>1, <2>2, <2>3, <2>4 DEF Next
<1> QED BY <1>1, InitTypes, PTL DEF Spec

-----------------------------------------------------------------------------
(***************************************************************************)
(* The graph and the locations of the hosts.                               *)
(***************************************************************************)

GraphInv == TypeOK /\ GraphIsSound /\ EveryNodeHasDatapath /\ NoHostOnSwitchPort

\* What SwitchAdd and the packet-ins leave of the graph: all of it.
LEMMA GraphKept ==
    ASSUME GraphIsSound, EveryNodeHasDatapath, adj' = adj,
           \/ nodes' = nodes /\ connected' = connected
           \/ \E d \in Dpid : nodes' = nodes \cup {d} /\ connected' = connected \cup {d}
    PROVE  GraphIsSound' /\ EveryNodeHasDatapath'
BY DEF GraphIsSound, EveryNodeHasDatapath

\* Removing links in both directions leaves a sound graph.
LEMMA UnlinkedIsSound ==
    ASSUME TypeOK, GraphIsSound, NEW d \in Dpid, NEW far,
           adj' = Unlinked(adj, d, far),
           \A n \in nodes : n \in nodes' \/ (n = d /\ far = Dpid)
    PROVE  GraphIsSound'
<1> SUFFICES ASSUME NEW a \in Dpid, NEW b \in Dpid, adj'[a][b] # None
             PROVE  /\ {a, b} \subseteq nodes'
                    /\ adj'[b][a] # None
                    /\ <<<<a, adj'[a][b]>>, <<b, adj'[b][a]>>>> \in Cable
  BY DEF GraphIsSound
<1>1. ~(a = d /\ b \in far) /\ ~(b = d /\ a \in far) /\ adj[a][b] # None
  BY DEF Unlinked
<1>2. adj'[a][b] = adj[a][b] /\ adj'[b][a] = adj[b][a]
  BY <1>1 DEF Unlinked
<1> QED BY <1>1, <1>2 DEF GraphIsSound

\* Removing links makes no port a switch port.
LEMMA UnlinkedFreesPorts ==
    ASSUME NEW d \in Dpid, NEW far, NEW e \in Dpid, NEW p \in Port,
           IsSwitchPort(Unlinked(adj, d, far), e, p)
    PROVE  IsSwitchPort(adj, e, p)
BY DEF IsSwitchPort, Unlinked

\* Losing or keeping locations on a graph with no more links places no host
\* on a link.
LEMMA NoHostKept ==
    ASSUME TypeOK, NoHostOnSwitchPort,
           \A e \in Dpid, p \in Port : IsSwitchPort(adj', e, p) => IsSwitchPort(adj, e, p),
           \A m \in Mac : mac_to_loc'[m] \in {mac_to_loc[m], None}
    PROVE  NoHostOnSwitchPort'
<1> SUFFICES ASSUME NEW m \in Mac, Located(m)',
                    IsSwitchPort(adj', mac_to_loc'[m][1], mac_to_loc'[m][2])
             PROVE  FALSE
  BY DEF NoHostOnSwitchPort
<1>1. mac_to_loc'[m] = mac_to_loc[m] /\ mac_to_loc[m] # None
  BY DEF Located
<1>2. mac_to_loc[m][1] \in Dpid /\ mac_to_loc[m][2] \in Port
  BY <1>1 DEF TypeOK, Loc
<1> QED BY <1>1, <1>2 DEF NoHostOnSwitchPort, Located

LEMMA SwitchKeepsGraph ==
    ASSUME GraphInv, NEW d \in Dpid, SwitchAdd(d) \/ SwitchDelete(d)
    PROVE  GraphInv'
<1>1. TypeOK'
  BY SwitchTypes DEF GraphInv
<1>2. CASE SwitchAdd(d)
  <2>1. GraphIsSound' /\ EveryNodeHasDatapath'
    BY <1>2, GraphKept DEF SwitchAdd, GraphInv
  <2>2. NoHostOnSwitchPort'
    BY <1>2 DEF SwitchAdd, GraphInv, NoHostOnSwitchPort, Located
  <2> QED BY <1>1, <2>1, <2>2 DEF GraphInv
<1>3. CASE SwitchDelete(d)
  <2>1. EveryNodeHasDatapath'
    BY <1>3 DEF SwitchDelete, GraphInv, EveryNodeHasDatapath
  <2>2. adj' = Unlinked(adj, d, Dpid) /\ nodes' = nodes \ {d}
    BY <1>3 DEF SwitchDelete
  <2>3. GraphIsSound'
    BY <2>2, UnlinkedIsSound DEF GraphInv
  <2>4. \A m \in Mac : mac_to_loc'[m] \in {mac_to_loc[m], None}
    BY <1>3 DEF SwitchDelete, Unlocated
  <2>5. NoHostOnSwitchPort'
    BY <2>2, <2>4, NoHostKept, UnlinkedFreesPorts DEF GraphInv
  <2> QED BY <1>1, <2>1, <2>3, <2>5 DEF GraphInv
<1> QED BY <1>2, <1>3

\* The entries of the graph after a link is added.
LEMMA LinkAddEntries ==
    ASSUME TypeOK, NEW c \in Cable, LinkAdd(c[1], c[2])
    PROVE  \A a, b \in Dpid :
              adj'[a][b] = IF a = c[1][1] /\ b = c[2][1] THEN c[1][2]
                           ELSE IF a = c[2][1] /\ b = c[1][1] THEN c[2][2]
                           ELSE adj[a][b]
<1>1. c[1][1] \in Dpid /\ c[2][1] \in Dpid /\ c[1][1] # c[2][1]
  BY CableAssumption DEF Loc
<1>2. adj' = [adj EXCEPT ![c[1][1]][c[2][1]] = c[1][2],
                         ![c[2][1]][c[1][1]] = c[2][2]]
  BY DEF LinkAdd
<1> QED BY <1>1, <1>2 DEF TypeOK

LEMMA LinkAddKeepsGraph ==
    ASSUME GraphInv, NEW c \in Cable, LinkAdd(c[1], c[2])
    PROVE  GraphIsSound' /\ EveryNodeHasDatapath' /\ NoHostOnSwitchPort'
<1>1. /\ c[1][1] \in Dpid /\ c[1][2] \in Port /\ c[2][1] \in Dpid /\ c[2][2] \in Port
      /\ c[1] = <<c[1][1], c[1][2]>> /\ c[2] = <<c[2][1], c[2][2]>>
      /\ <<c[1], c[2]>> \in Cable /\ <<c[2], c[1]>> \in Cable
  <2>1. c \in Loc \X Loc /\ <<c[1], c[2]>> \in Cable
    BY CableAssumption, Zenon DEF LinkAdd
  <2>2. c[1] \in Loc /\ c[2] \in Loc
    BY <2>1
  <2>3. <<c[2], c[1]>> \in Cable
    BY CableAssumption, Zenon
  <2> QED BY <2>1, <2>2, <2>3 DEF Loc
<1>2. {c[1][1], c[2][1]} \subseteq nodes /\ nodes' = nodes /\ connected' = connected
  BY DEF LinkAdd, GraphInv, EveryNodeHasDatapath
<1>3. GraphIsSound'
  <2> SUFFICES ASSUME NEW a \in Dpid, NEW b \in Dpid, adj'[a][b] # None
               PROVE  /\ {a, b} \subseteq nodes'
                      /\ adj'[b][a] # None
                      /\ <<<<a, adj'[a][b]>>, <<b, adj'[b][a]>>>> \in Cable
    BY DEF GraphIsSound
  <2>0. c[1][1] # c[2][1]
    BY CableAssumption
  <2>1. CASE a = c[1][1] /\ b = c[2][1]
    <3>1. adj'[a][b] = c[1][2] /\ adj'[b][a] = c[2][2]
      BY <2>0, <2>1, LinkAddEntries DEF GraphInv
    <3> QED BY <1>1, <1>2, <2>1, <3>1
  <2>2. CASE a = c[2][1] /\ b = c[1][1]
    <3>1. adj'[a][b] = c[2][2] /\ adj'[b][a] = c[1][2]
      BY <2>0, <2>2, LinkAddEntries DEF GraphInv
    <3> QED BY <1>1, <1>2, <2>2, <3>1
  <2>3. CASE ~(a = c[1][1] /\ b = c[2][1]) /\ ~(a = c[2][1] /\ b = c[1][1])
    <3>1. adj'[a][b] = adj[a][b] /\ adj'[b][a] = adj[b][a]
      BY <2>3, LinkAddEntries DEF GraphInv
    <3> QED BY <1>2, <3>1 DEF GraphInv, GraphIsSound
  <2> QED BY <2>1, <2>2, <2>3
<1>4. EveryNodeHasDatapath'
  BY <1>2, SMTT(40) DEF GraphInv, EveryNodeHasDatapath
<1>5. mac_to_loc' = Unlocated(mac_to_loc, Poisoned(adj', mac_to_loc))
  BY DEF LinkAdd
<1>6. NoHostOnSwitchPort'
  BY <1>5 DEF NoHostOnSwitchPort, Located, Unlocated, Poisoned
<1> QED BY <1>3, <1>4, <1>6, SMTT(40)

LEMMA LinkKeepsGraph ==
    ASSUME GraphInv, LinkEvent
    PROVE  GraphInv'
<1>1. TypeOK'
  BY LinkTypes DEF GraphInv
<1>2. ASSUME NEW c \in Cable, LinkAdd(c[1], c[2]) PROVE GraphInv'
  BY <1>1, <1>2, LinkAddKeepsGraph DEF GraphInv
<1>3. ASSUME NEW d \in Dpid, NEW far, adj' = Unlinked(adj, d, far),
             nodes' = nodes, connected' = connected,
             \A m \in Mac : mac_to_loc'[m] \in {mac_to_loc[m], None}
      PROVE  GraphInv'
  <2>1. GraphIsSound'
    BY <1>3, UnlinkedIsSound DEF GraphInv
  <2>2. NoHostOnSwitchPort'
    BY <1>3, NoHostKept, UnlinkedFreesPorts DEF GraphInv
  <2> QED BY <1>1, <1>3, <2>1, <2>2 DEF GraphInv, EveryNodeHasDatapath
<1>4. ASSUME NEW a \in Dpid, NEW b \in Dpid, LinkDelete(a, b) PROVE GraphInv'
  BY <1>3, <1>4 DEF LinkDelete, Unlocated
<1>5. ASSUME NEW d \in Dpid, NEW p \in Port, PortModify(d, p) PROVE GraphInv'
  BY <1>3, <1>5 DEF PortModify, Unlocated
<1> QED BY <1>2, <1>4, <1>5 DEF LinkEvent

LEMMA HostKeepsGraph ==
    ASSUME GraphInv, HostEvent
    PROVE  GraphInv'
<1>1. TypeOK'
  BY HostTypes DEF GraphInv
<1>2. UNCHANGED <<nodes, adj, connected>>
  BY HostEventLearns DEF GraphInv
<1>3. GraphIsSound' /\ EveryNodeHasDatapath'
  BY <1>2, GraphKept DEF GraphInv
<1>4. PICK m \in Mac, d \in Dpid, p \in Port, a \in BOOLEAN :
          mac_to_loc' = LocAfter(m, d, p, a)
  BY HostEventLearns DEF GraphInv
<1>5. CASE Learns(m, d, p, a)
  <2>1. mac_to_loc' = [mac_to_loc EXCEPT ![m] = <<d, p>>] /\ ~IsSwitchPort(adj, d, p)
    BY <1>4, <1>5 DEF LocAfter, Learns
  <2>2. NoHostOnSwitchPort'
    BY <1>2, <2>1 DEF GraphInv, TypeOK, NoHostOnSwitchPort, Located
  <2> QED BY <1>1, <1>3, <2>2 DEF GraphInv
<1>6. CASE ~Learns(m, d, p, a)
  <2>1. \A h \in Mac : mac_to_loc'[h] \in {mac_to_loc[h], None}
    BY <1>4, <1>6 DEF LocAfter, Unlocated
  <2>2. NoHostOnSwitchPort'
    BY <1>2, <2>1, NoHostKept DEF GraphInv
  <2> QED BY <1>1, <1>3, <2>2 DEF GraphInv
<1> QED BY <1>5, <1>6

LEMMA GraphInvInit == Init => GraphInv
<1> SUFFICES ASSUME Init PROVE GraphInv
  OBVIOUS
<1>1. TypeOK
  BY InitTypes
<1>2. GraphIsSound /\ EveryNodeHasDatapath /\ NoHostOnSwitchPort
  BY DEF Init, GraphIsSound, EveryNodeHasDatapath, NoHostOnSwitchPort, Located
<1> QED BY <1>1, <1>2 DEF GraphInv

LEMMA GraphInvStep == GraphInv /\ [Next]_vars => GraphInv'
<1> SUFFICES ASSUME GraphInv, [Next]_vars PROVE GraphInv'
  OBVIOUS
<1>1. CASE SwitchEvent
  BY <1>1, SwitchKeepsGraph DEF SwitchEvent
<1>2. CASE LinkEvent
  BY <1>2, LinkKeepsGraph
<1>3. CASE HostEvent
  BY <1>3, HostKeepsGraph
<1>4. CASE UNCHANGED vars
  BY <1>4 DEF vars, GraphInv, TypeOK, GraphIsSound, EveryNodeHasDatapath,
              NoHostOnSwitchPort, Located
<1> QED BY <1>1, <1>2, <1>3, <1>4 DEF Next

LEMMA GraphInvariant == Spec => []GraphInv
BY GraphInvInit, GraphInvStep, PTL DEF Spec

\* No order of events leaves half a link, a link of a departed switch, or a
\* link that is not cabled.
THEOREM GraphAlwaysSound == Spec => []GraphIsSound
<1>1. GraphInv => GraphIsSound
  BY DEF GraphInv
<1> QED BY <1>1, GraphInvariant, PTL

\* Every switch a path can pass has a datapath to install its flow on.
THEOREM NodesHaveDatapaths == Spec => []EveryNodeHasDatapath
<1>1. GraphInv => EveryNodeHasDatapath
  BY DEF GraphInv
<1> QED BY <1>1, GraphInvariant, PTL

\* No flooded packet, in whatever order it meets the discovery of links,
\* leaves a host placed on a link.
THEOREM HostsStayOffLinks == Spec => []NoHostOnSwitchPort
<1>1. GraphInv => NoHostOnSwitchPort
  BY DEF GraphInv
<1> QED BY <1>1, GraphInvariant, PTL

-----------------------------------------------------------------------------
(***************************************************************************)
(* The flows.  Flow table f delivers to host m at location loc over graph  *)
(* g when, on the switches in c, no entry is outdated, none leads to a     *)
(* switch without an entry, and none lies on a loop.                       *)
(***************************************************************************)

Follows(g, c, f, loc, m) ==
    \A d \in c : f[d][m] # None =>
        IF d = loc[1] THEN f[d][m] = loc[2]
        ELSE \E n \in Dpid : g[d][n] = f[d][m]

LeadsOn(g, f, d, n, m) == f[d][m] # None /\ g[d][n] = f[d][m]

NoDeadEnd(g, c, f, m) ==
    \A d \in c, n \in Dpid : LeadsOn(g, f, d, n, m) => n \in c /\ f[n][m] # None

LoopFree(g, c, f, m) ==
    \A S \in (SUBSET c) \ {{}} : \E d \in S : \A n \in S : ~LeadsOn(g, f, d, n, m)

Delivers(g, c, f, loc, m) ==
    Follows(g, c, f, loc, m) /\ NoDeadEnd(g, c, f, m) /\ LoopFree(g, c, f, m)

\* A table without entries for m delivers.
LEMMA EmptyDelivers ==
    ASSUME NEW g, NEW c \in SUBSET Dpid, NEW f, NEW loc, NEW m,
           \A d \in c : f[d][m] = None
    PROVE  Delivers(g, c, f, loc, m)
<1>1. ASSUME NEW S \in (SUBSET c) \ {{}}
      PROVE  \E d \in S : \A n \in S : ~LeadsOn(g, f, d, n, m)
  BY <1>1 DEF LeadsOn
<1>2. LoopFree(g, c, f, m)
  BY <1>1 DEF LoopFree
<1> QED BY <1>2 DEF Delivers, Follows, NoDeadEnd, LeadsOn

\* Delivery depends only on the entries for m and on where they lead.
LEMMA SameDelivers ==
    ASSUME NEW g, NEW c \in SUBSET Dpid, NEW f, NEW loc, NEW m,
           Delivers(g, c, f, loc, m), NEW g2, NEW f2,
           \A d \in c : f2[d][m] = f[d][m],
           \A d \in c, n \in Dpid :
              f[d][m] # None => (g2[d][n] = f[d][m] <=> g[d][n] = f[d][m])
    PROVE  Delivers(g2, c, f2, loc, m)
<1>1. \A d \in c, n \in Dpid : LeadsOn(g2, f2, d, n, m) <=> LeadsOn(g, f, d, n, m)
  BY DEF LeadsOn
<1>2. Follows(g2, c, f2, loc, m)
  BY DEF Delivers, Follows
<1>3. NoDeadEnd(g2, c, f2, m)
  BY <1>1 DEF Delivers, NoDeadEnd
<1>4. LoopFree(g2, c, f2, m)
  BY <1>1 DEF Delivers, LoopFree
<1> QED BY <1>2, <1>3, <1>4 DEF Delivers

\* A switch that joins with an empty table and no links keeps delivery.
LEMMA JoinDelivers ==
    ASSUME NEW g, NEW c \in SUBSET Dpid, NEW f, NEW loc, NEW m,
           Delivers(g, c, f, loc, m), NEW d \in Dpid, d \notin c, NEW f2,
           \A e \in c : f2[e][m] = f[e][m], f2[d][m] = None
    PROVE  Delivers(g, c \cup {d}, f2, loc, m)
<1>1. Follows(g, c \cup {d}, f2, loc, m)
  BY DEF Delivers, Follows
<1>2. NoDeadEnd(g, c \cup {d}, f2, m)
  BY DEF Delivers, NoDeadEnd, LeadsOn
<1>3. LoopFree(g, c \cup {d}, f2, m)
  <2> SUFFICES ASSUME NEW S \in SUBSET (c \cup {d}), S # {}
               PROVE  \E e \in S : \A n \in S : ~LeadsOn(g, f2, e, n, m)
    BY DEF LoopFree
  <2>1. CASE d \in S
    BY <2>1 DEF LeadsOn
  <2>2. CASE d \notin S
    <3>1. PICK e \in S : \A n \in S : ~LeadsOn(g, f, e, n, m)
      BY <2>2 DEF Delivers, LoopFree
    <3> QED BY <2>2, <3>1 DEF LeadsOn
  <2> QED BY <2>1, <2>2
<1> QED BY <1>1, <1>2, <1>3 DEF Delivers

\* The switches of a computed path have datapaths.
LEMMA PathConnected ==
    ASSUME GraphInv, NEW q, NEW n, NEW t \in Dpid, IsPath(q, n, t),
           n # 1 \/ t \in connected
    PROVE  \A k \in 1..n : q[k] \in connected
<1> SUFFICES ASSUME NEW k \in 1..n PROVE q[k] \in connected
  OBVIOUS
<1>1. n \in Nat \ {0} /\ \A j \in 1..n : q[j] \in Dpid
  BY DEF IsPath
<1>2. CASE k # n
  <2>1. k \in 1..(n - 1) /\ k + 1 \in 1..n
    BY <1>1, <1>2
  <2>2. adj[q[k]][q[k + 1]] # None
    BY <2>1 DEF IsPath
  <2> QED BY <1>1, <2>1, <2>2 DEF GraphInv, GraphIsSound, EveryNodeHasDatapath
<1>3. CASE k = n /\ n # 1
  <2>1. n - 1 \in 1..(n - 1) /\ n - 1 \in 1..n /\ (n - 1) + 1 = n
    BY <1>1, <1>3
  <2>2. adj[q[n - 1]][q[n]] # None
    BY <2>1 DEF IsPath
  <2>3. q[n - 1] \in Dpid /\ q[n] \in Dpid
    BY <1>1, <2>1
  <2> QED BY <1>3, <2>2, <2>3 DEF GraphInv, GraphIsSound, EveryNodeHasDatapath
<1>4. CASE k = n /\ n = 1
  BY <1>4 DEF IsPath
<1> QED BY <1>2, <1>3, <1>4

\* A graph that is sound and cabled leads through a port to one switch.
LEMMA OneFarEnd ==
    ASSUME GraphIsSound, NEW d \in Dpid, NEW a \in Dpid, NEW b \in Dpid,
           adj[d][a] # None, adj[d][b] = adj[d][a]
    PROVE  a = b
<1>1. /\ <<<<d, adj[d][a]>>, <<a, adj[a][d]>>>> \in Cable
      /\ <<<<d, adj[d][a]>>, <<b, adj[b][d]>>>> \in Cable
  BY DEF GraphIsSound
<1>2. <<a, adj[a][d]>> = <<b, adj[b][d]>>
  BY <1>1, CableAssumption
<1> QED BY <1>2

\* Installing a path to a host that is not on a link keeps delivery: the new
\* entries lead one after the other to the host's port, and the old ones
\* either stay off the path or reach it.
LEMMA InstalledDelivers ==
    ASSUME GraphInv, NEW f \in FlowTables, NEW m \in Mac, NEW loc \in Loc,
           ~IsSwitchPort(adj, loc[1], loc[2]),
           NEW s \in Dpid, NEW q \in ShortestPaths(adj, nodes, s, loc[1]),
           Delivers(adj, connected, f, loc, m)
    PROVE  Delivers(adj, connected, Installed(f, q, loc, m), loc, m)
<1> DEFINE t == loc[1]
           h == Installed(f, q, loc, m)
           Onward(k, x) == LeadsOn(adj, h, q[k], x, m)
<1>1. /\ t \in Dpid /\ loc[2] \in Port /\ connected \subseteq Dpid
      /\ adj \in Graphs
  BY TypeSets DEF Loc, GraphInv
<1>2. PICK n \in Nat : IsPath(q, n, t)
  BY <1>1, ShortestPathIsPath
<1>3. n \in Nat \ {0} /\ DOMAIN q = 1..n /\ q[n] = t /\ \A k \in 1..n : q[k] \in Dpid
  BY <1>2 DEF IsPath
<1>4. ASSUME NEW d \in connected, \A k \in 1..n : q[k] # d
      PROVE  h[d][m] = f[d][m]
  BY <1>1, <1>3, <1>4 DEF Installed
<1>5. CASE n = 1 /\ t \notin connected
  <2>1. \A d \in connected : h[d][m] = f[d][m]
    BY <1>3, <1>4, <1>5
  <2> HIDE DEF h
  <2> QED BY <1>1, <2>1, SameDelivers DEF h
<1>6. CASE n # 1 \/ t \in connected
  <2>1. \A k \in 1..n : q[k] \in connected
    BY <1>1, <1>2, <1>6, PathConnected
  <2>2. ASSUME NEW k \in 1..n
        PROVE  h[q[k]][m] = IF q[k] = t THEN loc[2] ELSE HopPort(adj, q, q[k])
    BY <1>1, <1>3, <2>1 DEF Installed, FlowTables
  <2>3. ASSUME NEW k \in 1..(n - 1)
        PROVE  /\ k \in 1..n /\ k + 1 \in 1..n
               /\ h[q[k]][m] = adj[q[k]][q[k + 1]]
               /\ h[q[k]][m] # None
               /\ q[k] # t
    <3>1. k \in 1..n /\ k + 1 \in 1..n /\ n \in 1..n /\ k # n
      BY <1>3
    <3>2. q[k] # t
      BY <1>2, <1>3, <3>1 DEF IsPath
    <3>3. HopPort(adj, q, q[k]) = adj[q[k]][q[k + 1]]
      BY <1>2, HopPortIsNext
    <3>4. adj[q[k]][q[k + 1]] # None
      BY <1>2 DEF IsPath
    <3> HIDE DEF h
    <3> QED BY <2>2, <3>1, <3>2, <3>3, <3>4
  <2>4. n \in 1..n /\ h[t][m] = loc[2] /\ h[t][m] # None
    BY <1>1, <1>3, <2>2
  <2> HIDE DEF h
  <2>5. \A k \in 1..n : h[q[k]][m] # None
    <3> TAKE k \in 1..n
    <3>1. k \in 1..(n - 1) \/ k = n
      BY <1>3
    <3> QED BY <1>3, <2>3, <2>4, <3>1
  <2>6. ASSUME NEW k \in 1..(n - 1), NEW x \in Dpid, Onward(k, x)
        PROVE  x = q[k + 1]
    <3>1. adj[q[k]][x] = adj[q[k]][q[k + 1]] /\ adj[q[k]][q[k + 1]] # None
      BY <2>3, <2>6 DEF LeadsOn
    <3> QED BY <1>3, <2>3, <3>1, OneFarEnd DEF GraphInv
  <2>7. \A x \in Dpid : ~Onward(n, x)
    BY <1>1, <1>3, <2>4 DEF LeadsOn, IsSwitchPort
  <2>8. Follows(adj, connected, h, loc, m)
    <3> SUFFICES ASSUME NEW d \in connected, h[d][m] # None
                 PROVE  IF d = t THEN h[d][m] = loc[2]
                        ELSE \E x \in Dpid : adj[d][x] = h[d][m]
      BY DEF Follows
    <3>1. CASE \A k \in 1..n : q[k] # d
      BY <1>4, <3>1 DEF Delivers, Follows
    <3>2. CASE \E k \in 1..n : q[k] = d
      <4>1. PICK k \in 1..n : q[k] = d
        BY <3>2
      <4>2. k \in 1..(n - 1) \/ k = n
        BY <1>3
      <4> QED BY <1>3, <2>3, <2>4, <4>1, <4>2
    <3> QED BY <3>1, <3>2
  <2>9. NoDeadEnd(adj, connected, h, m)
    <3> SUFFICES ASSUME NEW d \in connected, NEW x \in Dpid, LeadsOn(adj, h, d, x, m)
                 PROVE  x \in connected /\ h[x][m] # None
      BY DEF NoDeadEnd
    <3>1. CASE \A k \in 1..n : q[k] # d
      <4>1. LeadsOn(adj, f, d, x, m)
        BY <1>4, <3>1 DEF LeadsOn
      <4>2. x \in connected /\ f[x][m] # None
        BY <4>1 DEF Delivers, NoDeadEnd
      <4> QED BY <1>4, <2>5, <4>2
    <3>2. CASE \E k \in 1..n : q[k] = d
      <4>1. PICK k \in 1..n : q[k] = d
        BY <3>2
      <4>2. k \in 1..(n - 1) \/ k = n
        BY <1>3
      <4>3. k \in 1..(n - 1) /\ x = q[k + 1]
        BY <2>6, <2>7, <4>1, <4>2
      <4> QED BY <2>1, <2>3, <2>5, <4>3
    <3> QED BY <3>1, <3>2
  <2>10. LoopFree(adj, connected, h, m)
    <3> SUFFICES ASSUME NEW S \in (SUBSET connected) \ {{}}
                 PROVE  \E d \in S : \A x \in S : ~LeadsOn(adj, h, d, x, m)
      BY DEF LoopFree
    <3>1. CASE \A k \in 1..n : q[k] \notin S
      <4>1. PICK d \in S : \A x \in S : ~LeadsOn(adj, f, d, x, m)
        BY DEF Delivers, LoopFree
      <4>2. h[d][m] = f[d][m]
        BY <1>4, <3>1
      <4> QED BY <4>1, <4>2 DEF LeadsOn
    <3>2. CASE \E k \in 1..n : q[k] \in S
      <4> DEFINE T == {k \in 1..n : q[k] \in S}
      <4>1. PICK k \in T : \A j \in T : j <= k
        BY <1>3, <3>2, LastPosition
      <4>2. k \in 1..(n - 1) \/ k = n
        BY <1>3
      <4>3. ASSUME NEW x \in S, LeadsOn(adj, h, q[k], x, m) PROVE FALSE
        <5>1. x \in Dpid
          BY <1>1
        <5>2. k \in 1..(n - 1) /\ x = q[k + 1]
          BY <2>6, <2>7, <4>2, <4>3, <5>1
        <5>3. k + 1 \in T
          BY <2>3, <5>2
        <5> QED BY <4>1, <5>2, <5>3
      <4> QED BY <4>1, <4>3
    <3> QED BY <3>1, <3>2
  <2> QED BY <2>8, <2>9, <2>10 DEF Delivers, h
<1> QED BY <1>5, <1>6

-----------------------------------------------------------------------------
(***************************************************************************)
(* Delivery is an invariant, if flow tables do not outlive connections.    *)
(***************************************************************************)

FlowInv ==
    \A m \in Mac :
        Located(m) => Delivers(adj, connected, flows, mac_to_loc[m], m)

\* Once the entries for m are deleted everywhere, what is left delivers.
LEMMA ClearedDelivers ==
    ASSUME NEW g, NEW sw, NEW c \in SUBSET sw, sw \subseteq Dpid, NEW f, NEW loc,
           NEW macs, NEW m \in Mac, m \in macs
    PROVE  Delivers(g, c, Cleared(f, sw, macs), loc, m)
<1>1. \A d \in c : Cleared(f, sw, macs)[d][m] = None
  BY DEF Cleared
<1> QED BY <1>1, EmptyDelivers

LEMMA SwitchKeepsFlows ==
    ASSUME GraphInv, FlowInv, ~TableSurvives,
           NEW d \in Dpid, SwitchAdd(d) \/ SwitchDelete(d)
    PROVE  FlowInv'
<1> SUFFICES ASSUME NEW m \in Mac, Located(m)'
             PROVE  Delivers(adj', connected', flows', mac_to_loc'[m], m)
  BY DEF FlowInv
<1>1. connected \subseteq Dpid /\ flows \in FlowTables
  BY TypeSets DEF GraphInv
<1>2. CASE SwitchAdd(d)
  <2>1. /\ flows' = [flows EXCEPT ![d] = NoFlows] /\ d \notin connected
        /\ connected' = connected \cup {d} /\ adj' = adj /\ mac_to_loc' = mac_to_loc
    BY <1>2 DEF SwitchAdd
  <2>2. \A e \in connected : flows'[e][m] = flows[e][m]
    BY <1>1, <2>1 DEF FlowTables
  <2>3. flows'[d][m] = None
    BY <1>1, <2>1 DEF FlowTables, NoFlows
  <2>4. Delivers(adj, connected, flows, mac_to_loc[m], m)
    BY <2>1 DEF FlowInv, Located
  <2> QED BY <1>1, <2>1, <2>2, <2>3, <2>4, JoinDelivers
<1>3. CASE SwitchDelete(d)
  <2>1. m \in KnownMacs(mac_to_loc', ip_to_mac')
    BY DEF KnownMacs, Located
  <2>2. /\ flows' = Cleared(flows, connected', KnownMacs(mac_to_loc', ip_to_mac'))
        /\ connected' \subseteq Dpid
    BY <1>1, <1>3 DEF SwitchDelete
  <2> QED BY <2>1, <2>2, ClearedDelivers
<1> QED BY <1>2, <1>3

\* A new link gives no entry that is kept a new meaning.
LEMMA LinkAddKeepsMeaning ==
    ASSUME GraphInv, FlowInv, NEW c \in Cable, LinkAdd(c[1], c[2]),
           NEW m \in Mac, Located(m)',
           adj[c[1][1]][c[2][1]] = None, adj[c[2][1]][c[1][1]] = None,
           NEW d \in connected, NEW n \in Dpid, flows[d][m] # None
    PROVE  (adj'[d][n] = flows[d][m]) <=> (adj[d][n] = flows[d][m])
<1>1. /\ c[1] = <<c[1][1], c[1][2]>> /\ c[2] = <<c[2][1], c[2][2]>>
      /\ c[1][1] \in Dpid /\ c[2][1] \in Dpid /\ d \in Dpid
      /\ <<c[1], c[2]>> \in Cable /\ <<c[2], c[1]>> \in Cable
  BY CableAssumption DEF Loc, LinkAdd, GraphInv, TypeOK
<1>2. /\ mac_to_loc[m] # None /\ m \notin Poisoned(adj', mac_to_loc)
  BY DEF LinkAdd, Located, Unlocated
<1>3. Delivers(adj, connected, flows, mac_to_loc[m], m)
  BY <1>2 DEF FlowInv, Located
<1>4. CASE adj'[d][n] = adj[d][n]
  BY <1>4
<1>5. CASE adj'[d][n] # adj[d][n]
  <2>1. PICK e \in {<<c[1], c[2]>>, <<c[2], c[1]>>} :
            d = e[1][1] /\ n = e[2][1] /\ adj'[d][n] = e[1][2] /\ adj[d][n] = None
    BY <1>1, <1>5, LinkAddEntries DEF GraphInv
  <2>2. e \in Cable /\ e[1] = <<d, adj'[d][n]>>
    BY <1>1, <2>1
  <2>3. ASSUME adj'[d][n] = flows[d][m] PROVE FALSE
    <3>1. CASE d = mac_to_loc[m][1]
      <4>1. flows[d][m] = mac_to_loc[m][2]
        BY <1>3, <3>1 DEF Delivers, Follows
      <4>2. m \in Poisoned(adj', mac_to_loc)
        BY <1>2, <2>3, <3>1, <4>1 DEF Poisoned, IsSwitchPort
      <4> QED BY <1>2, <4>2
    <3>2. CASE d # mac_to_loc[m][1]
      <4>1. PICK x \in Dpid : adj[d][x] = flows[d][m]
        BY <1>3, <3>2 DEF Delivers, Follows
      <4>2. <<<<d, adj[d][x]>>, <<x, adj[x][d]>>>> \in Cable
        BY <1>1, <4>1 DEF GraphInv, GraphIsSound
      <4>3. e[2] = <<x, adj[x][d]>>
        BY <2>2, <2>3, <4>1, <4>2, CableAssumption
      <4>4. x = n
        BY <2>1, <4>3
      <4> QED BY <2>1, <4>1, <4>4
    <3> QED BY <3>1, <3>2
  <2> QED BY <2>1, <2>3
<1> QED BY <1>4, <1>5

LEMMA LinkKeepsFlows ==
    ASSUME GraphInv, FlowInv, LinkEvent
    PROVE  FlowInv'
<1> SUFFICES ASSUME NEW m \in Mac, Located(m)'
             PROVE  Delivers(adj', connected', flows', mac_to_loc'[m], m)
  BY DEF FlowInv
<1>1. connected \subseteq Dpid /\ flows \in FlowTables /\ adj \in Graphs
  BY TypeSets DEF GraphInv
<1>2. ASSUME NEW c \in Cable, LinkAdd(c[1], c[2])
      PROVE  Delivers(adj', connected', flows', mac_to_loc'[m], m)
  <2> DEFINE old == <<adj[c[1][1]][c[2][1]], adj[c[2][1]][c[1][1]]>>
             updated == old # <<c[1][2], c[2][2]>> /\ old # <<None, None>>
             cleared == Poisoned(adj', mac_to_loc) \cup
                        (IF updated THEN KnownMacs(mac_to_loc, ip_to_mac) ELSE {})
  <2>1. flows' = Cleared(flows, connected, cleared) /\ connected' = connected
    BY <1>2, ZenonT(60) DEF LinkAdd
  <2>2. /\ mac_to_loc'[m] = mac_to_loc[m] /\ mac_to_loc[m] # None
        /\ m \notin Poisoned(adj', mac_to_loc)
    BY <1>2 DEF LinkAdd, Located, Unlocated
  <2>3. Delivers(adj, connected, flows, mac_to_loc[m], m)
    BY <2>2 DEF FlowInv, Located
  <2>4. CASE updated
    <3>1. m \in cleared
      BY <2>2, <2>4 DEF KnownMacs
    <3> HIDE DEF cleared
    <3> QED BY <1>1, <2>1, <3>1, ClearedDelivers
  <2>5. CASE ~updated
    <3>1. m \notin cleared
      BY <2>2, <2>5, SMTT(40)
    <3>2. \A d \in connected : flows'[d][m] = flows[d][m]
      BY <1>1, <2>1, <3>1 DEF Cleared
    <3>3. \A d \in connected, n \in Dpid :
              flows[d][m] # None =>
                  (adj'[d][n] = flows[d][m] <=> adj[d][n] = flows[d][m])
      <4>1. CASE old = <<None, None>>
        BY <1>2, <4>1, LinkAddKeepsMeaning
      <4>2. CASE old = <<c[1][2], c[2][2]>>
        <5>1. adj[c[1][1]][c[2][1]] = c[1][2] /\ adj[c[2][1]][c[1][1]] = c[2][2]
          BY <4>2
        <5>2. \A a, b \in Dpid : adj'[a][b] = adj[a][b]
          BY <1>2, <5>1, LinkAddEntries DEF GraphInv
        <5> QED BY <1>1, <5>2
      <4> QED BY <2>5, <4>1, <4>2
    <3> HIDE DEF cleared, updated, old
    <3> QED BY <1>1, <2>1, <2>2, <2>3, <3>2, <3>3, SameDelivers
  <2> QED BY <2>4, <2>5, SMTT(40)
<1>3. ASSUME NEW a \in Dpid, NEW b \in Dpid, LinkDelete(a, b)
      PROVE  Delivers(adj', connected', flows', mac_to_loc'[m], m)
  <2> DEFINE cleared == KnownMacs(mac_to_loc, ip_to_mac) \cup
                        Poisoned(Unlinked(adj, a, {b}), mac_to_loc)
  <2>1. flows' = Cleared(flows, connected, cleared) /\ connected' = connected
    BY <1>3 DEF LinkDelete
  <2>2. m \in cleared
    BY <1>3 DEF LinkDelete, Located, Unlocated, KnownMacs
  <2> HIDE DEF cleared
  <2> QED BY <1>1, <2>1, <2>2, ClearedDelivers
<1>4. ASSUME NEW d \in Dpid, NEW p \in Port, PortModify(d, p)
      PROVE  Delivers(adj', connected', flows', mac_to_loc'[m], m)
  <2> DEFINE far == {n \in Dpid : adj[d][n] = p}
             gone == {h \in Mac : mac_to_loc[h] = <<d, p>>}
             locs == Unlocated(mac_to_loc, gone)
             ips == Unresolved(ip_to_mac, gone)
             poisoned == IF far = {} THEN {} ELSE Poisoned(Unlinked(adj, d, far), locs)
             stale == IF far = {} THEN {} ELSE KnownMacs(locs, ips)
             cleared == stale \cup poisoned
  <2>1. /\ flows' = Cleared(flows, connected, cleared) /\ connected' = connected
        /\ mac_to_loc' = Unlocated(locs, poisoned) /\ adj' = Unlinked(adj, d, far)
    BY <1>4 DEF PortModify
  <2>2. mac_to_loc'[m] = locs[m] /\ locs[m] = mac_to_loc[m] /\ locs[m] # None
    BY <2>1 DEF Located, Unlocated
  <2>3. CASE far = {}
    <3>1. \A e \in connected : flows'[e][m] = flows[e][m]
      BY <1>1, <2>1, <2>3 DEF Cleared
    <3>2. \A e \in Dpid, n \in Dpid : adj'[e][n] = adj[e][n]
      BY <2>1, <2>3 DEF Unlinked
    <3>3. Delivers(adj, connected, flows, mac_to_loc[m], m)
      BY <2>2 DEF FlowInv, Located
    <3> HIDE DEF far, gone, locs, ips, poisoned, stale, cleared
    <3> QED BY <1>1, <2>1, <2>2, <3>1, <3>2, <3>3, SameDelivers
  <2>4. CASE far # {}
    <3>1. m \in cleared
      BY <2>2, <2>4 DEF KnownMacs
    <3> HIDE DEF cleared
    <3> QED BY <1>1, <2>1, <3>1, ClearedDelivers
  <2> QED BY <2>3, <2>4
<1> QED BY <1>2, <1>3, <1>4 DEF LinkEvent

\* What learning leaves of the flows delivers to where the hosts then are.
LEMMA LearningDelivers ==
    ASSUME GraphInv, FlowInv, NEW m \in Mac, NEW d \in Dpid, NEW p \in Port,
           NEW a \in BOOLEAN, NEW x \in Mac, LocAfter(m, d, p, a)[x] # None
    PROVE  Delivers(adj, connected, FlowsAfter(m, d, p, a), LocAfter(m, d, p, a)[x], x)
<1>1. connected \subseteq Dpid /\ flows \in FlowTables /\ mac_to_loc \in Locations
  BY TypeSets DEF GraphInv
<1>2. ~(Learns(m, d, p, a) /\ Forgets(m, d, p, a))
  BY DEF Learns, Forgets
<1>3. CASE x = m /\ (Learns(m, d, p, a) \/ Forgets(m, d, p, a))
  <2>1. FlowsAfter(m, d, p, a) = Cleared(flows, connected, {m})
    BY <1>3 DEF FlowsAfter
  <2> QED BY <1>1, <1>3, <2>1, ClearedDelivers
<1>4. CASE ~(x = m /\ (Learns(m, d, p, a) \/ Forgets(m, d, p, a)))
  <2>1. LocAfter(m, d, p, a)[x] = mac_to_loc[x]
    BY <1>1, <1>4 DEF LocAfter, Unlocated, Locations
  <2>2. \A e \in connected : FlowsAfter(m, d, p, a)[e][x] = flows[e][x]
    BY <1>1, <1>4 DEF FlowsAfter, Cleared
  <2>3. Delivers(adj, connected, flows, mac_to_loc[x], x)
    BY <2>1 DEF FlowInv, Located
  <2> QED BY <1>1, <2>1, <2>2, <2>3, SameDelivers
<1> QED BY <1>3, <1>4

LEMMA HostKeepsFlows ==
    ASSUME GraphInv, FlowInv, HostEvent
    PROVE  FlowInv'
<1>1. TypeOK /\ TypeOK' /\ NoHostOnSwitchPort' /\ connected \subseteq Dpid
  BY HostKeepsGraph DEF GraphInv, TypeOK
<1>2. UNCHANGED <<nodes, adj, connected>>
  BY <1>1, HostEventLearns
<1>3. PICK m \in Mac, d \in Dpid, p \in Port, a \in BOOLEAN :
              /\ mac_to_loc' = LocAfter(m, d, p, a)
              /\ FlowsLearned(LocAfter(m, d, p, a), FlowsAfter(m, d, p, a))
  BY <1>1, HostEventLearns
<1> DEFINE locs == LocAfter(m, d, p, a)
           learned == FlowsAfter(m, d, p, a)
<1>4. locs \in Locations /\ learned \in FlowTables
  BY <1>1, LearningType
<1> SUFFICES ASSUME NEW x \in Mac, locs[x] # None
             PROVE  Delivers(adj, connected, flows', locs[x], x)
  BY <1>2, <1>3 DEF FlowInv, Located
<1>5. Delivers(adj, connected, learned, locs[x], x)
  BY LearningDelivers
<1>6. CASE flows' = learned
  BY <1>5, <1>6
<1>7. CASE \E s \in Dpid, h \in Mac :
              locs[h] # None /\ flows' \in InstallPathFlows(learned, s, locs[h], h)
  <2>1. PICK s \in Dpid, h \in Mac :
              locs[h] # None /\ flows' \in InstallPathFlows(learned, s, locs[h], h)
    BY <1>7
  <2>2. CASE flows' = learned
    BY <1>5, <2>2
  <2>3. CASE \E q \in ShortestPaths(adj, nodes, s, locs[h][1]) :
                flows' = Installed(learned, q, locs[h], h)
    <3>1. PICK q \in ShortestPaths(adj, nodes, s, locs[h][1]) :
                flows' = Installed(learned, q, locs[h], h)
      BY <2>3
    <3>2. CASE h = x
      <4>1. locs[x] \in Loc
        BY <1>4 DEF Locations
      <4>2. ~IsSwitchPort(adj, locs[x][1], locs[x][2])
        BY <1>1, <1>2, <1>3 DEF NoHostOnSwitchPort, Located
      <4> HIDE DEF locs, learned
      <4> QED BY <1>4, <1>5, <3>1, <3>2, <4>1, <4>2, InstalledDelivers
    <3>3. CASE h # x
      <4> HIDE DEF locs, learned
      <4>1. \A e \in connected : flows'[e][x] = learned[e][x]
        BY <1>1, <1>4, <3>1, <3>3 DEF Installed, FlowTables
      <4> QED BY <1>1, <1>5, <4>1, SameDelivers
    <3> QED BY <3>2, <3>3
  <2> QED BY <2>1, <2>2, <2>3 DEF InstallPathFlows
<1> QED BY <1>3, <1>6, <1>7 DEF FlowsLearned

Inv == GraphInv /\ FlowInv

LEMMA FlowInvariant ==
    ASSUME ~TableSurvives
    PROVE  Spec => []Inv
<1>1. Init => Inv
  <2> SUFFICES ASSUME Init PROVE FlowInv
    BY GraphInvInit DEF Inv
  <2> QED BY DEF Init, FlowInv, Located
<1>2. Inv /\ [Next]_vars => Inv'
  <2> SUFFICES ASSUME GraphInv, FlowInv, [Next]_vars PROVE FlowInv'
    BY GraphInvStep DEF Inv
  <2>1. CASE SwitchEvent
    BY <2>1, SwitchKeepsFlows DEF SwitchEvent
  <2>2. CASE LinkEvent
    BY <2>2, LinkKeepsFlows
  <2>3. CASE HostEvent
    BY <2>3, HostKeepsFlows
  <2>4. CASE UNCHANGED vars
    BY <2>4 DEF vars, FlowInv, Located
  <2> QED BY <2>1, <2>2, <2>3, <2>4 DEF Next
<1> QED BY <1>1, <1>2, PTL DEF Spec

LEMMA DeliveryParts ==
    ASSUME Inv
    PROVE  FlowsFollowTopology /\ FlowsAreLoopFree /\ FlowsHaveNoDeadEnd
<1>1. ASSUME NEW m \in Mac, Located(m)
      PROVE  /\ Follows(adj, connected, flows, mac_to_loc[m], m)
             /\ NoDeadEnd(adj, connected, flows, m)
             /\ LoopFree(adj, connected, flows, m)
  BY <1>1 DEF Inv, FlowInv, Delivers
<1>2. \A d, n \in Dpid, m \in Mac :
          Leads(d, n, m) <=> LeadsOn(adj, flows, d, n, m)
  BY DEF Leads, LeadsOn
<1>3. connected \subseteq Dpid
  BY DEF Inv, GraphInv, TypeOK
<1>4. FlowsFollowTopology
  BY <1>1, <1>3 DEF FlowsFollowTopology, Follows, Leads
<1>5. FlowsAreLoopFree
  BY <1>1, <1>2, <1>3 DEF FlowsAreLoopFree, LoopFree
<1>6. FlowsHaveNoDeadEnd
  BY <1>1, <1>2, <1>3 DEF FlowsHaveNoDeadEnd, NoDeadEnd
<1> QED BY <1>4, <1>5, <1>6

\* The flows for a located host use its own port and present links only.
THEOREM FlowsAlwaysFollow ==
    ASSUME ~TableSurvives
    PROVE  Spec => []FlowsFollowTopology
<1>1. Inv => FlowsFollowTopology
  BY DeliveryParts
<1> QED BY <1>1, FlowInvariant, PTL

\* The flows for a located host never form a loop, whatever graphs their
\* pieces were computed on.
THEOREM FlowsNeverLoop ==
    ASSUME ~TableSurvives
    PROVE  Spec => []FlowsAreLoopFree
<1>1. Inv => FlowsAreLoopFree
  BY DeliveryParts
<1> QED BY <1>1, FlowInvariant, PTL

\* The flows for a located host never lead to a switch that has none.
THEOREM FlowsReachTheHost ==
    ASSUME ~TableSurvives
    PROVE  Spec => []FlowsHaveNoDeadEnd
<1>1. Inv => FlowsHaveNoDeadEnd
  BY DeliveryParts
<1> QED BY <1>1, FlowInvariant, PTL

\* Only a discovery event moves a located host anywhere but home: the second
\* reason for which _learn_host accepts a move never arises, because no host
\* is placed on a link.
THEOREM HostsMoveHome == Spec => PacketsMoveHostsHome
<1> DEFINE Moved(m) == Located(m) /\ Located(m)' /\ mac_to_loc'[m] # mac_to_loc[m]
           Accounted(m) ==
              \/ mac_to_loc'[m][1] = Home[m]
              \/ \E ips \in SUBSET Ip :
                    HostAdd(m, mac_to_loc'[m][1], mac_to_loc'[m][2], ips)
<1>1. GraphInv /\ [Next]_vars => [\A m \in Mac : Moved(m) => Accounted(m)]_vars
  <2> SUFFICES ASSUME GraphInv, Next, NEW m \in Mac, Moved(m) PROVE Accounted(m)
    OBVIOUS
  <2>1. CASE SwitchEvent \/ LinkEvent
    <3>1. mac_to_loc'[m] \in {mac_to_loc[m], None}
      BY <2>1 DEF SwitchEvent, LinkEvent, SwitchAdd, SwitchDelete, LinkAdd,
                  LinkDelete, PortModify, Unlocated
    <3> QED BY <3>1, SMTT(40) DEF Located
  <2>2. CASE HostEvent
    <3>1. PICK h \in Mac, d \in Dpid, p \in Port, a \in BOOLEAN :
              /\ mac_to_loc' = LocAfter(h, d, p, a)
              /\ a => \E ips \in SUBSET Ip : HostAdd(h, d, p, ips)
      BY <2>2, HostEventLearns DEF GraphInv
    <3>2. h = m /\ Learns(m, d, p, a) /\ mac_to_loc'[m] = <<d, p>>
      BY <3>1 DEF LocAfter, Unlocated, Located, GraphInv, TypeOK
    <3>3. CASE a
      <4>1. PICK ips \in SUBSET Ip : HostAdd(m, d, p, ips)
        BY <3>1, <3>2, <3>3
      <4>2. mac_to_loc'[m][1] = d /\ mac_to_loc'[m][2] = p
        BY <3>2
      <4>3. HostAdd(m, mac_to_loc'[m][1], mac_to_loc'[m][2], ips)
        BY <4>1, <4>2
      <4> QED BY <4>3
    <3>4. CASE ~a
      <4>1. Home[m] = d \/ m \in Poisoned(adj, mac_to_loc)
        BY <3>2, <3>4 DEF Learns, MayMove, Located
      <4>2. m \notin Poisoned(adj, mac_to_loc)
        BY DEF GraphInv, NoHostOnSwitchPort, Poisoned, Located
      <4> QED BY <3>2, <4>1, <4>2
    <3> QED BY <3>3, <3>4
  <2> QED BY <2>1, <2>2 DEF Next
<1> QED BY <1>1, GraphInvariant, PTL DEF Spec, PacketsMoveHostsHome

=============================================================================
