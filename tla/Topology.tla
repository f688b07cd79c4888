------------------------------ MODULE Topology ------------------------------
(***************************************************************************)
(* The topology and forwarding state of ControllerApp (src/controller.py): *)
(* the switch graph, the datapaths, the host locations, the ARP cache, the *)
(* warming switches, and the forwarding flows the controller has ordered   *)
(* the switches to hold.                                                   *)
(*                                                                         *)
(* os-ken delivers the events of the application one at a time, so every   *)
(* handler is one atomic action.  What is concurrent is the network: the   *)
(* events arrive in any order the discovery of os-ken allows, and a        *)
(* packet-in may overtake the EventSwitchEnter of its own switch, because  *)
(* the two travel through different applications.                          *)
(*                                                                         *)
(* A dictionary is a total function that is None where the key is absent.  *)
(*                                                                         *)
(* An operator whose name starts with Fault_ is a plausible mistake in the *)
(* operator that follows it; no specification uses it.  The properties     *)
(* below fail when it takes that operator's place (README.md).             *)
(***************************************************************************)
EXTENDS SwitchPaths, Naturals, Sequences, FiniteSets

CONSTANTS
    Port,          \* port numbers
    Mac,           \* unicast host addresses, lower-cased
    Ip,            \* addresses other than 0.0.0.0
    Cable,         \* pairs of plugged ends <<dpid, port>>, in both directions
    Heard,         \* <<m, <<d, p>>>>: where the network lets host m be heard
    Home,          \* the switch a host's address names, or None
    InitialArp,    \* the preloaded ARP cache (the gateway's entry)
    TableSurvives  \* may a flow table outlive the connection it was set on?

Loc == Dpid \X Port

ASSUME NoneAssumption ==
    /\ None \notin Dpid
    /\ None \notin Port
    /\ None \notin Mac
    /\ None \notin Loc

ASSUME DpidAssumption == IsFiniteSet(Dpid)

ASSUME CableAssumption ==
    /\ Cable \subseteq Loc \X Loc
    /\ \A c \in Cable :
          /\ <<c[2], c[1]>> \in Cable
          /\ c[1][1] # c[2][1]
    /\ \A c, e \in Cable : c[1] = e[1] => c[2] = e[2]

ASSUME HostAssumption ==
    /\ Heard \subseteq Mac \X Loc
    /\ Home \in [Mac -> Dpid \cup {None}]
    /\ InitialArp \in [Ip -> Mac \cup {None}]
    /\ TableSurvives \in BOOLEAN

VARIABLES
    nodes,       \* the keys of self.graph
    adj,         \* self.graph: adj[a][b] is the port of a towards b
    connected,   \* the keys of self.dpid_to_dp
    mac_to_loc,  \* self.mac_to_loc
    ip_to_mac,   \* self.ip_to_mac
    warming,     \* self._warming_switches
    flows        \* flows[d][m]: output port of d's dl_dst = m entry

vars == <<nodes, adj, connected, mac_to_loc, ip_to_mac, warming, flows>>

TypeOK ==
    /\ nodes \subseteq Dpid
    /\ adj \in [Dpid -> [Dpid -> Port \cup {None}]]
    /\ connected \subseteq Dpid
    /\ mac_to_loc \in [Mac -> Loc \cup {None}]
    /\ ip_to_mac \in [Ip -> Mac \cup {None}]
    /\ warming \subseteq Dpid
    /\ flows \in [Dpid -> [Mac -> Port \cup {None}]]

NoFlows == [m \in Mac |-> None]

Init ==
    /\ nodes = {}
    /\ adj = [a \in Dpid |-> [b \in Dpid |-> None]]
    /\ connected = {}
    /\ mac_to_loc = [m \in Mac |-> None]
    /\ ip_to_mac = InitialArp
    /\ warming = {}
    /\ flows = [d \in Dpid |-> NoFlows]

-----------------------------------------------------------------------------
(***************************************************************************)
(* Queries.                                                                *)
(***************************************************************************)

\* A port that graph g uses for a link.
IsSwitchPort(g, d, p) == \E n \in Dpid : g[d][n] = p

Neighbors(d) == {n \in Dpid : adj[d][n] # None}

Fault_Poisoned(g, locs) == {}

\* The hosts that locations locs place on a port that g uses for a link.
Poisoned(g, locs) ==
    {m \in Mac : locs[m] # None /\ IsSwitchPort(g, locs[m][1], locs[m][2])}

\* Every address the controller knows: what a full clear covers.
KnownMacs(locs, ips) ==
    {m \in Mac : locs[m] # None \/ \E i \in Ip : ips[i] = m}

\* Table f once the entries for macs are deleted from the switches in sw.
Cleared(f, sw, macs) ==
    [d \in Dpid |-> [m \in Mac |->
        IF d \in sw /\ m \in macs THEN None ELSE f[d][m]]]

\* Locations locs without the hosts in macs.
Unlocated(locs, macs) == [m \in Mac |-> IF m \in macs THEN None ELSE locs[m]]

\* ARP cache ips without the entries that lead to macs.
Unresolved(ips, macs) == [i \in Ip |-> IF ips[i] \in macs THEN None ELSE ips[i]]

Fault_Unlinked(g, d, far) ==
    [g EXCEPT ![d] = [b \in Dpid |-> IF b \in far THEN None ELSE g[d][b]]]

\* Graph g without the links between d and the switches in far.
Unlinked(g, d, far) ==
    [a \in Dpid |-> [b \in Dpid |->
        IF (a = d /\ b \in far) \/ (b = d /\ a \in far) THEN None ELSE g[a][b]]]

-----------------------------------------------------------------------------
(***************************************************************************)
(* Learning where a host is (_learn_host).                                 *)
(***************************************************************************)

\* Only a discovery event may teach a location on a warming switch.
Deaf(d, authoritative) == ~authoritative /\ d \in warming

Fault_MayMove(m, d) == TRUE

\* A packet may move a host it already knows to its home switch, or away
\* from a port that has become a link.
MayMove(m, d) ==
    \/ Home[m] = d
    \/ m \in Poisoned(adj, mac_to_loc)

Learns(m, d, p, authoritative) ==
    /\ ~Deaf(d, authoritative)
    /\ ~IsSwitchPort(adj, d, p)
    /\ mac_to_loc[m] # <<d, p>>
    /\ authoritative \/ mac_to_loc[m] = None \/ MayMove(m, d)

Forgets(m, d, p, authoritative) ==
    /\ ~Deaf(d, authoritative)
    /\ IsSwitchPort(adj, d, p)
    /\ mac_to_loc[m] = <<d, p>>

Fault_LocAfter(m, d, p, authoritative) ==
    IF Learns(m, d, p, authoritative) THEN [mac_to_loc EXCEPT ![m] = <<p, d>>]
    ELSE mac_to_loc

LocAfter(m, d, p, authoritative) ==
    IF Learns(m, d, p, authoritative) THEN [mac_to_loc EXCEPT ![m] = <<d, p>>]
    ELSE IF Forgets(m, d, p, authoritative) THEN Unlocated(mac_to_loc, {m})
    ELSE mac_to_loc

Fault_FlowsAfter(m, d, p, authoritative) == flows

FlowsAfter(m, d, p, authoritative) ==
    IF Learns(m, d, p, authoritative) \/ Forgets(m, d, p, authoritative)
    THEN Cleared(flows, connected, {m})
    ELSE flows

\* The sender's address is cached whatever becomes of its location.
ArpAfter(m, i) == IF i = None THEN ip_to_mac ELSE [ip_to_mac EXCEPT ![i] = m]

-----------------------------------------------------------------------------
(***************************************************************************)
(* The flows along a path (_shortest_path, _install_path_flows).  Which of *)
(* several shortest paths the code picks depends on the order of a         *)
(* dictionary (Routing), so the model picks any.                           *)
(***************************************************************************)

Fault_Installed(f, q, loc, m) ==
    [d \in Dpid |->
        IF d \in connected \ {loc[1]} /\ \E k \in DOMAIN q : q[k] = d
        THEN [f[d] EXCEPT ![m] = HopPort(adj, q, d)]
        ELSE f[d]]

\* Table f with the entries for m along path q, which ends at location loc.
Installed(f, q, loc, m) ==
    [d \in Dpid |->
        IF d \in connected /\ \E k \in DOMAIN q : q[k] = d
        THEN [f[d] EXCEPT ![m] = IF d = loc[1] THEN loc[2] ELSE HopPort(adj, q, d)]
        ELSE f[d]]

\* What installing a path from switch s to m at loc may make of table f.
InstallPathFlows(f, s, loc, m) ==
    IF ShortestPaths(adj, nodes, s, loc[1]) = {} THEN {f}
    ELSE {Installed(f, q, loc, m) : q \in ShortestPaths(adj, nodes, s, loc[1])}

\* The switch a path starts from: the sender's, else the one that reported.
Origin(locs, m, d) == IF locs[m] = None THEN d ELSE locs[m][1]

-----------------------------------------------------------------------------
(***************************************************************************)
(* Discovery events.                                                       *)
(***************************************************************************)

\* EventSwitchEnter.  The handler does not touch the table it finds.
SwitchAdd(d) ==
    /\ d \notin connected
    /\ connected' = connected \cup {d}
    /\ nodes' = nodes \cup {d}
    /\ warming' = warming \cup {d}
    /\ \E table \in {NoFlows} \cup (IF TableSurvives THEN {flows[d]} ELSE {}) :
           flows' = [flows EXCEPT ![d] = table]
    /\ UNCHANGED <<adj, mac_to_loc, ip_to_mac>>

\* EventSwitchLeave.
SwitchDelete(d) ==
    LET gone == {m \in Mac : mac_to_loc[m] # None /\ mac_to_loc[m][1] = d}
    IN  /\ d \in connected
        /\ nodes' = nodes \ {d}
        /\ adj' = Unlinked(adj, d, Dpid)
        /\ connected' = connected \ {d}
        /\ warming' = (warming \cup Neighbors(d)) \ {d}
        /\ mac_to_loc' = Unlocated(mac_to_loc, gone)
        /\ ip_to_mac' = Unresolved(ip_to_mac, gone)
        /\ flows' = Cleared(flows, connected', KnownMacs(mac_to_loc', ip_to_mac'))

\* EventHostAdd, with the addresses os-ken has seen the host use.
HostAdd(m, d, p, ips) ==
    /\ d \in connected
    /\ ~(d \in warming /\ IsSwitchPort(adj, d, p))
    /\ mac_to_loc' = LocAfter(m, d, p, TRUE)
    /\ flows' = FlowsAfter(m, d, p, TRUE)
    /\ ip_to_mac' = [i \in Ip |-> IF i \in ips THEN m ELSE ip_to_mac[i]]
    /\ UNCHANGED <<nodes, adj, connected, warming>>

\* EventLinkAdd from end a to end b.
LinkAdd(a, b) ==
    LET old == <<adj[a[1]][b[1]], adj[b[1]][a[1]]>>
        updated == old # <<a[2], b[2]>> /\ old # <<None, None>>
        graph == [adj EXCEPT ![a[1]][b[1]] = a[2], ![b[1]][a[1]] = b[2]]
        poisoned == Poisoned(graph, mac_to_loc)
        stale == IF updated THEN KnownMacs(mac_to_loc, ip_to_mac) ELSE {}
    IN  /\ <<a, b>> \in Cable
        /\ {a[1], b[1]} \subseteq connected
        /\ nodes' = nodes \cup {a[1], b[1]}
        /\ adj' = graph
        /\ warming' = warming \ {a[1], b[1]}
        /\ mac_to_loc' = Unlocated(mac_to_loc, poisoned)
        /\ flows' = Cleared(flows, connected, stale \cup poisoned)
        /\ UNCHANGED <<connected, ip_to_mac>>

\* EventLinkDelete between switches a and b; it may follow their departure.
LinkDelete(a, b) ==
    LET graph == Unlinked(adj, a, {b})
        poisoned == Poisoned(graph, mac_to_loc)
    IN  /\ \E c \in Cable : c[1][1] = a /\ c[2][1] = b
        /\ adj' = graph
        /\ warming' = warming \cup {a, b}
        /\ mac_to_loc' = Unlocated(mac_to_loc, poisoned)
        /\ flows' = Cleared(flows, connected,
                            KnownMacs(mac_to_loc, ip_to_mac) \cup poisoned)
        /\ UNCHANGED <<nodes, connected, ip_to_mac>>

\* EventPortModify, whether the port went up or down.
PortModify(d, p) ==
    LET far == {n \in Dpid : adj[d][n] = p}
        gone == {m \in Mac : mac_to_loc[m] = <<d, p>>}
        graph == Unlinked(adj, d, far)
        locs == Unlocated(mac_to_loc, gone)
        ips == Unresolved(ip_to_mac, gone)
        poisoned == IF far = {} THEN {} ELSE Poisoned(graph, locs)
        stale == IF far = {} THEN {} ELSE KnownMacs(locs, ips)
    IN  /\ d \in connected
        /\ adj' = graph
        /\ warming' = IF far = {} THEN warming ELSE warming \cup {d} \cup far
        /\ mac_to_loc' = Unlocated(locs, poisoned)
        /\ ip_to_mac' = ips
        /\ flows' = Cleared(flows, connected, stale \cup poisoned)
        /\ UNCHANGED <<nodes, connected>>

-----------------------------------------------------------------------------
(***************************************************************************)
(* Packet-ins: host m, claiming address i (None when it claims none), is   *)
(* heard at port p of switch d, which the controller may not know yet.     *)
(***************************************************************************)

\* An ARP request.  A gratuitous one heard on a link teaches nothing.
ArpRequest(m, i, d, p, gratuitous) ==
    /\ ~(gratuitous /\ IsSwitchPort(adj, d, p))
    /\ mac_to_loc' = LocAfter(m, d, p, FALSE)
    /\ flows' = FlowsAfter(m, d, p, FALSE)
    /\ ip_to_mac' = ArpAfter(m, i)
    /\ UNCHANGED <<nodes, adj, connected, warming>>

\* An ARP reply to host tm, which it says has address ti.
ArpReply(m, i, d, p, tm, ti) ==
    LET locs == LocAfter(m, d, p, FALSE)
        learned == FlowsAfter(m, d, p, FALSE)
        dest == locs[tm]
    IN  /\ mac_to_loc' = locs
        /\ ip_to_mac' = [ArpAfter(m, i) EXCEPT ![ti] = tm]
        /\ flows' \in IF dest = None \/ dest[1] = d THEN {learned}
                      ELSE InstallPathFlows(learned, Origin(locs, m, d), dest, tm)
        /\ UNCHANGED <<nodes, adj, connected, warming>>

\* An IP packet to host dm that neither the DNS server nor NAT took.
IpPacket(m, i, d, p, dm) ==
    LET locs == LocAfter(m, d, p, FALSE)
        learned == FlowsAfter(m, d, p, FALSE)
        dest == locs[dm]
    IN  /\ mac_to_loc' = locs
        /\ ip_to_mac' = ArpAfter(m, i)
        /\ flows' \in IF dest = None THEN {learned}
                      ELSE InstallPathFlows(learned, Origin(locs, m, d), dest, dm)
        /\ UNCHANGED <<nodes, adj, connected, warming>>

-----------------------------------------------------------------------------
SwitchEvent == \E d \in Dpid : SwitchAdd(d) \/ SwitchDelete(d)

LinkEvent ==
    \/ \E c \in Cable : LinkAdd(c[1], c[2])
    \/ \E a, b \in Dpid : LinkDelete(a, b)
    \/ \E d \in Dpid, p \in Port : PortModify(d, p)

HostEvent ==
    \E h \in Heard : LET m == h[1]
                         d == h[2][1]
                         p == h[2][2]
                     IN
        \/ \E ips \in SUBSET Ip : HostAdd(m, d, p, ips)
        \/ \E i \in Ip \cup {None}, g \in BOOLEAN : ArpRequest(m, i, d, p, g)
        \/ \E i \in Ip, tm \in Mac \ {m}, ti \in Ip : ArpReply(m, i, d, p, tm, ti)
        \/ \E i \in Ip, dm \in Mac \ {m} : IpPacket(m, i, d, p, dm)

Next == SwitchEvent \/ LinkEvent \/ HostEvent

Spec == Init /\ [][Next]_vars

-----------------------------------------------------------------------------
(***************************************************************************)
(* Correctness.                                                            *)
(***************************************************************************)

Located(m) == mac_to_loc[m] # None

\* The flow for m on switch d sends packets over the link to switch n.
Leads(d, n, m) == flows[d][m] # None /\ adj[d][n] = flows[d][m]

\* The graph holds only plugged cables between joined switches, and both
\* directions of each: no order of joins, leaves, link and port events, nor
\* a late event of a switch that left, leaves half a link behind
\* (handle_link_add, handle_link_delete, handle_switch_delete).
GraphIsSound ==
    \A a, b \in Dpid : adj[a][b] # None =>
        /\ {a, b} \subseteq nodes
        /\ adj[b][a] # None
        /\ <<<<a, adj[a][b]>>, <<b, adj[b][a]>>>> \in Cable

\* Every switch of the graph has a datapath, so that no switch of a computed
\* path is skipped when its flows are installed (_install_path_flows).
EveryNodeHasDatapath == nodes = connected

\* No host is placed on a port the graph uses for a link, although a flooded
\* packet may be heard there before the link is discovered (_learn_host,
\* _scrub_poisoned_host_locations).
NoHostOnSwitchPort ==
    \A m \in Mac :
        Located(m) => ~IsSwitchPort(adj, mac_to_loc[m][1], mac_to_loc[m][2])

\* A connected switch holds a flow for a located host only towards the host's
\* own port or along a link of the present graph: learning, moving, scrubbing
\* and losing links delete what they outdate (_clear_forwarding_flows).
FlowsFollowTopology ==
    \A m \in Mac, d \in connected :
        (Located(m) /\ flows[d][m] # None) =>
            IF d = mac_to_loc[m][1] THEN flows[d][m] = mac_to_loc[m][2]
            ELSE \E n \in Dpid : Leads(d, n, m)

\* The flows for a located host form no loop, although they are pieces of
\* paths computed on different graphs (_install_path_flows, handle_link_add
\* keeps the flows when it learns a new link).
FlowsAreLoopFree ==
    \A m \in Mac, S \in (SUBSET connected) \ {{}} :
        Located(m) => \E d \in S : \A n \in S : ~Leads(d, n, m)

\* A flow for a located host leads to a connected switch that has one too: a
\* packet is never sent part of the way and dropped (_install_path_flows).
FlowsHaveNoDeadEnd ==
    \A m \in Mac, d \in connected, n \in Dpid :
        (Located(m) /\ Leads(d, n, m)) => n \in connected /\ flows[n][m] # None

\* What the README asks of a change of topology: packets are always sent along
\* the shortest path between switches, so the flow for a located host leads
\* along a shortest path of the present graph (handle_link_add).
FlowsAreShortest ==
    \A m \in Mac, d \in connected, n \in Dpid :
        (Located(m) /\ d # mac_to_loc[m][1] /\ Leads(d, n, m)) =>
            \E q \in ShortestPaths(adj, nodes, d, mac_to_loc[m][1]) : q[2] = n

\* Packets alone move a host the controller has placed nowhere but to its
\* home switch: a copy that loops through the network and is heard elsewhere
\* does not steal it (_learn_host).
PacketsMoveHostsHome ==
    [][\A m \in Mac :
          (Located(m) /\ Located(m)' /\ mac_to_loc'[m] # mac_to_loc[m]) =>
              \/ mac_to_loc'[m][1] = Home[m]
              \/ \E ips \in SUBSET Ip :
                    HostAdd(m, mac_to_loc'[m][1], mac_to_loc'[m][2], ips)]_vars

\* What the docstring of handle_port_modify promises: the event of a port
\* removes the cached flows it affects, so no flow is left that sends packets
\* out of that port.
PortModifyDropsFlows ==
    [][\A d \in Dpid, p \in Port : PortModify(d, p) =>
          \A m \in Mac : flows'[d][m] # p]_vars

=============================================================================
