# A verification development of the os-ken SDN controller

The program under `src/` is one os-ken application, `ControllerApp`
(`src/controller.py`). It learns the switches, links and hosts of an OpenFlow
network, answers ARP, installs shortest-path flows, and contains a DHCP server,
a NAT for ICMP, a firewall and a DNS server. This directory holds TLA+ modules
that model it, the configurations that model-check them, and proofs.

The operator and variable names are those of the source wherever TLA+ allows.
`PROJECT.json` maps each definition to the lines it stands for.

## 1. The system

### Components

| Component | Source | State | Operations |
|---|---|---|---|
| Topology and host learning | `controller.py` 46-435 | `graph` (ports between switches), `dpid_to_dp`, `mac_to_loc`, `ip_to_mac`, `_warming_switches`, the flows held by the switches | handlers of `EventSwitchEnter`, `EventSwitchLeave`, `EventHostAdd`, `EventLinkAdd`, `EventLinkDelete`, `EventPortModify`; `_learn_host`, `_scrub_poisoned_host_locations`, `_clear_forwarding_flows` |
| Shortest paths | `controller.py` 437-576, `controller_bf.py` | none (local tables) | `_dijkstra`, `_bellman_ford`, `_shortest_path` |
| Packet-ins, ARP, flow installation | `controller.py` 237-252, 578-880 | `flood_history`, and the topology's | `packet_in_handler`, `_handle_arp`, `_install_path_flows`, `_forward_packet`, `_should_flood` |
| DHCP server | `dhcp.py` | seven class-level dictionaries: leases and OFFERs in both directions with their expiry, declined addresses | `handle_dhcp` with DISCOVER, REQUEST, RELEASE, DECLINE; lazy clean-up of what has expired |
| NAT | `nat.py` | `_icmp_map`: (remote address, ICMP id) to internal host and expiry | source translation on the way out, a one-shot look-up on the way in |
| Firewall | `firewall.py` | the rules, and `installed`, the flows already sent to each switch | `_load_rules`, `install_rules`, `reset_switch` |
| DNS server | `dns_server.py` | none (constant zone) | decoding of a query, the look-up, the answer |
| OpenFlow helper | `ofctl_utilis.py` | none | builds FlowMods and packet-outs |
| Tests, scripts, experiments | `tests/`, `scripts/`, `experiments/` | - | emulated networks and measurements |

### How they interact

os-ken delivers the events of an application from one queue to one green
thread, and no handler of this program yields, so a handler runs to its end
before the next begins. Within a handler the components are plain calls on
shared state: `packet_in_handler` tries DHCP, ARP, DNS and NAT in this order,
and a packet none of them takes teaches the sender's location and is forwarded. NAT
and ARP read the topology's `ip_to_mac` and `mac_to_loc`; the topology's events
install the firewall rules and forget them when a switch joins.

The concurrency is in the world around the program:

* discovery events come from os-ken's `Switches` application, in its order;
  packet-ins come straight from the datapath. A packet-in can therefore be
  handled before the `EventSwitchEnter` of its own switch, or after its
  `EventSwitchLeave`;
* one flooded packet is heard at many ports, and its copies arrive between any
  two discovery events;
* links are discovered late, replaced, lost and found again while flows
  computed on the earlier graph are in the switches;
* DHCP clients repeat, lose, delay and reorder messages, and every lease,
  OFFER and quarantine may run out between two of them;
* a flood is one copy per link, each of which comes back to the controller as a
  packet-in of the next switch, in any order, or is lost;
* answers from outside are delayed, repeated and lost while NAT mappings expire;
* a switch applies FlowMods in its own time, loses those in flight with its
  connection, and may come back with an empty table.

### What makes each component correct

* **Topology.** The graph holds each link in both directions and only between
  joined switches. No host is located on a link. A packet cannot steal a host's
  location. Flows for a host whose location is known lead to it: without loops,
  without a switch on the way that has none, and out of ports that still exist.
* **Shortest paths.** Both algorithms return a simple path with the fewest hops
  whenever there is one.
* **ARP.** A host that asks on is told, in spite of losses and of flood
  suppression; floods die out; the NAT gateway alone answers for external hosts.
* **DHCP.** The tables kept in both directions agree; no address is promised or
  given to two clients; running leases and reservations are not taken away;
  declined addresses rest; only the pool is used.
* **NAT.** A packet from outside goes to the host that sent last to that remote
  with that identifier, once, and not after the timeout.
* **Firewall.** A connected switch drops all that the rules deny and nothing
  else, after reconnections too. (The code does not keep the first half for
  every rule file: finding 5.)
* **DNS.** Decoding ends for every byte string; exactly the malformed queries
  are refused; the others are answered with what the tables hold.

`PROJECT.json` lists the hazards at their lines with the properties that watch
them, or the reason none does yet.

## 2. The modules

| Module | What it is |
|---|---|
| `SwitchPaths` | what a shortest path of a switch graph is; used by `Topology`, `Routing` and `Flooding` |
| `Topology` | topology, host learning, ARP cache and flows, under every order of events |
| `MCTopology` | instances: a triangle with a doubled link, a triangle, two switches with two cables |
| `TopologyProofs` | proofs about `Topology` |
| `DhcpServer` | the DHCP server and the passing of time |
| `AddressAllocation` | the abstract specification of what a DHCP server promises |
| `MCDhcpServer` | an instance with three clients |
| `DhcpServerProofs` | proofs about `DhcpServer`, and that it implements `AddressAllocation` |
| `Routing` | `_dijkstra` and `_bellman_ford`, step by step |
| `MCRouting` | an instance: every graph of up to five switches |
| `RoutingProofs` | proofs about `Routing`: both algorithms find shortest paths, and every turn counts |
| `Flooding` | packet-ins on a fixed topology: proxy ARP, floods, suppression, forwarding, and the frames in flight |
| `MCFlooding` | instances: a ring of three switches |
| `FloodingProofs` | proofs about `Flooding`: types, what the gateway stands in for, and that floods are bounded |
| `Nat` | the ICMP translation, and the network outside |
| `NatSessions` | the abstract specification of what NAT promises |
| `NatProofs` | proofs about `Nat`, and that it implements `NatSessions` |
| `Firewall` | rules, install cache, and switches that come and go |
| `MCFirewall` | an instance: every list of two rules |
| `FirewallProofs` | proofs about `Firewall`: types, nothing else is dropped, the cache is true, the rules of a file whose addresses parse are enforced |
| `DnsServer` | one query from its bytes to its answer |
| `MCDnsServer` | an instance: names with pointers anywhere |
| `DnsServerProofs` | proofs about `DnsServer`: refusals, answers and the bound on its work |

`Topology` and `Flooding` model the same controller from two sides. In
`Topology` the topology changes under the controller at any moment and a packet
is what it teaches; in `Flooding` the topology stands still and a packet is a
frame that travels, is copied and is answered. Both route by `SwitchPaths`,
which `RoutingProofs` shows to be what the two algorithms compute on every
finite graph. `Nat` and `Firewall` take from `Topology` only what they read of
it: what is known of an address, and when a switch joins.

### Topology

| Code | Model |
|---|---|
| `self.graph` | `nodes` (its keys) and `adj[a][b]`, the port of `a` towards `b` |
| `self.dpid_to_dp` | `connected` |
| `self.mac_to_loc`, `self.ip_to_mac`, `self._warming_switches` | the variables of these names (`warming`) |
| the `dl_dst` entries of the switches | `flows[d][m]` |
| one handler | one action |
| `_learn_host` | `LocAfter`, `FlowsAfter`, `ArpAfter`, shared by `HostAdd` and the packet-ins |
| `_shortest_path` | `ShortestPaths`: *any* simple path with the fewest hops |
| `_install_path_flows` | `InstallPathFlows` |

Abstractions, and why they are safe:

* A dictionary is a total function with `None` where the key is absent.
* Which of several shortest paths is returned depends on the order of a
  dictionary, so the model allows each of them.
* `flows` holds each switch's table once the FlowMods sent so far have been
  processed. Messages to one switch are processed in order, so this is the
  state each switch tends to; packets in flight meanwhile are left out.
* `Cable` is the physical wiring: an end has one cable, and a cable joins two
  different switches. LinkAdd reports cables. LinkDelete may come at any time
  for two cabled switches, also long after they left: more than discovery does,
  which only adds behaviours.
* `Switches` reports joins, links and hosts through one queue, so the ends of a
  new link or the switch of a new host are connected. A packet-in has no such
  guard.
* `Heard` limits where a host can be heard, which is what keeps the state space
  small; `Home` is the switch that `_expected_host_dpid` reads from an address.
* A packet addressed to its own sender is left out.
* `TableSurvives` says whether a flow table may outlive a connection. The
  handler of `EventSwitchEnter` does not clear the table; with OVS's default
  of dropping flows it finds an empty one.
* Packets the controller sends, proxy ARP answers, and the flood suppression
  table are in `Flooding`; they change none of the variables above. The DHCP, DNS
  and NAT branches of `packet_in_handler` return before the sender is learned,
  so `IpPacket` is a packet that none of them took.

### DHCP server

The seven class attributes are the record `tables`; the packet returned to the
client is `reply`. Each message type is an action that begins with
`CleanupExpiredState`, as `handle_dhcp` does. The helper methods that change
the tables (`_release_lease_for_ip`, `_reserve_offer_ip`, `_commit_lease`, ...)
are operators from tables to tables.

* The dictionaries hold absolute expiry times; the model holds what is left,
  with 0 for "its time has come but nothing has cleaned it up". `Tick` is one
  second. The code reads the clock several times within a message; the model
  reads it once.
* An address is an integer, as it is for `ipaddress`. A client may name any
  address of `Ip`, which includes both neighbours of the pool.
* Bytes of packets and options are abstracted to the addresses, the server
  identifier test (`for_us`) and the message type they decode to.
* Lost, late and repeated messages need no channel: an enabled message may
  come at any moment, again, or never.

`AddressAllocation` has only two maps, the client that each address is leased
to and the one it is offered to, and three steps: offer a free address, grant
a free address, free some addresses. `DhcpServer` implements it under the
mapping `LiveLeases`, `LiveOffers`: the entries whose time is not up. An entry
leaves the abstract map at the tick that ends it, and the later clean-up of the
table is a stutter.

### Shortest paths

`Routing` runs one call of `_shortest_path`: `Call` is the early returns and the
initial distances; `Pop` one turn of Dijkstra's loop, with outdated heap entries
skipped; `Scan` and `EndRound` the two loops of Bellman-Ford with the early exit;
`WalkBack` the walk over `prev_node` and `prev_port`. The link weight is 1, as
in the code. A port is named after the neighbour it leads to, since neither
algorithm reads it. The order of the neighbours of one switch does not matter,
since relaxing one link does not touch what the others of the same switch need.

### Flooding

| Code | Model |
|---|---|
| `flood_history` | `history[k]`: the seconds key `k` stays suppressed |
| `ip_to_mac`, `mac_to_loc` | `cache`, `located` (a host that does not move has one place to be at) |
| a packet-in | `Arrive(f)` of a frame `f` no flow entry takes |
| `_handle_arp` | `ArpRequest`, `ArpReply` |
| the IP branch and the last one of `packet_in_handler` | `IpPacket`, `OtherFrame` |
| `_forward_packet`, `_install_path_flows` | `Forward`, `Installed` |
| `send_packet_out` to a port, to `OFPP_FLOOD`; `send_arp` | `SendToHost`, `SendToSwitch`; `Flood`; `ProxyReply` |

Frames in flight are a set, so they arrive in any order; two equal frames at one
place are one. A host stands for its MAC and its address. An ARP request for
a host on the flooding switch is heard and answered at once. `Switched` is the
switch's own forwarding. A second passes (`Tick`) when all floods have settled:
the suppression window of two seconds is long compared with the time a copy
takes from switch to switch. `Trouble` happens `MaxTrouble` times: a frame is
lost, a host's port goes down and up, or a host sends a stray frame. An answer
that was not asked for is not sent by an external host to an internal one, which
it cannot have heard from by ARP. A switch sends nothing back out of the port a
frame came in by. Where the graph has no path, no flow is installed and the frame
is dropped, as in `_forward_packet`.

### NAT

`icmp_map` and `left` are the two halves of `_icmp_map`; what `handle_nat` reads
of the controller is the variable `known`. `Snat` and `Dnat` are the two
branches of `handle_nat`, each with the clean-up of expired mappings its helper
begins with; `Snat` records the mapping before it looks for the datapath, `Dnat`
removes it before it looks for the host, as the code does. Outside, packets are
answered, repeated, delayed and lost, and remote hosts ping on their own account
(the code does not test the ICMP type). `Nat` implements `NatSessions` under the
mapping `Sessions`, in which an expired entry does not count.

### Firewall

A rule is a record whose fields may be absent (`Any`) or not parse
(`Malformed`). `Reached` is the loop of `install_rules` with its `continue`s
(`MakesFlow`) and the exception of `ipv4_text_to_int` that ends it (`Raises`);
the cache keeps what was sent before. `SwitchAdd` is the part of
`_handle_switch_add` that concerns the firewall; the switch comes with the table
it had or an empty one. The flow key of the code and the flow say the same, so
the model uses the flow for both. `Matches` reads a field 0 as a wildcard, which
is what `set_flow` makes of it.

The properties compare the tables with `Denied`: some rule of the file covers
the packet, wherever it stands and whatever stands before it. What the report
promises of each valid rule, `ValidRulesAreInstalled`, the code does not keep,
since a rule whose address does not parse ends the loop (finding 5). Split by
that cause, three things hold: `NothingElseIsDropped` and `CacheIsTrue` for every
file, and the promise, with its liveness form `StayingSwitchIsProtected`, for the
files in which `AddressesParse`: no rule that is skipped takes another with it.

### DNS

`DnsServer` reads the payload byte by byte. `_decode_qname` calls itself at a
pointer and only adds up afterwards, so the model reads on in a loop, with the
depth of the recursion in `depth`. A name is a text, as in the code: the labels
joined with dots (`Joined`), compared in lower case and without the dots at its
end (`Normalized`). A label that holds a dot is therefore found where the code
finds it, under the same text; the run has one. `Answer` is the rest of
`_parse_query` and `_build_response`. A record is its type and the text the
tables give it for, or the alias target.

The properties do not read a name the way the handler does. `Readable` follows the
offsets of a name on their own, without counting calls; `Asks` says what bytes a
client sends for a name, by the code's own `_encode_qname`: spelled out, or
compressed after any of its labels with the rest behind the question. The names
asked for, `Names`, have labels without a dot, as a client's have.
`StepsLeft` counts down what the handler may still do.

### Seeded faults

Operators named `Fault_...` stand before the operator they are a mistaken
version of. No specification uses them. Each property of a passing run is
violated when the mistaken operator takes the place of the right one, which
shows that the run can see such a mistake:

| Property | Fault |
|---|---|
| `Topology!TypeOK` | a location is stored as (port, switch) |
| `GraphIsSound` | a link is removed in one direction only |
| `NoHostOnSwitchPort`, `FlowsAreLoopFree` | poisoned host locations are not scrubbed |
| `FlowsFollowTopology` | flows are kept when a host moves |
| `PacketsMoveHostsHome` | a packet moves any host |
| `FlowsHaveNoDeadEnd` | the last switch of a path gets no flow |
| `DhcpServer!TypeOK` | expired entries are zeroed instead of removed |
| `LeaseTablesAgree` | a released lease stays in `_mac_to_ip` |
| `OfferTablesAgree` | a client's OFFER is forgotten in one direction only |
| `NoSharedAddress`, `ImplementsAllocation` | availability ignores other clients' leases, or OFFERs |
| `OnlyPoolIsUsed`, `QuarantineIsRespected` | availability ignores the pool, or quarantines |
| `LeasesAreStable` | RELEASE trusts the address it names |
| `OffersAreStable` | REQUEST does not compare with the client's OFFER |
| `Routing!TypeOK` | the port of a predecessor is not recorded |
| `ResultIsShortest` | the heap gives out any of its entries |
| `PredecessorsLeadBack` | a neighbour is relaxed whether or not that is shorter |
| `EveryTurnCounts` | a neighbour is relaxed whether or not that is shorter |
| `Routing!Returns` | the heap keeps what it gave out |
| `Nat!TypeOK` | a mapping records the remote address as its owner |
| `ImplementsSessions` | expired mappings are not cleaned up |
| `Firewall!TypeOK` | fields of a rule go into the flow as they are |
| `NothingElseIsDropped` | ports are accepted without TCP or UDP |
| `CacheIsTrue` | the cache notes the flows behind a rule that raises |
| `FirewallIsEnforced` | the last port is taken for out of range |
| `StayingSwitchIsProtected` | `reset_switch` forgets nothing |
| `DnsServer!TypeOK` | the bound on the depth is off by one |
| `UnreadableIsRefused` | the question ends where the last pointer leads |
| `AnswersFollowTables` | an alias is answered without the address of its target |
| `WorkIsBounded`, `DnsServer!Returns` | following a pointer does not count |
| `Flooding!TypeOK` | a place is learned on a link |
| `GatewayStandsInForExternals` | the gateway answers only for external hosts that are known |
| `FloodsRunDown` | a flow entry sends back along the path instead of on |
| `FloodsDieOut` | floods are not suppressed |
| `NeighbourIsTold` | a suppressed repetition prolongs the window |
| `KnownHostIsTold` | a proxy answer leaves by its in-port, which a switch ignores |

## 3. The runs

| Run | Instance and bounds | What it shows |
|---|---|---|
| `topology` | 3 switches in a ring, one of its links doubled; a host heard at two ports, and at the link end by which its flooded packets come back to its own switch; a host heard at the end of the second cable; 1 IP address; 339,209 states | Links replace each other, a port is a host port and a link end in turn, switches leave and return, late link events come, and there are two ways between any two switches, so flows of different graphs mix: `TypeOK`, `GraphIsSound`, `NoHostOnSwitchPort`, `FlowsFollowTopology`, `FlowsAreLoopFree`, `FlowsHaveNoDeadEnd`, `PacketsMoveHostsHome` hold |
| `topo_port_flows` | 2 switches, 2 cables between them, 2 hosts heard at every port | violation: finding 2 |
| `dhcp` | 3 clients, a pool of 2 and its two neighbours; lease 4 s, OFFER 2 s, quarantine 3 s; 9,767 states | The nine DHCP properties, the refinement included, hold |
| `dhcp_offer_nak` | as `dhcp` | violation: finding 1 |
| `topo_longer_path` | the ring with its links single | violation: finding 3 |
| `routing` | every graph on 4 or 5 of 5 switches, every source and destination, both algorithms; 661,940 states | `TypeOK`, `ResultIsShortest`, `PredecessorsLeadBack`, `EveryTurnCounts`, `Returns` hold |
| `nat` | 2 internal hosts, a remote, 2 identifiers, timeout 2 s; 188,416 states | `TypeOK` and the refinement `ImplementsSessions` hold |
| `firewall` | 2 switches, every list of two of 30 rules and the empty one (901 files), packets with the ports 1, 2 and 65535; 37,044 states | `TypeOK`, `NothingElseIsDropped`, `CacheIsTrue`, `FirewallIsEnforced`, `StayingSwitchIsProtected` hold |
| `firewall_malformed` | as `firewall` | violation: finding 5 |
| `dns` | every question name of up to 5 bytes out of 6 with 4 tails, every name of the tables spelled out and compressed at every label, a name whose only label holds dots, chains of 9 to 12 pointers; 152,771 states | `TypeOK`, `UnreadableIsRefused`, `AnswersFollowTables`, `WorkIsBounded`, `Returns` hold |
| `flooding` | a ring of 3 switches; an internal and an external host on one, an internal host on another; window 2 s, one trouble; 87,806 states | `TypeOK`, `GatewayStandsInForExternals`, `FloodsRunDown`, `FloodsDieOut`, `NeighbourIsTold`, `KnownHostIsTold` hold |
| `arp_reach` | the same ring, a host asks for a silent one on the next switch, no trouble | violation: finding 4 |

None of the runs cuts the state space with a constraint: within these constants
they are exhaustive. Nothing in the models counts without bound; the bounds
are the constants `Timeout`, `Window`, `MaxDepth`, the durations of DHCP, and
`MaxTrouble`, which limits the environment of `Flooding` and no code.

Why the bounds are enough to be interesting: two cables between two switches
are the least that make a link replaceable; a ring of three the least with two
paths and a loop. Three clients for two addresses are the least with which the
pool is exhausted while a third client competes. The durations differ and keep
the order of the code's defaults (an OFFER runs out first, a lease last), so a
lease outlives a quarantine and an OFFER, and each kind of entry is met
running, due and gone while the others are in each of these states.

Five switches are the least on which the heap holds an outdated entry beside a
better one and Bellman-Ford needs several rounds. `MCRouting` lists the switches
in ascending order: Bellman-Ford looks at nothing of a dpid but its place in the
dictionary and Dijkstra at nothing of the dictionary but the dpids, so with every
graph one order stands for all. Two senders with two identifiers make keys
collide and not collide; with a timeout of two seconds an entry is met fresh,
older and expired. Two rules show every pair of a rule that is installed,
skipped or raises and one that follows it; packets have the last port, so that a
rule for 65535 is told from one for 65536. Five bytes hold two pointers or a
label with a pointer, in circles and forward; the chains reach the bound of ten
and pass it. A ring is the least on which a flood comes back, and has a host
one switch further on.

Deadlock is checked in every run but `routing` and `dns`, whose specifications
are one call of a function and stop when it returns. In the others it does not
occur: a packet, a message or a tick is always possible.

### Findings

1. `dhcp_offer_nak` (`dhcp.py:336`). A client with a lease and an OFFER of
   another address is offered the lease again by `_pick_offer_ip`, which leaves
   the OFFER in place; the REQUEST of the address just offered is then compared
   with that older OFFER and refused with a NAK. The trace: a client
   gets an ACK and declines the address, which leaves its lease in place under
   quarantine; it discovers, and is offered another address; the quarantine
   ends; it discovers again before lease and OFFER have run out, is offered its
   lease, requests it, and gets the NAK.
2. `topo_port_flows` (`controller.py:424`). The event of a host's port removes
   the host's location and leaves the flows, until the host is heard again or
   another event clears all flows, against the docstring in `controller.py:416`.
3. `topo_longer_path` (`controller.py:377`). A link that is new leaves the flows
   as they are, so packets keep to a path that is no longer the shortest,
   against `README.md:227` of the sources.
4. `arp_reach` (`controller.py:714`). The key of the flood suppression names no
   switch. The first switch floods a request; its copies come back as packet-ins
   of the next switches and are suppressed as repetitions, and so is or does
   every repetition after the window. A host on another switch that has never
   been heard is never found, against the docstring in `controller.py:655`. The
   tests of the repository announce every host by gratuitous ARP first.
5. `firewall_malformed` (`firewall.py:159`). `install_rules` skips a rule with an
   unknown protocol or a bad port and goes on; a rule whose address does not parse
   makes `set_flow` raise out of the loop, so the valid deny rules behind it in
   the file are installed on no switch, against `report.md:532` and
   `README.md:286` of the sources.

### Fairness and liveness

`Topology`, `DhcpServer` and `Nat` state safety only: nothing obliges a packet,
a message or an event to come. The others assume:

* `Routing` and `DnsServer`: `WF_vars(Next)`. A function that was called runs on.
* `Firewall`: weak fairness of `Apply(d)`. While a connection lasts TCP delivers
  the FlowMods sent over it, and a switch processes what it gets; a connection
  may end before, which disables the action.
* `Flooding`: weak fairness of the arrival of each kind of frame, of each host's
  asking again, and of time. Links deliver what they do not lose, the event loop
  handles its queue in order and so forgets no packet-in, hosts repeat ARP
  requests that are not answered, and a clock goes on. The kinds are separate
  because an IP storm must not stand in for progress of ARP. No fairness is
  assumed of `Trouble`.

`FloodsDieOut` and `NeighbourIsTold` hold with losses. `KnownHostIsTold` is about
hosts that stay known from some time on; `EveryoneIsTold` without that premise
is what `arp_reach` refutes.

## 4. The proofs

TLAPS checks the following for every value of the constants that meets the
assumptions.

| Theorem | Statement |
|---|---|
| `TopologyProofs!TypeCorrect` | `Spec => []TypeOK` |
| `GraphAlwaysSound`, `NodesHaveDatapaths`, `HostsStayOffLinks` | `[]GraphIsSound`, `[]EveryNodeHasDatapath`, `[]NoHostOnSwitchPort` |
| `FlowsAlwaysFollow`, `FlowsNeverLoop`, `FlowsReachTheHost` | the three flow invariants, when `~TableSurvives` |
| `HostsMoveHome` | `PacketsMoveHostsHome` |
| `DhcpServerProofs!TypeCorrect` | `Spec => []TypeOK` |
| `LeasesAlwaysAgree`, `OffersAlwaysAgree`, `AddressesNeverShared`, `PoolIsAlwaysRespected`, `QuarantineIsAlwaysRespected` | the DHCP invariants |
| `LeasesAlwaysStable`, `OffersAlwaysStable` | the two action properties |
| `ServerAllocates` | `Spec => ImplementsAllocation` |
| `RoutingProofs!TypeCorrect`, `AlwaysLeadsBack`, `AlwaysShortest` | `[]TypeOK`, `[]PredecessorsLeadBack`, `[]ResultIsShortest` |
| `TurnsAlwaysCount` | `Spec => EveryTurnCounts` |
| `DnsServerProofs!TypeCorrect` | `Spec => []TypeOK` |
| `UnreadableRefused`, `AnswersFollow` | `[]UnreadableIsRefused`, `[]AnswersFollowTables` |
| `WorkAlwaysBounded` | `Spec => WorkIsBounded` |
| `NatProofs!TypeCorrect`, `NatIsExact` | `[]TypeOK`, `Spec => ImplementsSessions` |
| `FirewallProofs!TypeCorrect`, `NothingElseDropped`, `CacheAlwaysTrue` | `[]TypeOK`, `[]NothingElseIsDropped`, `[]CacheIsTrue` |
| `ParsedFilesEnforced` | `[]FirewallIsEnforced`: for the files whose addresses parse |
| `FloodingProofs!TypeCorrect`, `GatewayAlwaysStandsIn` | `[]TypeOK`, `[]GatewayStandsInForExternals` |
| `FloodsAlwaysRunDown` | `Spec => FloodsRunDown` |

**Assumptions.** `Topology`: `None` is no switch, port, host or location; there
are finitely many switches; cables are symmetric, join different switches and
are one to an end; the tables given as constants have their types. `DhcpServer`:
addresses are integers and the pool is among those clients may name (it may be
empty); durations are positive; `None` is neither client nor number. `Routing`:
finitely many switches with natural numbers for dpids, an order of the
dictionary names no switch twice, `None` is no number. `Nat`: internal hosts and
remotes are different addresses, the timeout is positive, `None` is no host.
`Firewall`: an absent and a malformed field are told from addresses, numbers and
protocol names; a rule file is a sequence of rules; packets have ports of 16 bits. `Flooding`: finitely
many switches and hosts, in any graph; every host has a switch, switches and
hosts are told apart, `None` is neither nor a MAC; the suppression window is not 0.
`DnsServer`: payloads are bytes; the tables hold texts, an alias has no addresses
of its own (as in the source's tables) and a target that is not empty, a pointer
may be followed, `None` is no number; the labels of the names asked for (in the
tables or not) have 1 to 63 ASCII bytes, none of them a dot or a capital, and the
names are shorter than 80 bytes, so that the offset in a pointer to their
copy is no letter and `Asks` may compare in any case. TLC
evaluates all of them in every passing run of the module.

**Topology, the argument.** `GraphInv` (types, sound graph, every node has a
datapath, no host on a link) is inductive by itself. `NoHostOnSwitchPort` needs
the others because a departing switch frees ports, and `GraphIsSound` because a
scrub reads both ends of a link. The flow properties are not: that flows have no
loop says nothing of how a path joins those already there. The inductive
invariant adds, for each located host, `Delivers`: its flows follow the present
graph, lead from connected switch to connected switch that has one, and every
non-empty set of switches has one whose flow leaves the set. Stating
loop-freedom over sets instead of paths is what makes it provable without
induction over data. `InstalledDelivers` is the main step: a set of switches
that meets the new path has its last switch on that path leaving the set, and a
set that does not is unchanged. `LinkAddKeepsMeaning` says that a new link
gives no existing flow another meaning, since its ports were unused, or all
flows are cleared.

**DHCP, the argument.** `Inv` joins the types, the agreement of each pair of
tables, `NoSharedAddress`, `OnlyPoolIsUsed`, `QuarantineIsRespected` and the
clause that no reserved address is under quarantine; the last is what makes
reservations stable. For each helper that changes the tables a lemma
says what its result is, and that it keeps the invariant; one effect lemma per
message (`DiscoverStep`, `RequestStep`, `ReleaseStep`, `DeclineStep`,
`TickGood`, `UnsupportedGood`) serves both the invariant and the refinement.
`LiveIsCleaned` and `LiveIsFresh` relate the tables to the abstract maps: no
timer is 0 after a clean-up, so what is live is what the tables hold.

**Shortest paths, the argument.** `Inv` gives the types, that distances start
at the source and predecessors lead back at smaller ones, and that the walk back
builds a path. `Shortest` adds what each algorithm has settled: for Dijkstra
(`Heaped`), switches taken from the heap have their links relaxed and are no
farther than what the heap still holds; for Bellman-Ford (`Rounded`), after
`r - 1` rounds no walk of `r - 1` hops beats the distances, and a round without
a change leaves nothing to relax. What has to be shown by going along a path is
shown by its first counterexample (`Minimum`, from the well-foundedness of the
naturals); that `n` switches need no path of `n` hops is the pigeonhole theorem
of the library.

**NAT, the argument.** The types are inductive by themselves. Under the mapping
that drops expired entries a clean-up changes nothing (`LiveType`,
`RecordedType`), an entry leaves at the tick that ends it, and each branch of
`handle_nat` is a step of `NatSessions` or a stutter.

**Firewall, the argument.** A flow denies a packet exactly when the rule it is
made of does, given what the field 0 means to a switch. The invariant
says that the table of a connected switch together with the FlowMods on their
way holds the flows of the rules reached and no others; a switch that returns
with its old table holds no others either. `NothingElseDropped` follows, since
a rule reached is a rule of the file; `CacheAlwaysTrue` because what is noted is
what was reached. Where the addresses parse no rule raises, so all rules that
make a flow are reached, and those that make none cover no packet:
`ParsedFilesEnforced`.

**Flooding, the argument.** `Inv` adds to the types what is true of each frame
in flight: it tells its sender's own MAC, a request that the gateway answers
never travels from switch to switch, and an answer between such a pair does not
exist. A gateway MAC is therefore told only by a proxy answer, and is never
learned from a frame.

`FloodsRunDown` is the part of `FloodsDieOut` that holds without fairness. Three
numbers, compared one after the other, fall with every step between two ticks
except the arrival of an IP packet, which leaves them as they are: what may
still start a flood (`Starts`), the frames that look for a host (`Callers`), and
the hops the replies have before them (`Returning`). A flood makes copies but
uses up its key; a request that is answered becomes a reply; a reply that is sent
on has fewer hops left. The last is the hard part, since the flows a reply meets
come from paths installed at other times and from other switches. The invariant
is `Leads`: every entry sends to a switch from where the host is nearer. It holds
because the switches of a shortest path are each one nearer than the one before
(`AlongIsNearer`), and that because what is left of a shortest path behind its
first switch is a shortest path too (`NextIsDirect`): from a shorter one the
whole could be made shorter, or the part of it that does not come back to the first
switch. The three numbers are cardinalities, so `FewerByMap` compares them by
injections.

**Progress, the argument.** Liveness is out of the prover's reach, but what makes
both functions end is not: every step uses up something finite. For Dijkstra it
is `Pending`: what the heap holds together with what it may still be given. An
entry is pushed only if it beats the distance known, so it was in `Pending`
before; the entry taken out is in it no more. That a distance stays within the
bound of `Pending` is `Near`: no distance exceeds the number of switches the heap
has come past, to which each relaxation adds one. `EveryTurnCounts` also keeps
Bellman-Ford within its rounds and takes the walk back nearer to the source.

**DNS, the argument.** The recursive definitions of the model (`Ascii`, `Labels`,
the trail in `Readable`) are functions on `0..n`. `RecursionDefines`, from the
well-foundedness of the naturals, says that there is exactly one function as such
a recursion demands, and `InductionUpTo` is induction for a set; so facts about what they
compute can be proved for all data. For `UnreadableIsRefused` the invariant
carries evidence: the handler stands at place `k` of a trail of offsets that begins
at 12, the depth is the number of pointers on it, and `end` is where its first
pointer ends. A trail that comes to a zero passes no offset twice, for it would go
in circles; so by the pigeonhole theorem it is shorter than the payload
(`TrailIsShort`), which is why `Readable` need not look further. A trail that
breaks off, or has too many pointers, excludes every other end
(`BrokenIsUnreadable`). For `AnswersFollowTables`
`AsksLayout` says where the labels, the zero, the pointer, and type and class of a
question stand in the payload, and `TellInv` that the handler reads along that
layout: `k` labels read, before the pointer or behind it. `WorkIsBounded` holds
because a label takes the offset forward within the payload and a pointer raises
the depth.

**Not proved.** `TopologyProofs` proves the flow properties under
`~TableSurvives`. Only model-checked are the liveness properties:
`Routing!Returns`, `DnsServer!Returns`, `StayingSwitchIsProtected`,
`FloodsDieOut`, `NeighbourIsTold`, `KnownHostIsTold`. Liveness under fairness is
out of the prover's reach; `EveryTurnCounts`, `WorkIsBounded` and `FloodsRunDown`
are what can be proved of the first, the second and the fourth. The violations
are TLC's.

To check: `tlc -config TopoDoubled.cfg MCTopology` (and likewise the others;
`Nat.cfg` goes with `Nat` itself), and `tlapm` on `TopologyProofs.tla`,
`DhcpServerProofs.tla`, `RoutingProofs.tla`, `NatProofs.tla`,
`FirewallProofs.tla`, `FloodingProofs.tla` and `DnsServerProofs.tla`.

## 5. What is not modelled, and the plan

1. **Data plane under change**: FlowMods in flight per switch, packets forwarded
   by the tables of the moment, tables that survive a reconnection
   (`TableSurvives = TRUE`); liveness of host learning on warming switches
   (`controller.py:271`).
2. **Discovery**: what LLDP still believes when a link is replaced or a port
   event removes a link that stays up (`controller.py:398`, `409`).
3. **DHCP clients**: clients as processes, with messages in flight, composed
   with `DhcpServer`: no two clients use one address at a time.
4. **Proofs**: what can be said of the flows of `Topology` with tables that
   survive.

Left out for good: the classes of `OfCtl` for OpenFlow 1.2 and 1.3 and the
helpers no component calls, packet parsing of os-ken, the TCP and UDP tables of
`NATServer` (no code uses them), and the tests, scripts and experiments. Not
modelled either: that a question with a pointer into the header or behind itself,
echoed in the answer, no longer reads as it did.
