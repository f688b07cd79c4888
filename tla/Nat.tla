--------------------------------- MODULE Nat ---------------------------------
(***************************************************************************)
(* The NAT gateway (src/nat.py): the table of ICMP mappings, written by    *)
(* every ICMP packet that leaves for an external address and read, once,   *)
(* by every ICMP packet that comes back to the gateway's own address.      *)
(*                                                                         *)
(* The handler runs inside packet_in_handler, one packet at a time.  What  *)
(* is concurrent is the network: packets are delayed, reordered, repeated  *)
(* and lost, remote hosts ping the gateway on their own account, hosts are *)
(* learned and lost by the controller (module Topology), and time passes.  *)
(*                                                                         *)
(* An expiry time is kept as the seconds left.  A packet that handle_nat   *)
(* does not take goes on to ordinary forwarding (module Flooding).         *)
(*                                                                         *)
(* An operator whose name starts with Fault_ is a plausible mistake in the *)
(* operator that follows it; no specification uses it.                     *)
(***************************************************************************)
EXTENDS Naturals

CONSTANTS
    Host,      \* internal addresses
    Remote,    \* external addresses
    Id,        \* ICMP identifiers
    Timeout,   \* NATConfig.icmp_timeout
    None       \* an absent entry of a dictionary

ASSUME NatAssumption ==
    /\ Host \cap Remote = {}
    /\ None \notin Host
    /\ None \notin Host \X (1..Timeout)
    /\ Timeout \in Nat \ {0}

\* The key of a mapping: the remote address and the identifier.
Key == Remote \X Id

\* What the controller knows of an address: no MAC (ip_to_mac), no location
\* (mac_to_loc), a location on a switch without a datapath (dpid_to_dp), or
\* all it takes to send to it.
Knowledge == {"unknown", "unplugged", "detached", "reachable"}

\* Packets in flight outside: the translated ones to a remote, and those of a
\* remote to the gateway, which are answers or pings of its own.
Packet == [kind : {"outbound", "answer", "ping"}, key : Key]

VARIABLES
    icmp_map,   \* NATServer._icmp_map: the internal address of a key
    left,       \* left[k]: the seconds left until the mapping expires
    known,      \* what the controller knows of each address
    wire,       \* packets in flight outside
    heard       \* what the last step gave an internal host: <<host, key>> or None

vars == <<icmp_map, left, known, wire, heard>>

TypeOK ==
    /\ icmp_map \in [Key -> Host \cup {None}]
    /\ left \in [Key -> 0..Timeout]
    /\ known \in [Host \cup Remote -> Knowledge]
    /\ wire \subseteq Packet
    /\ heard = None \/ heard \in Host \X Key

Init ==
    /\ icmp_map = [k \in Key |-> None]
    /\ left = [k \in Key |-> 0]
    /\ known = [a \in Host \cup Remote |-> "unknown"]
    /\ wire = {}
    /\ heard = None

-----------------------------------------------------------------------------
Fault_Live(k) == icmp_map[k]

\* The mapping of k that _cleanup_expired leaves.
Live(k) == IF left[k] = 0 THEN None ELSE icmp_map[k]

Fault_Recorded(h, k) ==
    /\ icmp_map' = [j \in Key |-> IF j = k THEN k[1] ELSE Live(j)]
    /\ left' = [left EXCEPT ![k] = Timeout]

\* The table once the expired mappings are gone and k is mapped to h.
Recorded(h, k) ==
    /\ icmp_map' = [j \in Key |-> IF j = k THEN h ELSE Live(j)]
    /\ left' = [left EXCEPT ![k] = Timeout]

\* Host h sends an ICMP packet, an echo request or the reply to one, to the
\* remote of key k (the SNAT branch).  The mapping is recorded before it is
\* known whether the remote's switch can be reached.
Snat(h, k) ==
    /\ IF known[k[1]] \in {"unknown", "unplugged"}
       THEN UNCHANGED <<icmp_map, left, wire>>
       ELSE /\ Recorded(h, k)
            /\ wire' = IF known[k[1]] = "detached" THEN wire
                       ELSE wire \cup {[kind |-> "outbound", key |-> k]}
    /\ heard' = None
    /\ UNCHANGED known

\* The table once the expired mappings and the one of k are gone.
Removed(k) ==
    /\ icmp_map' = [j \in Key |-> IF j = k THEN None ELSE Live(j)]
    /\ left' = [left EXCEPT ![k] = 0]

\* A packet of the remote of key k, whatever its ICMP type, comes to the
\* gateway (the DNAT branch).  The mapping is removed before it is known
\* whether the internal host can be reached.  The network may deliver the
\* packet again.
Dnat(p) ==
    LET k == p.key
        owner == Live(k)
    IN  /\ p \in wire
        /\ p.kind \in {"answer", "ping"}
        /\ IF owner = None
           THEN icmp_map' = [j \in Key |-> Live(j)] /\ UNCHANGED left /\ heard' = None
           ELSE /\ Removed(k)
                /\ heard' = IF known[owner] = "reachable" THEN <<owner, k>> ELSE None
        /\ wire' \in {wire, wire \ {p}}
        /\ UNCHANGED known

-----------------------------------------------------------------------------
(***************************************************************************)
(* The environment: the remote hosts, the network, the controller's other  *)
(* handlers and the clock.                                                 *)
(***************************************************************************)

\* A remote answers a packet it got, or pings the gateway.
RemoteSends(p) ==
    /\ p.kind = "answer" => [kind |-> "outbound", key |-> p.key] \in wire
    /\ p.kind # "outbound"
    /\ wire' = wire \cup {p}
    /\ heard' = None
    /\ UNCHANGED <<icmp_map, left, known>>

Lose(p) ==
    /\ p \in wire
    /\ wire' = wire \ {p}
    /\ heard' = None
    /\ UNCHANGED <<icmp_map, left, known>>

\* The controller learns or loses an address.
Learn(a, what) ==
    /\ known' = [known EXCEPT ![a] = what]
    /\ heard' = None
    /\ UNCHANGED <<icmp_map, left, wire>>

Tick ==
    /\ left' = [k \in Key |-> IF left[k] = 0 THEN 0 ELSE left[k] - 1]
    /\ heard' = None
    /\ UNCHANGED <<icmp_map, known, wire>>

Next ==
    \/ \E h \in Host, k \in Key : Snat(h, k)
    \/ \E p \in Packet : Dnat(p) \/ RemoteSends(p) \/ Lose(p)
    \/ \E a \in Host \cup Remote, what \in Knowledge : Learn(a, what)
    \/ Tick

Spec == Init /\ [][Next]_vars

-----------------------------------------------------------------------------
(***************************************************************************)
(* Correctness.                                                            *)
(***************************************************************************)

\* The sessions of the table: what an expired entry says does not count.
Sessions ==
    [k \in Key |-> IF Live(k) = None THEN None ELSE <<icmp_map[k], left[k]>>]

Promise == INSTANCE NatSessions WITH session <- Sessions

\* However packets are delayed, repeated and lost, the table is one of exact
\* sessions, although expired entries stay in it until the next packet: what
\* comes back goes to the host that sent last, once, and never after the
\* timeout (_build_snat_icmp_packet, _build_dnat_icmp_packet,
\* _cleanup_expired).
ImplementsSessions == Promise!Spec

=============================================================================
