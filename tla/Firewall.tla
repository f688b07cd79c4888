------------------------------ MODULE Firewall ------------------------------
(***************************************************************************)
(* The firewall (src/firewall.py) on switches that come and go: the rules  *)
(* of the file become drop flows, sent once per switch and remembered in   *)
(* self.installed, and _handle_switch_add (src/controller.py) has them     *)
(* sent anew to a switch that joins.                                       *)
(*                                                                         *)
(* A switch applies the FlowMods it was sent in its own time, loses those  *)
(* in flight with its connection, and may come back with its table or with *)
(* an empty one.                                                           *)
(*                                                                         *)
(* An operator whose name starts with Fault_ is a plausible mistake in the *)
(* operator that follows it; no specification uses it.                     *)
(***************************************************************************)
EXTENDS Naturals, Sequences

CONSTANTS
    Dpid,        \* switches
    Addr,        \* IP addresses
    Any,         \* a field that is absent, empty, "*" or "any"
    Malformed,   \* an address or a port that does not parse
    RuleFiles,   \* the lists of rules the file may hold
    PacketPort   \* the TCP and UDP ports that packets have

RuleType ==
    [src : Addr \cup {Any, Malformed}, dst : Addr \cup {Any, Malformed},
     proto : {Any, "icmp", "tcp", "udp", "other"},
     src_port : Nat \cup {Any, Malformed}, dst_port : Nat \cup {Any, Malformed},
     action : {"deny", "other"}]

MaxPort == 65535

ASSUME FirewallAssumption ==
    /\ {Any, Malformed} \cap (Addr \cup Nat) = {}
    /\ Addr \cap Nat = {}
    /\ Any \notin {"icmp", "tcp", "udp", "other", Malformed}
    /\ RuleFiles \subseteq Seq(RuleType)
    /\ PacketPort \subseteq 0..MaxPort

VARIABLES
    rules,       \* self.rules
    installed,   \* self.installed: the flows sent to each switch
    connected,   \* the switches with a connection
    pending,     \* the FlowMods on their way to each switch
    table        \* the drop flows each switch holds

vars == <<rules, installed, connected, pending, table>>

Init ==
    /\ rules \in RuleFiles
    /\ installed = {}
    /\ connected = {}
    /\ pending = [d \in Dpid |-> {}]
    /\ table = [d \in Dpid |-> {}]

-----------------------------------------------------------------------------
(***************************************************************************)
(* From rules to flows.  A field of a flow that is 0 matches everything.   *)
(***************************************************************************)

\* PROTO_MAP: a protocol it does not have makes no flow.
ProtoMap ==
    [p \in {Any, "icmp", "tcp", "udp"} |->
        IF p = Any THEN 0 ELSE [icmp |-> 1, tcp |-> 6, udp |-> 17][p]]

OrZero(field) == IF field = Any THEN 0 ELSE field

Fault_IsValidPort(field) == field # Malformed /\ OrZero(field) < MaxPort

IsValidPort(field) == field # Malformed /\ OrZero(field) <= MaxPort

Fault_MakesFlow(r) ==
    /\ r.action = "deny"
    /\ r.proto \in DOMAIN ProtoMap
    /\ IsValidPort(r.src_port) /\ IsValidPort(r.dst_port)

\* The rules install_rules does not skip.
MakesFlow(r) ==
    /\ r.action = "deny"
    /\ r.proto \in DOMAIN ProtoMap
    /\ IsValidPort(r.src_port) /\ IsValidPort(r.dst_port)
    /\ (OrZero(r.src_port) # 0 \/ OrZero(r.dst_port) # 0) => r.proto \in {"tcp", "udp"}

\* Building the flow of such a rule raises when an address does not parse, and
\* ends the loop over the rules.
Raises(r) == MakesFlow(r) /\ Malformed \in {r.src, r.dst}

\* The rules the loop comes to and does not skip.
Reached == {rules[k] : k \in {k \in DOMAIN rules :
               MakesFlow(rules[k]) /\ \A j \in 1..k : ~Raises(rules[j])}}

Fault_FlowOf(r) ==
    [nw_src |-> r.src, nw_dst |-> r.dst, nw_proto |-> r.proto,
     tp_src |-> r.src_port, tp_dst |-> r.dst_port]

FlowOf(r) ==
    [nw_src |-> OrZero(r.src), nw_dst |-> OrZero(r.dst), nw_proto |-> ProtoMap[r.proto],
     tp_src |-> OrZero(r.src_port), tp_dst |-> OrZero(r.dst_port)]

Flow == [nw_src : Addr \cup {0}, nw_dst : Addr \cup {0}, nw_proto : {0, 1, 6, 17},
         tp_src : 0..MaxPort, tp_dst : 0..MaxPort]

-----------------------------------------------------------------------------
Fault_ResetSwitch(d) == installed

\* self.installed once a switch is forgotten.
ResetSwitch(d) == {key \in installed : key[1] # d}

Fault_SwitchAdd(d) ==
    LET cache == ResetSwitch(d)
        flows == {FlowOf(r) : r \in Reached}
        noted == {FlowOf(rules[k]) : k \in {k \in DOMAIN rules : MakesFlow(rules[k])}}
    IN  /\ d \notin connected
        /\ connected' = connected \cup {d}
        /\ table' \in {table, [table EXCEPT ![d] = {}]}
        /\ pending' = [pending EXCEPT ![d] = {f \in flows : <<d, f>> \notin cache}]
        /\ installed' = cache \cup {<<d, f>> : f \in noted}
        /\ UNCHANGED rules

\* The switch joins, with the table it had or, restarted, with an empty one;
\* what the cache does not hold is sent.
SwitchAdd(d) ==
    LET cache == ResetSwitch(d)
        flows == {FlowOf(r) : r \in Reached}
    IN  /\ d \notin connected
        /\ connected' = connected \cup {d}
        /\ table' \in {table, [table EXCEPT ![d] = {}]}
        /\ pending' = [pending EXCEPT ![d] = {f \in flows : <<d, f>> \notin cache}]
        /\ installed' = cache \cup {<<d, f>> : f \in flows}
        /\ UNCHANGED rules

\* The connection ends; the controller forgets nothing.
SwitchDelete(d) ==
    /\ d \in connected
    /\ connected' = connected \ {d}
    /\ pending' = [pending EXCEPT ![d] = {}]
    /\ UNCHANGED <<rules, installed, table>>

\* The switch applies FlowMods it was sent.
Apply(d) ==
    \E f \in pending[d] :
        /\ pending' = [pending EXCEPT ![d] = @ \ {f}]
        /\ table' = [table EXCEPT ![d] = @ \cup {f}]
        /\ UNCHANGED <<rules, installed, connected>>

Next == \E d \in Dpid : SwitchAdd(d) \/ SwitchDelete(d) \/ Apply(d)

\* A connection that lasts delivers what was sent over it.
Spec == Init /\ [][Next]_vars /\ \A d \in Dpid : WF_vars(Apply(d))

-----------------------------------------------------------------------------
(***************************************************************************)
(* Correctness.                                                            *)
(***************************************************************************)

TypeOK ==
    /\ rules \in RuleFiles
    /\ installed \subseteq Dpid \X Flow
    /\ connected \subseteq Dpid
    /\ pending \in [Dpid -> SUBSET Flow]
    /\ table \in [Dpid -> SUBSET Flow]

\* IP packets, by what a rule can tell of them; 47 is a protocol no rule names.
Packet ==
    [nw_src : Addr, nw_dst : Addr, nw_proto : {1, 47}, tp_src : {0}, tp_dst : {0}]
    \cup [nw_src : Addr, nw_dst : Addr, nw_proto : {6, 17},
          tp_src : PacketPort, tp_dst : PacketPort]

\* Packet p meets every field of flow f.
Matches(f, p) == \A field \in DOMAIN f : f[field] \in {0, p[field]}

Dropped(d, p) == \E f \in table[d] : Matches(f, p)

\* Deny rule r covers packet p.  Port 0 means any, and a rule with ports covers
\* nothing without TCP or UDP.
Covers(r, p) ==
    /\ r.action = "deny"
    /\ r.src \in {Any, p.nw_src} /\ r.dst \in {Any, p.nw_dst}
    /\ \/ r.proto = "icmp" /\ p.nw_proto = 1
       \/ r.proto = "tcp" /\ p.nw_proto = 6
       \/ r.proto = "udp" /\ p.nw_proto = 17
       \/ r.proto = Any /\ {r.src_port, r.dst_port} \subseteq {Any, 0}
    /\ r.src_port \in {Any, 0, p.tp_src} /\ r.dst_port \in {Any, 0, p.tp_dst}

\* A rule of the file covers packet p.
Denied(p) == \E k \in DOMAIN rules : Covers(rules[k], p)

\* Whatever the file holds, no switch ever drops what no rule of it denies: not
\* for a rule whose protocol is unknown, whose ports are out of range or make no
\* sense with its protocol, or whose address does not parse (install_rules).
NothingElseIsDropped == \A d \in Dpid, p \in Packet : Dropped(d, p) => Denied(p)

\* What the report promises: for each valid deny rule the firewall installs its
\* flow.  So a connected switch that has applied what it was sent drops all that
\* the rules deny, however often it has left, come back and lost its table or
\* its FlowMods (reset_switch, install_rules).
ValidRulesAreInstalled ==
    \A d \in connected, p \in Packet :
        (Denied(p) /\ pending[d] = {}) => Dropped(d, p)

\* Every address in the file parses.
AddressesParse == \A k \in DOMAIN rules : Malformed \notin {rules[k].src, rules[k].dst}

\* That promise is kept for a file whose addresses all parse: the other rules
\* that make no flow take no valid rule with them, wherever in the file they
\* stand (install_rules).
FirewallIsEnforced == AddressesParse => ValidRulesAreInstalled

\* What the cache remembers for a connected switch, the switch holds or is sent,
\* whichever rule has ended the loop: a flow that was not sent is not remembered,
\* or it would never be sent again (install_rules, reset_switch).
CacheIsTrue ==
    \A key \in installed :
        key[1] \in connected => key[2] \in table[key[1]] \cup pending[key[1]]

\* A switch that stays comes to drop all that the rules of a file deny whose
\* addresses parse (reset_switch, install_rules).
StayingSwitchIsProtected ==
    AddressesParse =>
        \A d \in Dpid :
            <>[](d \in connected) => <>[](\A p \in Packet : Denied(p) => Dropped(d, p))

=============================================================================
