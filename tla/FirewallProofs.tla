--------------------------- MODULE FirewallProofs ---------------------------
(***************************************************************************)
(* Proofs about Firewall: its types, what is dropped and what is not, and  *)
(* that the cache is true.                                                 *)
(***************************************************************************)
EXTENDS Firewall, TLAPS

\* The flows a switch is to hold.
Flows == {FlowOf(r) : r \in Reached}

-----------------------------------------------------------------------------
(***************************************************************************)
(* From rules to flows.                                                    *)
(***************************************************************************)

\* What a flow matches, field by field.
LEMMA MatchesFields ==
    ASSUME NEW r, NEW p
    PROVE  Matches(FlowOf(r), p) <=>
              /\ OrZero(r.src) \in {0, p.nw_src}
              /\ OrZero(r.dst) \in {0, p.nw_dst}
              /\ ProtoMap[r.proto] \in {0, p.nw_proto}
              /\ OrZero(r.src_port) \in {0, p.tp_src}
              /\ OrZero(r.dst_port) \in {0, p.tp_dst}
  BY DEF Matches, FlowOf

\* A rule that makes a flow and does not raise has fields the flow can hold.
LEMMA FlowType ==
    ASSUME NEW r \in RuleType, MakesFlow(r), ~Raises(r)
    PROVE  FlowOf(r) \in Flow
<1>1. OrZero(r.src) \in Addr \cup {0} /\ OrZero(r.dst) \in Addr \cup {0}
  BY FirewallAssumption DEF RuleType, Raises, OrZero
<1>2. ProtoMap[r.proto] \in {0, 1, 6, 17}
  BY FirewallAssumption DEF MakesFlow, ProtoMap
<1>3. ASSUME NEW field \in Nat \cup {Any, Malformed}, IsValidPort(field)
      PROVE  OrZero(field) \in 0..MaxPort
  <2>1. MaxPort \in Nat
    BY DEF MaxPort
  <2> QED BY <2>1, <1>3, FirewallAssumption DEF IsValidPort, OrZero
<1>4. OrZero(r.src_port) \in 0..MaxPort /\ OrZero(r.dst_port) \in 0..MaxPort
  <2>1. r.src_port \in Nat \cup {Any, Malformed} /\ r.dst_port \in Nat \cup {Any, Malformed}
    BY DEF RuleType
  <2>2. IsValidPort(r.src_port) /\ IsValidPort(r.dst_port)
    BY DEF MakesFlow
  <2> QED BY <1>3, <2>1, <2>2
<1>5. ASSUME NEW src \in Addr \cup {0}, NEW dst \in Addr \cup {0}, NEW proto \in {0, 1, 6, 17},
             NEW from \in 0..MaxPort, NEW to \in 0..MaxPort
      PROVE  [nw_src |-> src, nw_dst |-> dst, nw_proto |-> proto,
              tp_src |-> from, tp_dst |-> to] \in Flow
  BY DEF Flow
<1> QED BY <1>1, <1>2, <1>4, <1>5 DEF FlowOf

\* The numbers of the protocols.
LEMMA ProtoNumbers ==
    /\ DOMAIN ProtoMap = {Any, "icmp", "tcp", "udp"}
    /\ ProtoMap[Any] = 0 /\ ProtoMap["icmp"] = 1 /\ ProtoMap["tcp"] = 6 /\ ProtoMap["udp"] = 17
  BY FirewallAssumption DEF ProtoMap

LEMMA LastPort == MaxPort \in Nat /\ 0 <= MaxPort
  BY DEF MaxPort

\* The fields of a packet.
LEMMA PacketFields ==
    ASSUME NEW p \in Packet
    PROVE  /\ p.nw_src \in Addr /\ p.nw_dst \in Addr
           /\ p.nw_proto \in {1, 6, 17, 47}
           /\ p.tp_src \in 0..MaxPort /\ p.tp_dst \in 0..MaxPort
           /\ p.nw_proto \in {1, 47} => p.tp_src = 0 /\ p.tp_dst = 0
<1>1. CASE p \in [nw_src : Addr, nw_dst : Addr, nw_proto : {1, 47}, tp_src : {0}, tp_dst : {0}]
  <2>1. 0 \in 0..MaxPort
    BY LastPort
  <2> QED BY <1>1, <2>1
<1>2. CASE p \in [nw_src : Addr, nw_dst : Addr, nw_proto : {6, 17},
                  tp_src : PacketPort, tp_dst : PacketPort]
  <2>1. PacketPort \subseteq 0..MaxPort
    BY FirewallAssumption
  <2>2. /\ p.nw_src \in Addr /\ p.nw_dst \in Addr /\ p.nw_proto \in {6, 17}
        /\ p.tp_src \in PacketPort /\ p.tp_dst \in PacketPort
    BY <1>2
  <2>3. p.nw_proto \in {1, 6, 17, 47} /\ p.nw_proto \notin {1, 47}
    BY <2>2
  <2> QED BY <2>1, <2>2, <2>3, Zenon
<1> QED BY <1>1, <1>2 DEF Packet

\* A port field meets a packet's port as a rule's and as a flow's alike.
LEMMA PortMeets ==
    ASSUME NEW field \in Nat \cup {Any, Malformed}, NEW port \in 0..MaxPort
    PROVE  /\ field \in {Any, 0, port} => IsValidPort(field) /\ OrZero(field) \in {0, port}
           /\ OrZero(field) \in {0, port} => field \in {Any, 0, port} \/ field = Malformed
           /\ IsValidPort(field) => field # Malformed
           /\ field \in {Any, 0} <=> OrZero(field) = 0
<1>1. MaxPort \in Nat /\ 0 <= MaxPort /\ port \in Nat /\ port <= MaxPort
  BY LastPort
<1>2. Any # Malformed /\ Any \notin Nat /\ Malformed \notin Nat
  BY FirewallAssumption
<1>3. OrZero(Any) = 0 /\ (field # Any => OrZero(field) = field)
  BY DEF OrZero
<1>4. IsValidPort(field) <=> field # Malformed /\ OrZero(field) <= MaxPort
  BY DEF IsValidPort
<1>5. port # Any /\ port # Malformed /\ 0 # Any /\ 0 # Malformed
  BY <1>1, <1>2
<1>6. CASE field = Any
  BY <1>1, <1>2, <1>3, <1>4, <1>6
<1>7. CASE field = 0 \/ field = port
  BY <1>1, <1>3, <1>4, <1>5, <1>7
<1>8. CASE field \notin {Any, 0, port}
  BY <1>3, <1>4, <1>8
<1> QED BY <1>6, <1>7, <1>8

\* An address field does so too.
LEMMA AddressMeets ==
    ASSUME NEW field \in Addr \cup {Any, Malformed}, NEW address \in Addr
    PROVE  /\ field \in {Any, address} => field # Malformed /\ OrZero(field) \in {0, address}
           /\ OrZero(field) \in {0, address} => field \in {Any, address}
  BY FirewallAssumption DEF OrZero

\* The flow of a rule matches exactly the packets the rule covers, and a rule
\* that covers a packet makes a flow.
LEMMA FlowMeansRule ==
    ASSUME NEW r \in RuleType, NEW p \in Packet
    PROVE  Covers(r, p) <=> (MakesFlow(r) /\ Matches(FlowOf(r), p))
<1> DEFINE Addresses == r.src \in {Any, p.nw_src} /\ r.dst \in {Any, p.nw_dst}
           Ports == r.src_port \in {Any, 0, p.tp_src} /\ r.dst_port \in {Any, 0, p.tp_dst}
           NoPorts == r.src_port \in {Any, 0} /\ r.dst_port \in {Any, 0}
<1>1. /\ r.src \in Addr \cup {Any, Malformed} /\ r.dst \in Addr \cup {Any, Malformed}
      /\ r.proto \in {Any, "icmp", "tcp", "udp", "other"}
      /\ r.src_port \in Nat \cup {Any, Malformed} /\ r.dst_port \in Nat \cup {Any, Malformed}
  BY DEF RuleType
<1>2. Addresses <=> OrZero(r.src) \in {0, p.nw_src} /\ OrZero(r.dst) \in {0, p.nw_dst}
  BY <1>1, AddressMeets, PacketFields
<1>3. Ports => /\ IsValidPort(r.src_port) /\ IsValidPort(r.dst_port)
               /\ OrZero(r.src_port) \in {0, p.tp_src} /\ OrZero(r.dst_port) \in {0, p.tp_dst}
  BY <1>1, PortMeets, PacketFields
<1>4. IsValidPort(r.src_port) /\ IsValidPort(r.dst_port)
         /\ OrZero(r.src_port) \in {0, p.tp_src} /\ OrZero(r.dst_port) \in {0, p.tp_dst} => Ports
  BY <1>1, PortMeets, PacketFields
<1>5. NoPorts <=> OrZero(r.src_port) = 0 /\ OrZero(r.dst_port) = 0
  BY <1>1, PortMeets, PacketFields
<1>6. p.nw_proto \in {1, 47} /\ Ports => NoPorts
  BY PacketFields
<1>7. {r.src_port, r.dst_port} \subseteq {Any, 0} <=> NoPorts
  OBVIOUS
<1> HIDE DEF Addresses, Ports, NoPorts
<1>8. MakesFlow(r) <=>
         /\ r.action = "deny"
         /\ r.proto \in {Any, "icmp", "tcp", "udp"}
         /\ IsValidPort(r.src_port) /\ IsValidPort(r.dst_port)
         /\ NoPorts \/ r.proto \in {"tcp", "udp"}
  BY <1>5, ProtoNumbers DEF MakesFlow
<1>9. Covers(r, p) <=>
         /\ r.action = "deny" /\ Addresses /\ Ports
         /\ \/ r.proto = "icmp" /\ p.nw_proto = 1
            \/ r.proto = "tcp" /\ p.nw_proto = 6
            \/ r.proto = "udp" /\ p.nw_proto = 17
            \/ r.proto = Any /\ NoPorts
  BY <1>7 DEF Covers, Addresses, Ports
<1>10. p.nw_proto \in {1, 6, 17, 47}
  BY PacketFields
<1>11. CASE r.proto = "icmp"
  BY <1>11, <1>2, <1>3, <1>4, <1>6, <1>8, <1>9, <1>10, MatchesFields, ProtoNumbers, FirewallAssumption
<1>12. CASE r.proto = "tcp"
  BY <1>12, <1>2, <1>3, <1>4, <1>8, <1>9, <1>10, MatchesFields, ProtoNumbers, FirewallAssumption
<1>13. CASE r.proto = "udp"
  BY <1>13, <1>2, <1>3, <1>4, <1>8, <1>9, <1>10, MatchesFields, ProtoNumbers, FirewallAssumption
<1>14. CASE r.proto = Any
  BY <1>14, <1>2, <1>3, <1>4, <1>8, <1>9, <1>10, MatchesFields, ProtoNumbers, FirewallAssumption
<1>15. CASE r.proto = "other"
  BY <1>15, <1>8, <1>9, FirewallAssumption
<1> QED BY <1>1, <1>11, <1>12, <1>13, <1>14, <1>15

\* The rules of a file are records of rules.
LEMMA RulesType ==
    ASSUME rules \in RuleFiles, NEW k \in DOMAIN rules
    PROVE  rules[k] \in RuleType /\ k \in 1..k
<1>1. rules \in Seq(RuleType)
  BY FirewallAssumption
<1> QED BY <1>1

\* A flow matches only what a rule of the file covers.
LEMMA FlowsAreDenied ==
    ASSUME rules \in RuleFiles, NEW p \in Packet, NEW f \in Flows, Matches(f, p)
    PROVE  Denied(p)
<1>1. PICK k \in DOMAIN rules : MakesFlow(rules[k]) /\ f = FlowOf(rules[k])
  BY DEF Flows, Reached
<1>2. Covers(rules[k], p)
  BY <1>1, RulesType, FlowMeansRule
<1> QED BY <1>2 DEF Denied

\* When every address parses, the loop comes to every rule, so what the rules
\* cover is matched.
LEMMA DeniedHasFlow ==
    ASSUME rules \in RuleFiles, NEW p \in Packet, Denied(p), AddressesParse
    PROVE  \E f \in Flows : Matches(f, p)
<1>1. PICK k \in DOMAIN rules : Covers(rules[k], p)
  BY DEF Denied
<1>2. MakesFlow(rules[k]) /\ Matches(FlowOf(rules[k]), p)
  BY <1>1, RulesType, FlowMeansRule
<1>3. \A j \in 1..k : ~Raises(rules[j])
  <2>1. \A j \in 1..k : j \in DOMAIN rules
    <3>1. rules \in Seq(RuleType)
      BY FirewallAssumption
    <3> QED BY <3>1
  <2> QED BY <2>1 DEF AddressesParse, Raises
<1> QED BY <1>1, <1>2, <1>3 DEF Flows, Reached

\* They are flows.
LEMMA FlowsType ==
    ASSUME rules \in RuleFiles
    PROVE  Flows \subseteq Flow
<1>1. ASSUME NEW k \in DOMAIN rules, MakesFlow(rules[k]), \A j \in 1..k : ~Raises(rules[j])
      PROVE  FlowOf(rules[k]) \in Flow
  BY <1>1, RulesType, FlowType
<1> QED BY <1>1 DEF Flows, Reached

-----------------------------------------------------------------------------
(***************************************************************************)
(* The inductive invariant: a switch holds and is sent nothing but the     *)
(* flows of the rules, and one that is connected holds or is sent them all.*)
(***************************************************************************)
Installs ==
    \A d \in Dpid :
        /\ table[d] \subseteq Flows /\ pending[d] \subseteq Flows
        /\ d \in connected => Flows \subseteq table[d] \cup pending[d]

Inv == TypeOK /\ Installs

\* The steps that leave the rules alone leave their flows alone.
LEMMA SameFlows == ASSUME UNCHANGED rules PROVE Flows' = Flows
  BY DEF Flows, Reached, MakesFlow, Raises, FlowOf, IsValidPort, OrZero, ProtoMap

LEMMA SwitchAddStep ==
    ASSUME Inv, NEW d \in Dpid, SwitchAdd(d)
    PROVE  Inv'
<1>1. Flows' = Flows /\ Flows \subseteq Flow
  BY SameFlows, FlowsType DEF SwitchAdd, Inv, TypeOK
<1>2. \A f \in Flows : <<d, f>> \notin ResetSwitch(d)
  BY DEF ResetSwitch
<1>3. pending' = [pending EXCEPT ![d] = Flows]
  BY <1>2 DEF SwitchAdd, Flows
<1>4. installed' = ResetSwitch(d) \cup {<<d, f>> : f \in Flows}
  BY DEF SwitchAdd, Flows
<1>5. table' \in {table, [table EXCEPT ![d] = {}]}
  BY DEF SwitchAdd
<1>6. TypeOK'
  BY <1>1, <1>3, <1>4, <1>5 DEF Inv, TypeOK, SwitchAdd, ResetSwitch
<1>7. Installs'
  BY <1>1, <1>3, <1>5 DEF Inv, TypeOK, Installs, SwitchAdd
<1> QED BY <1>6, <1>7 DEF Inv

LEMMA SwitchDeleteStep ==
    ASSUME Inv, NEW d \in Dpid, SwitchDelete(d)
    PROVE  Inv'
<1>1. Flows' = Flows
  BY SameFlows DEF SwitchDelete
<1> QED BY <1>1 DEF Inv, TypeOK, Installs, SwitchDelete

LEMMA ApplyStep ==
    ASSUME Inv, NEW d \in Dpid, Apply(d)
    PROVE  Inv'
<1>1. Flows' = Flows
  BY SameFlows DEF Apply
<1>2. PICK f \in pending[d] : pending' = [pending EXCEPT ![d] = @ \ {f}]
                           /\ table' = [table EXCEPT ![d] = @ \cup {f}]
  BY DEF Apply
<1>3. TypeOK'
  BY <1>2 DEF Inv, TypeOK, Apply
<1>4. Installs'
  BY <1>1, <1>2 DEF Inv, TypeOK, Installs, Apply
<1> QED BY <1>3, <1>4 DEF Inv

\* The invariant holds in every reachable state.
LEMMA Invariance == Spec => []Inv
<1>1. Init => Inv
  <2> SUFFICES ASSUME Init PROVE Inv
    OBVIOUS
  <2>1. TypeOK
    BY DEF Init, TypeOK
  <2>2. Installs
    BY DEF Init, Installs
  <2> QED BY <2>1, <2>2 DEF Inv
<1>2. Inv /\ [Next]_vars => Inv'
  <2> SUFFICES ASSUME Inv, [Next]_vars PROVE Inv'
    OBVIOUS
  <2>1. CASE UNCHANGED vars
    <3>1. Flows' = Flows
      BY <2>1, SameFlows DEF vars
    <3> QED BY <2>1, <3>1 DEF vars, Inv, TypeOK, Installs
  <2> QED BY <2>1, SwitchAddStep, SwitchDeleteStep, ApplyStep DEF Next
<1> QED BY <1>1, <1>2, PTL DEF Spec

\* Every reachable state of the firewall has its type.
THEOREM TypeCorrect == Spec => []TypeOK
<1>1. Inv => TypeOK
  BY DEF Inv
<1> QED BY <1>1, Invariance, PTL

\* For any file, whatever does not parse in it, and any switches: no switch drops
\* a packet that no rule of the file covers.
THEOREM NothingElseDropped == Spec => []NothingElseIsDropped
<1>1. Inv => NothingElseIsDropped
  <2> SUFFICES ASSUME Inv, NEW d \in Dpid, NEW p \in Packet, Dropped(d, p)
               PROVE  Denied(p)
    BY DEF NothingElseIsDropped
  <2>1. PICK f \in table[d] : Matches(f, p)
    BY DEF Dropped
  <2>2. f \in Flows
    BY <2>1 DEF Inv, Installs
  <2> QED BY <2>1, <2>2, FlowsAreDenied DEF Inv, TypeOK
<1> QED BY <1>1, Invariance, PTL

\* For any file whose addresses all parse, and any switches: a connected switch
\* that has applied what it was sent drops every packet that some rule covers.
THEOREM ParsedFilesEnforced == Spec => []FirewallIsEnforced
<1>1. Inv => FirewallIsEnforced
  <2> SUFFICES ASSUME Inv, AddressesParse, NEW d \in connected, NEW p \in Packet,
                      Denied(p), pending[d] = {}
               PROVE  Dropped(d, p)
    BY DEF FirewallIsEnforced, ValidRulesAreInstalled
  <2>1. d \in Dpid /\ rules \in RuleFiles
    BY DEF Inv, TypeOK
  <2>2. PICK f \in Flows : Matches(f, p)
    BY <2>1, DeniedHasFlow
  <2>3. Flows \subseteq table[d]
    BY <2>1 DEF Inv, Installs
  <2> QED BY <2>2, <2>3 DEF Dropped
<1> QED BY <1>1, Invariance, PTL

\* For any file and any switches: a flow that the cache remembers for a connected
\* switch was sent to it, also when a rule has ended the loop.
THEOREM CacheAlwaysTrue == Spec => []CacheIsTrue
<1>1. Init => CacheIsTrue
  BY DEF Init, CacheIsTrue
<1>2. TypeOK /\ CacheIsTrue /\ [Next]_vars => CacheIsTrue'
  <2> SUFFICES ASSUME TypeOK, CacheIsTrue, [Next]_vars PROVE CacheIsTrue'
    OBVIOUS
  <2>1. CASE UNCHANGED vars
    BY <2>1 DEF vars, CacheIsTrue
  <2>2. ASSUME NEW d \in Dpid, SwitchAdd(d) PROVE CacheIsTrue'
    <3>1. SUFFICES ASSUME NEW key \in installed', key[1] \in connected'
                   PROVE  key[2] \in table'[key[1]] \cup pending'[key[1]]
      BY DEF CacheIsTrue
    <3>2. PICK flows : /\ flows = {FlowOf(r) : r \in Reached}
                       /\ pending' = [pending EXCEPT ![d] =
                                         {f \in flows : <<d, f>> \notin ResetSwitch(d)}]
                       /\ installed' = ResetSwitch(d) \cup {<<d, f>> : f \in flows}
      BY <2>2 DEF SwitchAdd
    <3>3. \A f : <<d, f>> \notin ResetSwitch(d)
      BY DEF ResetSwitch
    <3>4. CASE key \in ResetSwitch(d)
      <4>1. key \in installed /\ key[1] # d /\ key[1] \in Dpid /\ key[1] \in connected
        BY <2>2, <3>1, <3>4 DEF ResetSwitch, SwitchAdd, TypeOK
      <4>2. table'[key[1]] = table[key[1]] /\ pending'[key[1]] = pending[key[1]]
        BY <2>2, <3>2, <4>1 DEF SwitchAdd, TypeOK
      <4> QED BY <4>1, <4>2 DEF CacheIsTrue
    <3>5. CASE key \notin ResetSwitch(d)
      <4>1. PICK f \in flows : key = <<d, f>>
        BY <3>1, <3>2, <3>5
      <4>2. pending'[d] = flows
        BY <3>2, <3>3 DEF TypeOK
      <4> QED BY <4>1, <4>2
    <3> QED BY <3>4, <3>5
  <2>3. ASSUME NEW d \in Dpid, SwitchDelete(d) PROVE CacheIsTrue'
    BY <2>3 DEF SwitchDelete, CacheIsTrue, TypeOK
  <2>4. ASSUME NEW d \in Dpid, Apply(d) PROVE CacheIsTrue'
    <3>1. PICK f \in pending[d] : /\ pending' = [pending EXCEPT ![d] = @ \ {f}]
                                  /\ table' = [table EXCEPT ![d] = @ \cup {f}]
                                  /\ UNCHANGED <<installed, connected>>
      BY <2>4 DEF Apply
    <3>2. \A n \in Dpid : table[n] \cup pending[n] \subseteq table'[n] \cup pending'[n]
      BY <3>1 DEF TypeOK
    <3>3. \A key \in installed : key[1] \in Dpid
      BY DEF TypeOK
    <3> QED BY <3>1, <3>2, <3>3 DEF CacheIsTrue
  <2> QED BY <2>1, <2>2, <2>3, <2>4 DEF Next
<1> QED BY <1>1, <1>2, TypeCorrect, PTL DEF Spec

=============================================================================
