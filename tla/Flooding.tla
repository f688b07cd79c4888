------------------------------ MODULE Flooding ------------------------------
(***************************************************************************)
(* Packet-ins of ControllerApp (src/controller.py) on a network at rest:   *)
(* proxy ARP, the flooding of what has no known destination, and the       *)
(* suppression of repeated floods (_should_flood).                         *)
(*                                                                         *)
(* The topology is fixed and discovered (Topology models its changes), so  *)
(* what is left to happen is the network's: every frame in flight reaches  *)
(* its switch in its own time, and a flood is one copy per link, each of   *)
(* which comes to the controller again as a packet-in of the next switch.  *)
(* Floods settle within a second; a host asks again every second until it  *)
(* is told.  Frames may be lost, hosts may be forgotten (their port goes   *)
(* down and up), and hosts send other frames, MaxTrouble times in all.     *)
(*                                                                         *)
(* A host stands for its MAC and its IP address.  "own" is the host's MAC, *)
(* "gateway" that of the NAT gateway.                                      *)
(*                                                                         *)
(* An operator whose name starts with Fault_ is a plausible mistake in the *)
(* operator that follows it; no specification uses it.                     *)
(***************************************************************************)
EXTENDS SwitchPaths, Naturals, Sequences, FiniteSets

CONSTANTS
    Graph,        \* self.graph
    Host,         \* hosts
    Home,         \* the switch of each host
    External,     \* the hosts outside NATConfig.internal_subnet
    Wants,        \* <<h, t>>: host h asks for the address of t, or announces
                  \* itself, t = h (gratuitous ARP)
    Window,       \* FLOOD_SUPPRESS_SECONDS
    MaxTrouble    \* the losses, forgotten hosts and other frames

ASSUME FloodingAssumption ==
    /\ IsFiniteSet(Dpid) /\ IsFiniteSet(Host)
    /\ Home \in [Host -> Dpid]
    /\ External \subseteq Host
    /\ Wants \subseteq Host \X Host
    /\ Window \in Nat \ {0} /\ MaxTrouble \in Nat
    /\ Dpid \cap Host = {}
    /\ None \notin Dpid \cup Host
    /\ None \notin {"own", "gateway"}

\* Frames by what they do to the controller: ARP requests and replies, IP
\* packets (to a MAC the sender has known before), and the broadcasts of
\* protocols the controller knows nothing of.  A reply says which MAC tells.
Kind == {"request", "reply", "ip", "other"}

Frame == [kind : Kind, src : Host, tgt : Host, says : {"own", "gateway"},
          at : Dpid, via : Dpid \cup Host]

VARIABLES
    frames,    \* the frames on their way to switch .at from .via
    history,   \* flood_history: the seconds a flood stays suppressed, by key
    cache,     \* ip_to_mac
    located,   \* the hosts in mac_to_loc
    flows,     \* flows[d][h]: where d's entry for h sends, None without one
    told,      \* told[<<h, t>>]: what h has been told of t
    asked,     \* the pairs that asked in this second
    trouble    \* the trouble there has been

controller == <<history, cache, located, flows>>
vars == <<frames, controller, told, asked, trouble>>

Keys == {"request", "reply", "other"} \X Host \X Host

Init ==
    /\ frames = {}
    /\ history = [k \in Keys |-> 0]
    /\ cache = [h \in Host |-> None]
    /\ located = {}
    /\ flows = [d \in Dpid |-> [h \in Host |-> None]]
    /\ told = [p \in Wants |-> None]
    /\ asked = {}
    /\ trouble = 0

-----------------------------------------------------------------------------
(***************************************************************************)
(* Sending.                                                                *)
(***************************************************************************)

\* A frame host h puts on its own port.
FromHost(kind, h, t) ==
    [kind |-> kind, src |-> h, tgt |-> t, says |-> "own", at |-> Home[h], via |-> h]

\* Frame f on the link from its switch to switch n.
Onward(f, n) ==
    [kind |-> f.kind, src |-> f.src, tgt |-> f.tgt, says |-> f.says, at |-> n, via |-> f.at]

\* What reaches a host is a reply that tells it something, a request that it
\* answers, or nothing to this model.
Told(f, h) ==
    IF f.kind = "reply" /\ f.tgt = h /\ <<h, f.src>> \in Wants
    THEN [told EXCEPT ![<<h, f.src>>] = f.says] ELSE told

Answers(f, h) ==
    IF f.kind = "request" /\ f.tgt = h /\ f.src # h THEN {FromHost("reply", h, f.src)} ELSE {}

\* Frame f goes out to host h, or to switch n.
SendToHost(f, h) ==
    /\ frames' = (frames \ {f}) \cup Answers(f, h)
    /\ told' = Told(f, h)

Drop(f) == frames' = frames \ {f} /\ UNCHANGED told

\* A switch sends nothing back out of the port it came in by; no frame comes in
\* from the host that it is for.
SendToSwitch(f, n) ==
    IF n = f.via THEN Drop(f)
    ELSE frames' = (frames \ {f}) \cup {Onward(f, n)} /\ UNCHANGED told

\* OFPP_FLOOD: every port of the switch but the one the frame came in by.
Flood(f) ==
    LET heard == {f.tgt} \cap {h \in Host : Home[h] = f.at /\ h # f.via}
    IN  /\ frames' = (frames \ {f})
                \cup {Onward(f, n) : n \in {n \in Dpid : Graph[f.at][n] # None /\ n # f.via}}
                \cup UNION {Answers(f, h) : h \in heard}
        /\ told' = IF heard = {} THEN told ELSE Told(f, f.tgt)

Fault_Refreshed(k, left) == Window

\* The history of key k, left seconds before it expires, once it is met.
Refreshed(k, left) == IF left = 0 THEN Window ELSE left

Fault_ShouldFlood(k) == TRUE

ShouldFlood(k) == history[k] = 0

\* A flood that is suppressed while its key is fresh.
FloodOnce(f) ==
    LET k == <<f.kind, f.src, f.tgt>>
    IN  /\ IF ShouldFlood(k) THEN Flood(f) ELSE Drop(f)
        /\ history' = [history EXCEPT ![k] = Refreshed(k, @)]

-----------------------------------------------------------------------------
(***************************************************************************)
(* Packet-ins.                                                             *)
(***************************************************************************)

\* _learn_host: the address in any case, the place only on a host port; a new
\* place outdates the flows.
CacheWith(f) == [cache EXCEPT ![f.src] = f.says]

Fault_LearnPlace(f) == located' = located \cup {f.via}

LearnPlace(f) ==
    located' = IF f.via = f.src THEN located \cup {f.src} ELSE located

FlowsLearned(f) ==
    [d \in Dpid |-> [h \in Host |->
        IF h = f.src /\ f.via = h /\ h \notin located THEN None ELSE flows[d][h]]]

Fault_GatewayAnswers(h, t) == h \notin External /\ t \in External /\ cache[t] # None

\* An internal host asks for an external one: the NAT gateway stands in.
GatewayAnswers(h, t) == h \notin External /\ t \in External

\* The proxy's answer to request f goes out of the port f came in by: it enters
\* the switch at OFPP_CONTROLLER.
Fault_ProxyReply(f, mac) == Drop(f)

ProxyReply(f, mac) ==
    LET r == [kind |-> "reply", src |-> f.tgt, tgt |-> f.src, says |-> mac,
              at |-> f.at, via |-> f.at]
    IN  IF f.via \in Host
        THEN frames' = frames \ {f} /\ told' = Told(r, f.via)
        ELSE frames' = (frames \ {f}) \cup {Onward(r, f.via)} /\ UNCHANGED told

ArpRequest(f) ==
    /\ f.kind = "request"
    /\ IF f.src = f.tgt /\ f.via \in Dpid
       THEN UNCHANGED <<cache, located, flows>>
       ELSE cache' = CacheWith(f) /\ LearnPlace(f) /\ flows' = FlowsLearned(f)
    /\ IF GatewayAnswers(f.src, f.tgt)
       THEN ProxyReply(f, "gateway") /\ UNCHANGED history
       ELSE IF cache'[f.tgt] # None
       THEN ProxyReply(f, cache'[f.tgt]) /\ UNCHANGED history
       ELSE FloodOnce(f)

Fault_Installed(table, q, h) ==
    [d \in Dpid |->
        IF \E k \in DOMAIN q : q[k] = d
        THEN [table[d] EXCEPT ![h] =
                 IF d = q[1] THEN h ELSE q[(CHOOSE k \in DOMAIN q : q[k] = d) - 1]]
        ELSE table[d]]

\* The entries for host h along path q, the last one to its port.
Installed(table, q, h) ==
    [d \in Dpid |->
        IF \E k \in DOMAIN q : q[k] = d
        THEN [table[d] EXCEPT ![h] =
                 IF d = Home[h] THEN h ELSE q[1 + CHOOSE k \in DOMAIN q : q[k] = d]]
        ELSE table[d]]

\* _forward_packet, along any of the shortest paths: without one no flow is
\* installed, and the frame is dropped.
Forward(f) ==
    LET origin == IF f.src \in located' THEN Home[f.src] ELSE f.at
        installed == ShortestPaths(Graph, Dpid, origin, Home[f.tgt])
        onward == ShortestPaths(Graph, Dpid, f.at, Home[f.tgt])
    IN  /\ flows' \in IF installed = {} THEN {FlowsLearned(f)}
                      ELSE {Installed(FlowsLearned(f), q, f.tgt) : q \in installed}
        /\ IF f.at = Home[f.tgt] THEN SendToHost(f, f.tgt)
           ELSE IF onward = {} THEN Drop(f)
           ELSE \E r \in onward : SendToSwitch(f, r[2])

\* No entry of the switch takes the frame, which is addressed to one host.
Missed(f) == flows[f.at][f.tgt] = None

ArpReply(f) ==
    /\ f.kind = "reply"
    /\ Missed(f)
    /\ cache' = [CacheWith(f) EXCEPT ![f.tgt] = "own"]
    /\ LearnPlace(f)
    /\ IF f.tgt \notin located'
       THEN FloodOnce(f) /\ flows' = FlowsLearned(f)
       ELSE IF f.at = Home[f.tgt]
       THEN SendToHost(f, f.tgt) /\ flows' = FlowsLearned(f) /\ UNCHANGED history
       ELSE Forward(f) /\ UNCHANGED history

\* An IP packet is flooded without suppression while its host has no place.
IpPacket(f) ==
    /\ f.kind = "ip"
    /\ Missed(f)
    /\ cache' = CacheWith(f)
    /\ LearnPlace(f)
    /\ IF f.tgt \in located' THEN Forward(f) ELSE Flood(f) /\ flows' = FlowsLearned(f)
    /\ UNCHANGED history

OtherFrame(f) ==
    /\ f.kind = "other"
    /\ FloodOnce(f)
    /\ UNCHANGED <<cache, located, flows>>

\* A frame that an entry of the switch takes never comes to the controller.
Switched(f) ==
    /\ f.kind \in {"reply", "ip"}
    /\ ~Missed(f)
    /\ IF flows[f.at][f.tgt] = f.tgt THEN SendToHost(f, f.tgt)
       ELSE SendToSwitch(f, flows[f.at][f.tgt])
    /\ UNCHANGED controller

Arrive(f) ==
    /\ f \in frames
    /\ ArpRequest(f) \/ ArpReply(f) \/ IpPacket(f) \/ OtherFrame(f) \/ Switched(f)
    /\ UNCHANGED <<asked, trouble>>

-----------------------------------------------------------------------------
(***************************************************************************)
(* Hosts, losses and time.                                                 *)
(***************************************************************************)

Asking == {p \in Wants : told[p] = None}

Ask(p) ==
    /\ p \in Asking \ asked
    /\ frames' = frames \cup {FromHost("request", p[1], p[2])}
    /\ asked' = asked \cup {p}
    /\ UNCHANGED <<controller, told, trouble>>

\* A host sends an IP packet, broadcasts, or answers a request addressed to its
\* own MAC, which flows have brought past the controller; the external hosts'
\* MACs are never told to an internal one.
Send(h, t) ==
    /\ h # t
    /\ \E kind \in {"reply", "ip", "other"} :
           /\ kind = "reply" => ~GatewayAnswers(t, h)
           /\ frames' = frames \cup {FromHost(kind, h, t)}
    /\ UNCHANGED <<controller, told, asked>>

Lose ==
    /\ \E f \in frames : frames' = frames \ {f}
    /\ UNCHANGED <<controller, told, asked>>

\* The port of a host goes down and up (handle_port_modify).
Forget(h) ==
    /\ h \in located
    /\ located' = located \ {h}
    /\ cache' = [cache EXCEPT ![h] = None]
    /\ UNCHANGED <<frames, history, flows, told, asked>>

Trouble ==
    /\ trouble < MaxTrouble
    /\ trouble' = trouble + 1
    /\ Lose \/ \E h \in Host : Forget(h) \/ \E t \in Host : Send(h, t)

\* Everything that dies out has died out, and everyone who asks has asked.
Settled == \A f \in frames : f.kind = "ip"

Tick ==
    /\ Settled
    /\ Asking \subseteq asked
    /\ asked' = {}
    /\ history' = [k \in Keys |-> IF history[k] = 0 THEN 0 ELSE history[k] - 1]
    /\ UNCHANGED <<frames, cache, located, flows, told, trouble>>

Next ==
    \/ \E f \in frames : Arrive(f)
    \/ \E p \in Wants : Ask(p)
    \/ Trouble
    \/ Tick

ArriveAs(kind) == \E f \in frames : f.kind = kind /\ Arrive(f)

\* Frames arrive, whatever else is in flight; hosts ask on; time passes.
Fairness ==
    /\ \A kind \in Kind : WF_vars(ArriveAs(kind))
    /\ \A p \in Wants : WF_vars(Ask(p))
    /\ WF_vars(Tick)

Spec == Init /\ [][Next]_vars /\ Fairness

-----------------------------------------------------------------------------
(***************************************************************************)
(* Correctness.                                                            *)
(***************************************************************************)

TypeOK ==
    /\ frames \subseteq Frame
    /\ history \in [Keys -> 0..Window]
    /\ cache \in [Host -> {None, "own", "gateway"}]
    /\ located \subseteq Host
    /\ flows \in [Dpid -> [Host -> Dpid \cup Host \cup {None}]]
    /\ told \in [Wants -> {None, "own", "gateway"}]
    /\ asked \subseteq Wants
    /\ trouble \in 0..MaxTrouble

\* The gateway's MAC never enters the cache as the address of an external
\* host, nor does any host learn it of an internal one: no copy of a request
\* the gateway answers travels on, whose answer would be heard by the next
\* switch (_handle_arp).
GatewayStandsInForExternals ==
    /\ \A h \in Host : cache[h] # "gateway"
    /\ \A p \in Wants :
          told[p] # None => (told[p] = "gateway" <=> GatewayAnswers(p[1], p[2]))

\* What may still start a flood before time goes on: a key that is not
\* suppressed, a host that has not asked, trouble.
Starts == Cardinality({k \in Keys : history[k] = 0}) + Cardinality(Wants \ asked)
          + (MaxTrouble - trouble)

\* The frames in flight that are answered, flooded or dropped.
Callers == {f \in frames : f.kind \in {"request", "other"}}

\* The switches on a shortest path from d to t, 0 without a path.
Distance(paths) == IF paths = {} THEN 0 ELSE Len(CHOOSE q \in paths : TRUE)

Far == [d \in Dpid |-> [t \in Dpid |-> Distance(ShortestPaths(Graph, Dpid, d, t))]]

\* The replies in flight, each as often as it may be sent on and then once more.
Returning ==
    {r \in frames \X (0..Cardinality(Dpid)) :
        r[1].kind = "reply" /\ r[2] <= Far[r[1].at][Home[r[1].tgt]]}

\* Less may start; or as much, and fewer frames look for a host; or as many, and
\* the replies have a shorter way to go.
RunsDown ==
    \/ Starts' < Starts
    \/ /\ Starts' = Starts
       /\ Cardinality(Callers') < Cardinality(Callers)
    \/ /\ Starts' = Starts /\ Cardinality(Callers') = Cardinality(Callers)
       /\ Cardinality(Returning') < Cardinality(Returning)

\* Every flood is bounded, on any topology: between two ticks each step uses up
\* something finite, and an IP packet, which nothing suppresses, gives nothing
\* back (_should_flood, _forward_packet).  What is suppressed stays so until the
\* flood is over, no answer is flooded without end, and the flows a reply meets
\* on its way, from whatever paths they are left, never lead it in a circle.
FloodsRunDown ==
    [][\/ Tick
       \/ RunsDown
       \/ ArriveAs("ip") /\ UNCHANGED <<Starts, Callers, Returning>>]_vars

\* Floods of ARP and of unknown protocols die out on a network with loops,
\* whatever is lost (_should_flood).
FloodsDieOut == []<>Settled

\* A host that asks on for one on its own switch is told, although copies are
\* lost and its repetitions are suppressed: the window is not prolonged by
\* them (_should_flood).
NeighbourIsTold ==
    \A p \in Wants : Home[p[1]] = Home[p[2]] => <>(told[p] # None)

\* A host that asks on for one that stays known is told, wherever it is.
KnownHostIsTold ==
    \A p \in Wants : <>[](cache[p[2]] # None) => <>(told[p] # None)

\* A host that asks on for any other is told, as it would be if the request
\* were flooded to all ports of the network.
EveryoneIsTold == \A p \in Wants : <>(told[p] # None)

=============================================================================
