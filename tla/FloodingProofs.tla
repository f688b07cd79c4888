--------------------------- MODULE FloodingProofs ---------------------------
(***************************************************************************)
(* Proofs about Flooding: its types, that the NAT gateway alone stands in  *)
(* for external hosts, and that floods are bounded on any topology.        *)
(***************************************************************************)
EXTENDS Flooding, TLAPS, FiniteSetTheorems, WellFoundedInduction

\* A frame tells the MAC of its sender, and a request that the gateway answers
\* or the answer to one does not go from switch to switch.
FrameOK(f) ==
    /\ f \in Frame
    /\ f.says = "own"
    /\ f.kind = "request" /\ GatewayAnswers(f.src, f.tgt) => f.via \in Host
    /\ f.kind = "reply" => ~GatewayAnswers(f.tgt, f.src)

FramesOK == \A f \in frames : FrameOK(f)

\* An entry for a host sends to a switch or to that host.
FlowsOK == \A d \in Dpid, h \in Host : flows[d][h] \in Dpid \cup {h, None}

CacheOK == \A h \in Host : cache[h] # "gateway"

ToldOK ==
    \A p \in Wants : told[p] # None => (told[p] = "gateway" <=> GatewayAnswers(p[1], p[2]))

Inv == TypeOK /\ FramesOK /\ FlowsOK /\ CacheOK /\ ToldOK

-----------------------------------------------------------------------------
(***************************************************************************)
(* Sending.                                                                *)
(***************************************************************************)

\* A frame that a host sends.
LEMMA FromHostOK ==
    ASSUME NEW kind \in Kind, NEW h \in Host, NEW t \in Host,
           kind = "reply" => ~GatewayAnswers(t, h)
    PROVE  FrameOK(FromHost(kind, h, t))
  BY FloodingAssumption DEF FrameOK, FromHost, Frame

\* A frame that goes on to the next switch.
LEMMA OnwardOK ==
    ASSUME NEW f, FrameOK(f), NEW n \in Dpid,
           f.kind = "request" => ~GatewayAnswers(f.src, f.tgt)
    PROVE  FrameOK(Onward(f, n))
<1>1. f \in Frame
  BY DEF FrameOK
<1>2. Onward(f, n) \in Frame
  BY <1>1 DEF Onward, Frame
<1> QED BY <1>2 DEF FrameOK, Onward

\* What a host answers.
LEMMA AnswersOK ==
    ASSUME NEW f, FrameOK(f), NEW h \in Host,
           f.kind = "request" => ~GatewayAnswers(f.src, f.tgt),
           NEW g \in Answers(f, h)
    PROVE  FrameOK(g)
<1>1. g = FromHost("reply", h, f.src) /\ f.tgt = h /\ f.kind = "request" /\ f.src \in Host
  BY DEF Answers, FrameOK, Frame
<1>2. "reply" \in Kind
  BY DEF Kind
<1> QED BY <1>1, <1>2, FromHostOK

\* What a host is told by a reply that is its sender's own, or the gateway's to
\* a request the gateway answers.
LEMMA ToldKept ==
    ASSUME told \in [Wants -> {None, "own", "gateway"}], ToldOK,
           NEW f, f.says \in {"own", "gateway"}, NEW h,
           f.kind = "reply" /\ f.tgt = h => (f.says = "gateway" <=> GatewayAnswers(h, f.src)),
           told' = Told(f, h)
    PROVE  told' \in [Wants -> {None, "own", "gateway"}] /\ ToldOK'
  BY DEF Told, ToldOK, GatewayAnswers

\* The ways a frame is passed on keep what is known of frames and of what hosts
\* are told.
Passed == frames' \subseteq Frame /\ FramesOK'
             /\ told' \in [Wants -> {None, "own", "gateway"}] /\ ToldOK'

LEMMA SendToHostOK ==
    ASSUME Inv, NEW f \in frames, NEW h \in Host, SendToHost(f, h), f.kind # "request"
    PROVE  Passed
<1>1. FrameOK(f)
  BY DEF Inv, FramesOK
<1>2. Answers(f, h) = {}
  BY DEF Answers
<1>3. frames' \subseteq frames
  BY <1>2 DEF SendToHost
<1>4. told' \in [Wants -> {None, "own", "gateway"}] /\ ToldOK'
  BY <1>1, ToldKept DEF SendToHost, Inv, TypeOK, FrameOK
<1> QED BY <1>3, <1>4 DEF Passed, Inv, TypeOK, FramesOK

LEMMA DropOK == ASSUME Inv, NEW f \in frames, Drop(f) PROVE Passed
  BY DEF Drop, Passed, Inv, TypeOK, FramesOK, ToldOK

LEMMA SendToSwitchOK ==
    ASSUME Inv, NEW f \in frames, NEW n \in Dpid, SendToSwitch(f, n), f.kind # "request"
    PROVE  Passed
<1>1. FrameOK(Onward(f, n))
  BY OnwardOK DEF Inv, FramesOK
<1>2. Onward(f, n) \in Frame
  BY <1>1 DEF FrameOK
<1>3. CASE n = f.via
  BY <1>3, DropOK DEF SendToSwitch
<1>4. CASE n # f.via
  BY <1>1, <1>2, <1>4 DEF SendToSwitch, Passed, Inv, TypeOK, FramesOK, ToldOK
<1> QED BY <1>3, <1>4

LEMMA FloodOK ==
    ASSUME Inv, NEW f \in frames, Flood(f), f.kind = "request" => ~GatewayAnswers(f.src, f.tgt)
    PROVE  Passed
<1>1. FrameOK(f) /\ f.tgt \in Host
  BY DEF Inv, FramesOK, FrameOK, Frame
<1>2. ASSUME NEW g \in frames' PROVE FrameOK(g)
  <2>1. \/ g \in frames
        \/ \E n \in Dpid : g = Onward(f, n)
        \/ \E h \in Host : g \in Answers(f, h)
    BY <1>2 DEF Flood
  <2> QED BY <2>1, <1>1, OnwardOK, AnswersOK DEF Inv, FramesOK
<1>3. frames' \subseteq Frame
  BY <1>2 DEF FrameOK
<1>4. told' = told \/ told' = Told(f, f.tgt)
  BY DEF Flood
<1>5. told' \in [Wants -> {None, "own", "gateway"}] /\ ToldOK'
  <2>1. CASE told' = told
    BY <2>1 DEF Inv, TypeOK, ToldOK
  <2>2. CASE told' = Told(f, f.tgt)
    BY <2>2, <1>1, ToldKept DEF Inv, TypeOK, FrameOK
  <2> QED BY <1>4, <2>1, <2>2
<1> QED BY <1>2, <1>3, <1>5 DEF Passed, FramesOK

LEMMA FloodOnceOK ==
    ASSUME Inv, NEW f \in frames, FloodOnce(f), f.kind \in {"request", "reply", "other"},
           f.kind = "request" => ~GatewayAnswers(f.src, f.tgt)
    PROVE  Passed /\ history' \in [Keys -> 0..Window]
<1>1. f \in Frame
  BY DEF Inv, FramesOK, FrameOK
<1>2. <<f.kind, f.src, f.tgt>> \in Keys
  BY <1>1 DEF Keys, Frame
<1>3. history' \in [Keys -> 0..Window]
  BY <1>2, FloodingAssumption DEF FloodOnce, Refreshed, Inv, TypeOK
<1>4. Passed
  BY FloodOK, DropOK DEF FloodOnce
<1> QED BY <1>3, <1>4

LEMMA ProxyReplyOK ==
    ASSUME Inv, NEW f \in frames, f.kind = "request", NEW mac \in {"own", "gateway"},
           mac = "gateway" <=> GatewayAnswers(f.src, f.tgt), ProxyReply(f, mac)
    PROVE  Passed
<1> DEFINE r == [kind |-> "reply", src |-> f.tgt, tgt |-> f.src, says |-> mac,
                 at |-> f.at, via |-> f.at]
<1>1. FrameOK(f) /\ f \in Frame
  BY DEF Inv, FramesOK, FrameOK
<1>2. CASE f.via \in Host
  <2>1. frames' = frames \ {f} /\ told' = Told(r, f.via)
    BY <1>2 DEF ProxyReply
  <2>2. told' \in [Wants -> {None, "own", "gateway"}] /\ ToldOK'
    BY <2>1, ToldKept DEF Inv, TypeOK
  <2> QED BY <2>1, <2>2 DEF Passed, Inv, TypeOK, FramesOK
<1>3. CASE f.via \notin Host
  <2>1. frames' = (frames \ {f}) \cup {Onward(r, f.via)} /\ told' = told
    BY <1>3 DEF ProxyReply
  <2>2. mac = "own" /\ ~GatewayAnswers(f.src, f.tgt) /\ f.via \in Dpid
    BY <1>1, <1>3 DEF FrameOK, Frame
  <2>3. FrameOK(r)
    BY <1>1, <2>2 DEF FrameOK, Frame, Kind
  <2>4. FrameOK(Onward(r, f.via))
    BY <2>2, <2>3, OnwardOK
  <2>5. Onward(r, f.via) \in Frame
    BY <2>4 DEF FrameOK
  <2> HIDE DEF r
  <2> QED BY <2>1, <2>4, <2>5 DEF Passed, Inv, TypeOK, FramesOK, ToldOK
<1> QED BY <1>2, <1>3

-----------------------------------------------------------------------------
(***************************************************************************)
(* Flows.                                                                  *)
(***************************************************************************)

\* A shortest path is a sequence of switches from s to t that has no switch
\* twice, and a second switch unless s is t.
LEMMA ShortestPathShape ==
    ASSUME NEW s \in Dpid, NEW t \in Dpid, NEW q \in ShortestPaths(Graph, Dpid, s, t)
    PROVE  \E n \in Nat \ {0} :
              /\ q \in [1..n -> Dpid] /\ q[n] = t
              /\ s # t => n >= 2
<1>1. CASE s = t
  <2>1. q = [k \in 1..1 |-> s]
    BY <1>1 DEF ShortestPaths
  <2> QED BY <1>1, <2>1
<1>2. CASE s # t
  <2>1. PICK n \in 2..Cardinality(Dpid) : q \in Paths(Graph, s, t, n)
    BY <1>2 DEF ShortestPaths
  <2>2. n \in Nat \ {0} /\ n >= 2
    OBVIOUS
  <2> QED BY <2>1, <2>2 DEF Paths
<1> QED BY <1>1, <1>2

\* Installing a path keeps the type of the flows and where they send.
LEMMA InstalledOK ==
    ASSUME NEW table \in [Dpid -> [Host -> Dpid \cup Host \cup {None}]],
           \A d \in Dpid, h \in Host : table[d][h] \in Dpid \cup {h, None},
           NEW m \in Host, NEW s \in Dpid,
           NEW q \in ShortestPaths(Graph, Dpid, s, Home[m])
    PROVE  /\ Installed(table, q, m) \in [Dpid -> [Host -> Dpid \cup Host \cup {None}]]
           /\ \A d \in Dpid, h \in Host : Installed(table, q, m)[d][h] \in Dpid \cup {h, None}
<1>0. Home[m] \in Dpid
  BY FloodingAssumption
<1>1. PICK n \in Nat \ {0} : q \in [1..n -> Dpid] /\ q[n] = Home[m]
  BY <1>0, ShortestPathShape
<1>2. ASSUME NEW d \in Dpid, d # Home[m], \E k \in DOMAIN q : q[k] = d
      PROVE  q[1 + CHOOSE k \in DOMAIN q : q[k] = d] \in Dpid
  <2>1. PICK k : k = CHOOSE j \in DOMAIN q : q[j] = d
    OBVIOUS
  <2>2. k \in 1..n /\ q[k] = d
    BY <1>1, <1>2, <2>1
  <2>3. 1 + k \in 1..n
    BY <1>1, <1>2, <2>2
  <2> QED BY <1>1, <2>1, <2>3
<1>3. ASSUME NEW d \in Dpid
      PROVE  /\ Installed(table, q, m)[d] \in [Host -> Dpid \cup Host \cup {None}]
             /\ \A h \in Host : Installed(table, q, m)[d][h] \in Dpid \cup {h, None}
  <2>1. CASE ~\E k \in DOMAIN q : q[k] = d
    <3>1. Installed(table, q, m)[d] = table[d]
      BY <2>1 DEF Installed
    <3> QED BY <3>1
  <2>2. CASE \E k \in DOMAIN q : q[k] = d
    <3> DEFINE out == IF d = Home[m] THEN m ELSE q[1 + CHOOSE k \in DOMAIN q : q[k] = d]
    <3>2. out \in Dpid \cup {m}
      BY <2>2, <1>2
    <3>3. Installed(table, q, m)[d] = [table[d] EXCEPT ![m] = out]
      BY <2>2 DEF Installed
    <3> HIDE DEF out
    <3> QED BY <3>2, <3>3
  <2> QED BY <2>1, <2>2
<1>4. Installed(table, q, m) = [d \in Dpid |-> Installed(table, q, m)[d]]
  BY DEF Installed
<1> QED BY <1>3, <1>4

LEMMA FlowsLearnedOK ==
    ASSUME Inv, NEW f
    PROVE  /\ FlowsLearned(f) \in [Dpid -> [Host -> Dpid \cup Host \cup {None}]]
           /\ \A d \in Dpid, h \in Host : FlowsLearned(f)[d][h] \in Dpid \cup {h, None}
  BY DEF FlowsLearned, Inv, TypeOK, FlowsOK

LEMMA ForwardOK ==
    ASSUME Inv, NEW f \in frames, f.kind # "request", located' \subseteq Host, Forward(f)
    PROVE  /\ Passed
           /\ flows' \in [Dpid -> [Host -> Dpid \cup Host \cup {None}]] /\ FlowsOK'
<1> DEFINE origin == IF f.src \in located' THEN Home[f.src] ELSE f.at
<1>1. f.src \in Host /\ f.tgt \in Host /\ f.at \in Dpid
  BY DEF Inv, FramesOK, FrameOK, Frame
<1>2. origin \in Dpid /\ Home[f.tgt] \in Dpid
  BY <1>1, FloodingAssumption
<1>3. \/ flows' = FlowsLearned(f)
      \/ \E q \in ShortestPaths(Graph, Dpid, origin, Home[f.tgt]) :
             flows' = Installed(FlowsLearned(f), q, f.tgt)
  BY Zenon DEF Forward
<1> HIDE DEF origin
<1>4. flows' \in [Dpid -> [Host -> Dpid \cup Host \cup {None}]] /\ FlowsOK'
  <2>1. CASE flows' = FlowsLearned(f)
    BY <2>1, FlowsLearnedOK DEF FlowsOK
  <2>2. CASE \E q \in ShortestPaths(Graph, Dpid, origin, Home[f.tgt]) :
                 flows' = Installed(FlowsLearned(f), q, f.tgt)
    BY <1>1, <1>2, <2>2, FlowsLearnedOK, InstalledOK DEF FlowsOK
  <2> QED BY <1>3, <2>1, <2>2
<1>5. CASE f.at = Home[f.tgt]
  <2>1. SendToHost(f, f.tgt)
    BY <1>5, Zenon DEF Forward
  <2> QED BY <1>1, <1>4, <2>1, SendToHostOK
<1>6. CASE f.at # Home[f.tgt]
  <2>1. CASE Drop(f)
    BY <1>4, <2>1, DropOK
  <2>2. CASE \E r \in ShortestPaths(Graph, Dpid, f.at, Home[f.tgt]) : SendToSwitch(f, r[2])
    <3>1. PICK r \in ShortestPaths(Graph, Dpid, f.at, Home[f.tgt]) : SendToSwitch(f, r[2])
      BY <2>2
    <3>2. PICK n \in Nat \ {0} : r \in [1..n -> Dpid] /\ n >= 2
      BY <1>1, <1>2, <1>6, ShortestPathShape
    <3>3. r[2] \in Dpid
      BY <3>2
    <3> QED BY <1>4, <3>1, <3>3, SendToSwitchOK
  <2> QED BY <1>6, <2>1, <2>2, Zenon DEF Forward
<1> QED BY <1>5, <1>6

-----------------------------------------------------------------------------
(***************************************************************************)
(* Steps.                                                                  *)
(***************************************************************************)

\* What a handler does to the controller's other tables.
TablesOK ==
    /\ history' \in [Keys -> 0..Window]
    /\ cache' \in [Host -> {None, "own", "gateway"}] /\ CacheOK'
    /\ located' \subseteq Host
    /\ flows' \in [Dpid -> [Host -> Dpid \cup Host \cup {None}]] /\ FlowsOK'

LEMMA TablesKept ==
    ASSUME Inv
    PROVE  /\ UNCHANGED history => history' \in [Keys -> 0..Window]
           /\ UNCHANGED cache => cache' \in [Host -> {None, "own", "gateway"}] /\ CacheOK'
           /\ UNCHANGED located => located' \subseteq Host
           /\ UNCHANGED flows =>
                 flows' \in [Dpid -> [Host -> Dpid \cup Host \cup {None}]] /\ FlowsOK'
  BY DEF Inv, TypeOK, CacheOK, FlowsOK

\* What is learned of the sender of a frame.
LEMMA LearnedOK ==
    ASSUME Inv, NEW f \in frames
    PROVE  /\ \A h \in Host : CacheWith(f)[h] # "gateway"
           /\ CacheWith(f) \in [Host -> {None, "own", "gateway"}]
           /\ cache' = CacheWith(f) => cache' \in [Host -> {None, "own", "gateway"}] /\ CacheOK'
           /\ LearnPlace(f) => located' \subseteq Host
           /\ flows' = FlowsLearned(f) =>
                 flows' \in [Dpid -> [Host -> Dpid \cup Host \cup {None}]] /\ FlowsOK'
<1>1. f.src \in Host /\ f.says = "own"
  BY DEF Inv, FramesOK, FrameOK, Frame
<1>2. CacheWith(f) \in [Host -> {None, "own", "gateway"}] /\ \A h \in Host : CacheWith(f)[h] # "gateway"
  BY <1>1 DEF CacheWith, Inv, TypeOK, CacheOK
<1>3. LearnPlace(f) => located' \subseteq Host
  BY <1>1 DEF LearnPlace, Inv, TypeOK
<1>4. flows' = FlowsLearned(f) =>
         flows' \in [Dpid -> [Host -> Dpid \cup Host \cup {None}]] /\ FlowsOK'
  BY FlowsLearnedOK DEF FlowsOK
<1> QED BY <1>2, <1>3, <1>4 DEF CacheOK

LEMMA ArpRequestOK ==
    ASSUME Inv, NEW f \in frames, ArpRequest(f)
    PROVE  Passed /\ TablesOK
<1>1. f.kind = "request" /\ f.tgt \in Host
  BY DEF ArpRequest, Inv, FramesOK, FrameOK, Frame
<1>2. /\ cache' \in [Host -> {None, "own", "gateway"}] /\ CacheOK'
      /\ located' \subseteq Host
      /\ flows' \in [Dpid -> [Host -> Dpid \cup Host \cup {None}]] /\ FlowsOK'
  BY LearnedOK, TablesKept DEF ArpRequest
<1>3. CASE GatewayAnswers(f.src, f.tgt)
  <2>1. ProxyReply(f, "gateway") /\ UNCHANGED history
    BY <1>3 DEF ArpRequest
  <2>2. Passed
    BY <1>1, <1>3, <2>1, ProxyReplyOK
  <2> QED BY <1>2, <2>1, <2>2, TablesKept DEF TablesOK
<1>4. CASE ~GatewayAnswers(f.src, f.tgt) /\ cache'[f.tgt] # None
  <2>1. ProxyReply(f, cache'[f.tgt]) /\ UNCHANGED history
    BY <1>4 DEF ArpRequest
  <2>2. cache'[f.tgt] = "own"
    BY <1>1, <1>2, <1>4 DEF CacheOK
  <2>3. ProxyReply(f, "own")
    BY <2>1, <2>2
  <2>4. Passed
    BY <1>1, <1>4, <2>3, ProxyReplyOK
  <2> QED BY <1>2, <2>1, <2>4, TablesKept DEF TablesOK
<1>5. CASE ~GatewayAnswers(f.src, f.tgt) /\ cache'[f.tgt] = None
  <2>1. FloodOnce(f)
    BY <1>5 DEF ArpRequest
  <2> QED BY <1>1, <1>2, <1>5, <2>1, FloodOnceOK DEF TablesOK
<1> QED BY <1>3, <1>4, <1>5

LEMMA ArpReplyOK ==
    ASSUME Inv, NEW f \in frames, ArpReply(f)
    PROVE  Passed /\ TablesOK
<1>1. f.kind = "reply" /\ f.tgt \in Host
  BY DEF ArpReply, Inv, FramesOK, FrameOK, Frame
<1>2. cache' \in [Host -> {None, "own", "gateway"}] /\ CacheOK'
  BY <1>1, LearnedOK DEF ArpReply, CacheOK
<1>3. located' \subseteq Host
  BY LearnedOK DEF ArpReply
<1>4. CASE f.tgt \notin located'
  <2>1. FloodOnce(f) /\ flows' = FlowsLearned(f)
    BY <1>4 DEF ArpReply
  <2> QED BY <1>1, <1>2, <1>3, <2>1, FloodOnceOK, LearnedOK DEF TablesOK
<1>5. CASE f.tgt \in located' /\ f.at = Home[f.tgt]
  <2>1. SendToHost(f, f.tgt) /\ flows' = FlowsLearned(f) /\ UNCHANGED history
    BY <1>5 DEF ArpReply
  <2>2. Passed
    BY <1>1, <2>1, SendToHostOK
  <2> QED BY <1>2, <1>3, <2>1, <2>2, LearnedOK, TablesKept DEF TablesOK
<1>6. CASE f.tgt \in located' /\ f.at # Home[f.tgt]
  <2>1. Forward(f) /\ UNCHANGED history
    BY <1>6 DEF ArpReply
  <2> QED BY <1>1, <1>2, <1>3, <2>1, ForwardOK, TablesKept DEF TablesOK
<1> QED BY <1>4, <1>5, <1>6

LEMMA IpPacketOK ==
    ASSUME Inv, NEW f \in frames, IpPacket(f)
    PROVE  Passed /\ TablesOK
<1>1. f.kind = "ip" /\ UNCHANGED history
  BY DEF IpPacket
<1>2. cache' \in [Host -> {None, "own", "gateway"}] /\ CacheOK' /\ located' \subseteq Host
  BY LearnedOK DEF IpPacket
<1>3. CASE f.tgt \in located'
  <2>1. Forward(f)
    BY <1>3 DEF IpPacket
  <2> QED BY <1>1, <1>2, <2>1, ForwardOK, TablesKept DEF TablesOK
<1>4. CASE f.tgt \notin located'
  <2>1. Flood(f) /\ flows' = FlowsLearned(f)
    BY <1>4 DEF IpPacket
  <2>2. Passed
    BY <1>1, <2>1, FloodOK
  <2> QED BY <1>1, <1>2, <2>1, <2>2, LearnedOK, TablesKept DEF TablesOK
<1> QED BY <1>3, <1>4

LEMMA OtherFrameOK ==
    ASSUME Inv, NEW f \in frames, OtherFrame(f)
    PROVE  Passed /\ TablesOK
<1>1. f.kind = "other" /\ FloodOnce(f) /\ UNCHANGED <<cache, located, flows>>
  BY DEF OtherFrame
<1> QED BY <1>1, FloodOnceOK, TablesKept DEF TablesOK

LEMMA SwitchedOK ==
    ASSUME Inv, NEW f \in frames, Switched(f)
    PROVE  Passed /\ TablesOK
<1>1. f.kind # "request" /\ f.tgt \in Host /\ f.at \in Dpid
  BY DEF Switched, Inv, FramesOK, FrameOK, Frame
<1>2. TablesOK
  BY TablesKept DEF Switched, controller, TablesOK
<1>3. CASE flows[f.at][f.tgt] = f.tgt
  BY <1>1, <1>2, <1>3, SendToHostOK DEF Switched
<1>4. CASE flows[f.at][f.tgt] # f.tgt
  <2>1. flows[f.at][f.tgt] \in Dpid
    BY <1>1, <1>4 DEF Switched, Missed, Inv, FlowsOK
  <2> QED BY <1>1, <1>2, <1>4, <2>1, SendToSwitchOK DEF Switched
<1> QED BY <1>3, <1>4

\* A frame that arrives keeps the invariant.
LEMMA ArriveStep ==
    ASSUME Inv, NEW f \in frames, Arrive(f)
    PROVE  Inv'
<1>1. Passed /\ TablesOK
  BY ArpRequestOK, ArpReplyOK, IpPacketOK, OtherFrameOK, SwitchedOK DEF Arrive
<1>2. asked' = asked /\ trouble' = trouble
  BY DEF Arrive
<1> QED BY <1>1, <1>2 DEF Inv, TypeOK, Passed, TablesOK

\* So does one that a host sends.
LEMMA SentStep ==
    ASSUME Inv, NEW kind \in Kind, NEW h \in Host, NEW t \in Host,
           kind = "reply" => ~GatewayAnswers(t, h),
           frames' = frames \cup {FromHost(kind, h, t)},
           UNCHANGED <<controller, told>>, asked' \subseteq Wants, trouble' \in 0..MaxTrouble
    PROVE  Inv'
<1>1. FrameOK(FromHost(kind, h, t)) /\ FromHost(kind, h, t) \in Frame
  BY FromHostOK DEF FrameOK
<1>2. frames' \subseteq Frame /\ FramesOK'
  BY <1>1 DEF Inv, TypeOK, FramesOK
<1> QED BY <1>2, TablesKept DEF Inv, TypeOK, controller, ToldOK

LEMMA AskStep ==
    ASSUME Inv, NEW p \in Wants, Ask(p)
    PROVE  Inv'
<1>1. p[1] \in Host /\ p[2] \in Host /\ "request" \in Kind
  BY FloodingAssumption DEF Kind
<1>2. asked' \subseteq Wants /\ trouble' \in 0..MaxTrouble
  BY DEF Ask, Inv, TypeOK
<1> QED BY <1>1, <1>2, SentStep DEF Ask

LEMMA TroubleStep ==
    ASSUME Inv, Trouble
    PROVE  Inv'
<1>1. trouble' \in 0..MaxTrouble
  BY FloodingAssumption DEF Trouble, Inv, TypeOK
<1>2. CASE Lose
  <2>1. frames' \subseteq frames /\ UNCHANGED <<controller, told, asked>>
    BY <1>2 DEF Lose
  <2>2. frames' \subseteq Frame /\ FramesOK'
    BY <2>1 DEF Inv, TypeOK, FramesOK
  <2> QED BY <1>1, <2>1, <2>2, TablesKept DEF Inv, TypeOK, controller, ToldOK
<1>3. ASSUME NEW h \in Host, Forget(h) PROVE Inv'
  <2>1. /\ located' = located \ {h} /\ cache' = [cache EXCEPT ![h] = None]
        /\ UNCHANGED <<frames, history, flows, told, asked>>
    BY <1>3 DEF Forget
  <2>2. cache' \in [Host -> {None, "own", "gateway"}] /\ CacheOK'
    BY <2>1, FloodingAssumption DEF Inv, TypeOK, CacheOK
  <2>3. FramesOK' /\ FlowsOK' /\ ToldOK'
    BY <2>1 DEF Inv, FramesOK, FlowsOK, ToldOK
  <2> QED BY <1>1, <2>1, <2>2, <2>3 DEF Inv, TypeOK
<1>4. ASSUME NEW h \in Host, NEW t \in Host, Send(h, t) PROVE Inv'
  <2>1. PICK kind \in {"reply", "ip", "other"} :
           /\ kind = "reply" => ~GatewayAnswers(t, h)
           /\ frames' = frames \cup {FromHost(kind, h, t)}
    BY <1>4 DEF Send
  <2>2. kind \in Kind
    BY DEF Kind
  <2>3. UNCHANGED <<controller, told>> /\ asked' \subseteq Wants
    BY <1>4 DEF Send, Inv, TypeOK
  <2> QED BY <1>1, <2>1, <2>2, <2>3, SentStep
<1> QED BY <1>2, <1>3, <1>4 DEF Trouble

LEMMA TickStep ==
    ASSUME Inv, Tick
    PROVE  Inv'
<1>1. history' \in [Keys -> 0..Window]
  <2>1. history \in [Keys -> 0..Window] /\ Window \in Nat
    BY FloodingAssumption DEF Inv, TypeOK
  <2>2. ASSUME NEW k \in Keys
        PROVE  (IF history[k] = 0 THEN 0 ELSE history[k] - 1) \in 0..Window
    <3>1. history[k] \in 0..Window
      BY <2>1
    <3> QED BY <3>1, <2>1
  <2> QED BY <2>2 DEF Tick
<1>2. UNCHANGED <<frames, cache, located, flows, told, trouble>> /\ asked' = {}
  BY DEF Tick
<1> QED BY <1>1, <1>2 DEF Inv, TypeOK, FramesOK, FlowsOK, CacheOK, ToldOK

\* The invariant holds in every reachable state.
LEMMA Invariance == Spec => []Inv
<1>1. Init => Inv
  BY FloodingAssumption DEF Init, Inv, TypeOK, FramesOK, FlowsOK, CacheOK, ToldOK
<1>2. Inv /\ [Next]_vars => Inv'
  <2> SUFFICES ASSUME Inv, [Next]_vars PROVE Inv'
    OBVIOUS
  <2>1. CASE UNCHANGED vars
    BY <2>1 DEF vars, controller, Inv, TypeOK, FramesOK, FlowsOK, CacheOK, ToldOK
  <2> QED BY <2>1, ArriveStep, AskStep, TroubleStep, TickStep DEF Next
<1> QED BY <1>1, <1>2, PTL DEF Spec

\* Every reachable state of the network has its type, for any topology, hosts
\* and number of losses.
THEOREM TypeCorrect == Spec => []TypeOK
<1>1. Inv => TypeOK
  BY DEF Inv
<1> QED BY <1>1, Invariance, PTL

\* For any topology and hosts, the gateway's MAC enters the cache for nobody,
\* and a host is told it exactly of those the gateway stands in for.
THEOREM GatewayAlwaysStandsIn == Spec => []GatewayStandsInForExternals
<1>1. Inv => GatewayStandsInForExternals
  BY DEF Inv, CacheOK, ToldOK, GatewayStandsInForExternals
<1> QED BY <1>1, Invariance, PTL
-----------------------------------------------------------------------------
(***************************************************************************)
(* How far it is.                                                          *)
(***************************************************************************)

\* The constants are finite.
LEMMA FiniteConstants ==
    /\ IsFiniteSet(Dpid) /\ IsFiniteSet(Host) /\ Cardinality(Dpid) \in Nat
    /\ \A d \in Dpid : Cardinality(Dpid) >= 1
<1>1. IsFiniteSet(Dpid) /\ IsFiniteSet(Host)
  BY FloodingAssumption
<1>2. Cardinality(Dpid) \in Nat
  BY <1>1, FS_CardinalityType
<1>3. ASSUME NEW d \in Dpid PROVE Cardinality(Dpid) >= 1
  <2>1. Cardinality(Dpid) # 0
    BY <1>1, <1>3, FS_EmptySet
  <2> QED BY <1>2, <2>1
<1> QED BY <1>1, <1>2, <1>3

\* Path q of n switches leads from s to t, and none has fewer.
Direct(q, n, s, t) ==
    /\ q \in Paths(Graph, s, t, n)
    /\ \A m \in 1..(n - 1) : Paths(Graph, s, t, m) = {}

LEMMA ShortestIsDirect ==
    ASSUME NEW s \in Dpid, NEW t \in Dpid, NEW q \in ShortestPaths(Graph, Dpid, s, t)
    PROVE  \E n \in 1..Cardinality(Dpid) : Direct(q, n, s, t) /\ (s # t => n >= 2)
<1>0. Cardinality(Dpid) \in Nat /\ Cardinality(Dpid) >= 1
  BY FiniteConstants
<1>1. CASE s = t
  <2>1. q = [k \in 1..1 |-> s]
    BY <1>1 DEF ShortestPaths
  <2>2. q \in Paths(Graph, s, t, 1)
    BY <1>1, <2>1 DEF Paths
  <2>3. Direct(q, 1, s, t) /\ 1 \in 1..Cardinality(Dpid)
    BY <1>0, <2>2 DEF Direct
  <2> QED BY <1>1, <2>3
<1>2. CASE s # t
  <2>1. PICK n \in 2..Cardinality(Dpid) :
           /\ q \in Paths(Graph, s, t, n)
           /\ \A k \in 2..(n - 1) : ~Reachable(Graph, Dpid, s, t, k)
    BY <1>2 DEF ShortestPaths
  <2>2. Paths(Graph, s, t, 1) = {}
    BY <1>2 DEF Paths
  <2>3. ASSUME NEW m \in 1..(n - 1) PROVE Paths(Graph, s, t, m) = {}
    <3>1. CASE m = 1
      BY <2>2, <3>1
    <3>2. CASE m # 1
      <4>1. m \in 2..(n - 1)
        BY <2>3, <3>2
      <4> QED BY <2>1, <4>1 DEF Reachable
    <3> QED BY <3>1, <3>2
  <2>4. Direct(q, n, s, t) /\ n \in 1..Cardinality(Dpid) /\ n >= 2
    BY <2>1, <2>3 DEF Direct
  <2> QED BY <2>4
<1> QED BY <1>1, <1>2

LEMMA DirectIsShortest ==
    ASSUME NEW s \in Dpid, NEW t \in Dpid, NEW n \in 1..Cardinality(Dpid), NEW q,
           Direct(q, n, s, t)
    PROVE  q \in ShortestPaths(Graph, Dpid, s, t)
<1>0. Cardinality(Dpid) \in Nat
  BY FiniteConstants
<1>1. q \in [1..n -> Dpid] /\ q[1] = s /\ q[n] = t
  BY DEF Direct, Paths
<1>2. CASE n = 1
  <2>1. s = t /\ q = [k \in 1..1 |-> s]
    BY <1>1, <1>2
  <2> QED BY <2>1 DEF ShortestPaths
<1>3. CASE n # 1
  <2>1. s # t
    <3>1. SUFFICES ASSUME s = t PROVE FALSE
      OBVIOUS
    <3>2. [k \in 1..1 |-> s] \in Paths(Graph, s, t, 1)
      BY <3>1 DEF Paths
    <3>3. 1 \in 1..(n - 1)
      BY <1>0, <1>3
    <3> QED BY <3>2, <3>3 DEF Direct
  <2>2. n \in 2..Cardinality(Dpid)
    BY <1>0, <1>3
  <2>3. Reachable(Graph, Dpid, s, t, n)
    BY DEF Reachable, Direct
  <2>4. \A k \in 2..(n - 1) : ~Reachable(Graph, Dpid, s, t, k)
    BY DEF Reachable, Direct
  <2>5. q \in Paths(Graph, s, t, n)
    BY DEF Direct
  <2> QED BY <2>1, <2>2, <2>3, <2>4, <2>5 DEF ShortestPaths
<1> QED BY <1>2, <1>3

\* That path says how far it is.
LEMMA FarIsDirect ==
    ASSUME NEW s \in Dpid, NEW t \in Dpid, NEW n \in 1..Cardinality(Dpid), NEW q,
           Direct(q, n, s, t)
    PROVE  Far[s][t] = n
<1>0. Cardinality(Dpid) \in Nat
  BY FiniteConstants
<1> DEFINE all == ShortestPaths(Graph, Dpid, s, t)
<1>1. all # {}
  BY DirectIsShortest
<1>2. Far[s][t] = Distance(all)
  BY DEF Far
<1>3. PICK p : p \in all /\ p = CHOOSE r \in all : TRUE
  <2> HIDE DEF all
  <2> QED BY <1>1, Zenon
<1>4. PICK m \in 1..Cardinality(Dpid) : Direct(p, m, s, t)
  BY <1>3, ShortestIsDirect
<1>5. ~(m < n) /\ ~(n < m)
  <2>1. m < n => m \in 1..(n - 1)
    BY <1>0
  <2>2. n < m => n \in 1..(m - 1)
    BY <1>0
  <2> QED BY <1>4, <2>1, <2>2, Zenon DEF Direct
<1>6. m = n
  BY <1>0, <1>5
<1>7. p \in [1..n -> Dpid]
  BY <1>4, <1>6 DEF Direct, Paths
<1>8. Len(p) = n
  BY <1>0, <1>7
<1>9. Distance(all) = n
  <2> HIDE DEF all
  <2> QED BY <1>1, <1>3, <1>8, Zenon DEF Distance
<1> QED BY <1>2, <1>9

\* Behind its first switch such a path is one as well: from a shorter one the
\* whole could be made shorter, or the part of it that does not come back.
LEMMA NextIsDirect ==
    ASSUME NEW s \in Dpid, NEW t \in Dpid, NEW n \in Nat, n >= 2, NEW q, Direct(q, n, s, t)
    PROVE  q[2] \in Dpid /\ Direct([k \in 1..(n - 1) |-> q[k + 1]], n - 1, q[2], t)
<1> DEFINE r == [k \in 1..(n - 1) |-> q[k + 1]]
<1>1. /\ q \in [1..n -> Dpid] /\ q[1] = s /\ q[n] = t
      /\ \A k \in 1..(n - 1) : Graph[q[k]][q[k + 1]] # None
      /\ \A j, k \in 1..n : q[j] = q[k] => j = k
  BY DEF Direct, Paths
<1>2. \A k \in 1..(n - 1) : k + 1 \in 1..n /\ r[k] = q[k + 1]
  OBVIOUS
<1>3. r \in Paths(Graph, q[2], t, n - 1)
  <2>1. r \in [1..(n - 1) -> Dpid]
    BY <1>1, <1>2
  <2>2. r[1] = q[2] /\ r[n - 1] = t
    BY <1>1, <1>2
  <2>3. ASSUME NEW k \in 1..(n - 1 - 1) PROVE Graph[r[k]][r[k + 1]] # None
    <3>1. r[k] = q[k + 1] /\ r[k + 1] = q[k + 1 + 1] /\ k + 1 \in 1..(n - 1)
      OBVIOUS
    <3> QED BY <1>1, <3>1
  <2>4. ASSUME NEW j \in 1..(n - 1), NEW k \in 1..(n - 1), r[j] = r[k] PROVE j = k
    <3>1. j + 1 = k + 1
      BY <1>1, <1>2, <2>4
    <3> QED BY <3>1
  <2> HIDE DEF r
  <2> QED BY <2>1, <2>2, <2>3, <2>4 DEF Paths
<1>4. ASSUME NEW m \in 1..(n - 1 - 1), NEW p \in Paths(Graph, q[2], t, m) PROVE FALSE
  <2>1. /\ p \in [1..m -> Dpid] /\ p[1] = q[2] /\ p[m] = t
        /\ \A k \in 1..(m - 1) : Graph[p[k]][p[k + 1]] # None
        /\ \A j, k \in 1..m : p[j] = p[k] => j = k
    BY <1>4 DEF Paths
  <2>2. CASE \E i \in 1..m : p[i] = s
    <3>1. PICK i \in 1..m : p[i] = s
      BY <2>2
    <3> DEFINE l == m - i + 1
               w == [k \in 1..l |-> p[k + (i - 1)]]
    <3>2. l \in 1..(n - 1) /\ \A k \in 1..l : k + (i - 1) \in 1..m /\ w[k] = p[k + (i - 1)]
      OBVIOUS
    <3>3. w \in [1..l -> Dpid]
      BY <2>1, <3>2
    <3>4. w[1] = s /\ w[l] = t
      BY <2>1, <3>1, <3>2
    <3>5. ASSUME NEW k \in 1..(l - 1) PROVE Graph[w[k]][w[k + 1]] # None
      <4>1. k \in 1..l /\ k + 1 \in 1..l /\ k + (i - 1) \in 1..(m - 1)
            /\ k + 1 + (i - 1) = k + (i - 1) + 1
        BY <3>2
      <4>2. w[k] = p[k + (i - 1)] /\ w[k + 1] = p[k + (i - 1) + 1]
        BY <3>2, <4>1
      <4> QED BY <2>1, <4>1, <4>2
    <3>6. ASSUME NEW j \in 1..l, NEW k \in 1..l, w[j] = w[k] PROVE j = k
      <4>1. j + (i - 1) = k + (i - 1)
        BY <2>1, <3>2, <3>6
      <4> QED BY <4>1
    <3>7. w \in Paths(Graph, s, t, l)
      <4> HIDE DEF w, l
      <4> QED BY <3>3, <3>4, <3>5, <3>6 DEF Paths
    <3> QED BY <3>2, <3>7 DEF Direct
  <2>3. CASE ~\E i \in 1..m : p[i] = s
    <3> DEFINE l == m + 1
               w == [k \in 1..l |-> IF k = 1 THEN s ELSE p[k - 1]]
    <3>2. /\ l \in 1..(n - 1) /\ w[1] = s
          /\ \A k \in 2..l : k - 1 \in 1..m /\ w[k] = p[k - 1]
      OBVIOUS
    <3>3. w \in [1..l -> Dpid]
      BY <2>1, <3>2
    <3>4. w[l] = t
      BY <2>1, <3>2
    <3>5. ASSUME NEW k \in 1..(l - 1) PROVE Graph[w[k]][w[k + 1]] # None
      <4>1. CASE k = 1
        <5>1. w[k] = q[1] /\ w[k + 1] = q[1 + 1] /\ 1 \in 1..(n - 1)
          BY <1>1, <2>1, <3>2, <4>1
        <5> QED BY <1>1, <5>1
      <4>2. CASE k # 1
        <5>1. w[k] = p[k - 1] /\ w[k + 1] = p[k - 1 + 1] /\ k - 1 \in 1..(m - 1)
          BY <3>2, <4>2
        <5> QED BY <2>1, <5>1
      <4> QED BY <4>1, <4>2
    <3>6. ASSUME NEW j \in 1..l, NEW k \in 1..l, w[j] = w[k] PROVE j = k
      <4>1. CASE j = 1 \/ k = 1
        BY <2>3, <3>2, <3>6, <4>1
      <4>2. CASE j # 1 /\ k # 1
        <5>1. j \in 2..l /\ k \in 2..l
          BY <4>2
        <5>2. j - 1 = k - 1
          BY <2>1, <3>2, <3>6, <5>1
        <5> QED BY <5>2
      <4> QED BY <4>1, <4>2
    <3>7. w \in Paths(Graph, s, t, l)
      <4> HIDE DEF w, l
      <4> QED BY <3>2, <3>3, <3>4, <3>5, <3>6 DEF Paths
    <3> QED BY <3>2, <3>7 DEF Direct
  <2> QED BY <2>2, <2>3
<1>5. q[2] \in Dpid
  BY <1>1
<1> HIDE DEF r
<1>6. Direct(r, n - 1, q[2], t)
  BY <1>3, <1>4 DEF Direct
<1> QED BY <1>5, <1>6 DEF r

\* Along a shortest path every switch is one nearer than the one before.
LEMMA AlongIsNearer ==
    ASSUME NEW s \in Dpid, NEW t \in Dpid, NEW n \in 1..Cardinality(Dpid), NEW q,
           Direct(q, n, s, t)
    PROVE  \A k \in 1..n : Far[q[k]][t] = n - k + 1
<1>0. Cardinality(Dpid) \in Nat /\ n \in Nat /\ q \in [1..n -> Dpid]
  BY FiniteConstants DEF Direct, Paths
<1> DEFINE Rest(k) == [j \in 1..(n - k + 1) |-> q[j + (k - 1)]]
           Bad == {k \in 1..n : ~Direct(Rest(k), n - k + 1, q[k], t)}
<1>1. Bad = {}
  <2>1. SUFFICES ASSUME Bad # {} PROVE FALSE
    OBVIOUS
  <2>2. Bad \in SUBSET Nat
    OBVIOUS
  <2>3. IsWellFoundedOn(OpToRel(<, Nat), Nat)
    BY NatLessThanWellFounded
  <2>4. PICK k \in Bad : \A j \in Bad : <<j, k>> \notin OpToRel(<, Nat)
    <3> HIDE DEF Bad
    <3> QED BY <2>1, <2>2, <2>3, WFMin
  <2>5. \A j \in Bad : ~(j < k)
    BY <2>2, <2>4 DEF OpToRel
  <2>6. CASE k = 1
    <3>1. Rest(1) = q /\ n - 1 + 1 = n /\ q[1] = s
      BY <1>0 DEF Direct, Paths
    <3> QED BY <2>4, <2>6, <3>1
  <2>7. CASE k # 1
    <3> DEFINE i == k - 1
               l == n - i + 1
               w == Rest(i)
               v == [j \in 1..(l - 1) |-> w[j + 1]]
    <3>1. /\ i \in 1..n /\ i < k /\ k \in 1..n /\ l \in Nat /\ l >= 2
          /\ l - 1 = n - k + 1 /\ 2 + (i - 1) = k
      BY <1>0, <2>7
    <3>2. Direct(w, l, q[i], t)
      BY <2>5, <3>1
    <3>3. q[i] \in Dpid
      BY <1>0, <3>1
    <3>4. w[2] = q[k]
      BY <3>1
    <3>5. v = Rest(k)
      <4>1. \A j \in 1..(l - 1) : w[j + 1] = q[j + (k - 1)]
        BY <1>0, <3>1
      <4> QED BY <3>1, <4>1
    <3> HIDE DEF w, l, i
    <3>6. Direct(v, l - 1, w[2], t)
      BY <3>1, <3>2, <3>3, NextIsDirect
    <3>7. Direct(Rest(k), n - k + 1, q[k], t)
      BY <3>1, <3>4, <3>5, <3>6
    <3> QED BY <2>4, <3>7
  <2> QED BY <2>6, <2>7
<1>2. ASSUME NEW k \in 1..n PROVE Far[q[k]][t] = n - k + 1
  <2>1. Direct(Rest(k), n - k + 1, q[k], t)
    BY <1>1
  <2>2. n - k + 1 \in 1..Cardinality(Dpid) /\ q[k] \in Dpid
    BY <1>0
  <2> HIDE DEF Rest
  <2> QED BY <2>1, <2>2, FarIsDirect
<1> QED BY <1>2

\* It is never farther than there are switches.
LEMMA FarIsBounded ==
    \A d \in Dpid, t \in Dpid : Far[d][t] \in 0..Cardinality(Dpid)
<1> SUFFICES ASSUME NEW d \in Dpid, NEW t \in Dpid PROVE Far[d][t] \in 0..Cardinality(Dpid)
  OBVIOUS
<1>0. Cardinality(Dpid) \in Nat
  BY FiniteConstants
<1>1. CASE ShortestPaths(Graph, Dpid, d, t) = {}
  <2>1. Far[d][t] = 0
    BY <1>1 DEF Far, Distance
  <2> QED BY <1>0, <2>1
<1>2. CASE ShortestPaths(Graph, Dpid, d, t) # {}
  <2>1. PICK q : q \in ShortestPaths(Graph, Dpid, d, t)
    BY <1>2
  <2>2. PICK n \in 1..Cardinality(Dpid) : Direct(q, n, d, t)
    BY <2>1, ShortestIsDirect
  <2>3. Far[d][t] = n
    BY <2>2, FarIsDirect
  <2> QED BY <1>0, <2>3
<1> QED BY <1>1, <1>2

\* The second switch of a shortest path is nearer than the first.
LEMMA HopIsNearer ==
    ASSUME NEW s \in Dpid, NEW t \in Dpid, s # t, NEW q \in ShortestPaths(Graph, Dpid, s, t)
    PROVE  q[2] \in Dpid /\ Far[q[2]][t] < Far[s][t]
<1>0. Cardinality(Dpid) \in Nat
  BY FiniteConstants
<1>1. PICK n \in 1..Cardinality(Dpid) : Direct(q, n, s, t) /\ n >= 2
  BY ShortestIsDirect
<1>2. q[1] = s /\ q[2] \in Dpid
  BY <1>0, <1>1 DEF Direct, Paths
<1>3. Far[q[1]][t] = n - 1 + 1 /\ Far[q[2]][t] = n - 2 + 1
  BY <1>0, <1>1, AlongIsNearer
<1> QED BY <1>0, <1>2, <1>3

-----------------------------------------------------------------------------
(***************************************************************************)
(* Flows lead nearer, from whatever paths they are left.                   *)
(***************************************************************************)

\* Where an entry sends to a switch, the host is nearer from there.
Leading(table) ==
    \A d \in Dpid, h \in Host :
        table[d][h] \in Dpid => Far[table[d][h]][Home[h]] < Far[d][Home[h]]

Leads == Leading(flows)

LEMMA InstalledLeads ==
    ASSUME NEW table \in [Dpid -> [Host -> Dpid \cup Host \cup {None}]], Leading(table),
           NEW m \in Host, NEW s \in Dpid,
           NEW q \in ShortestPaths(Graph, Dpid, s, Home[m])
    PROVE  Leading(Installed(table, q, m))
<1> DEFINE t == Home[m]
<1>0. t \in Dpid /\ Cardinality(Dpid) \in Nat /\ Dpid \cap Host = {}
  BY FloodingAssumption, FiniteConstants
<1>1. PICK n \in 1..Cardinality(Dpid) : Direct(q, n, s, t)
  BY <1>0, ShortestIsDirect
<1>2. q \in [1..n -> Dpid] /\ q[n] = t
  BY <1>1 DEF Direct, Paths
<1>3. \A k \in 1..n : Far[q[k]][t] = n - k + 1
  BY <1>0, <1>1, AlongIsNearer
<1>4. ASSUME NEW d \in Dpid, NEW h \in Host, Installed(table, q, m)[d][h] \in Dpid
      PROVE  Far[Installed(table, q, m)[d][h]][Home[h]] < Far[d][Home[h]]
  <2>1. CASE h # m \/ ~\E k \in DOMAIN q : q[k] = d
    <3>1. Installed(table, q, m)[d][h] = table[d][h]
      BY <2>1 DEF Installed
    <3> QED BY <1>4, <3>1 DEF Leading
  <2>2. CASE h = m /\ \E k \in DOMAIN q : q[k] = d
    <3> DEFINE k == CHOOSE j \in DOMAIN q : q[j] = d
    <3>1. Installed(table, q, m)[d][h] = IF d = t THEN m ELSE q[1 + k]
      BY <2>2 DEF Installed
    <3>2. k \in 1..n /\ q[k] = d
      BY <1>2, <2>2
    <3> HIDE DEF k
    <3>3. d # t /\ Installed(table, q, m)[d][h] = q[1 + k]
      BY <1>0, <1>4, <3>1
    <3>4. 1 + k \in 1..n
      BY <1>0, <1>2, <3>2, <3>3
    <3>5. Far[q[1 + k]][t] = n - (1 + k) + 1 /\ Far[q[k]][t] = n - k + 1
      BY <1>3, <3>2, <3>4
    <3>6. Far[q[1 + k]][t] < Far[d][t]
      BY <1>0, <3>2, <3>5
    <3> QED BY <2>2, <3>3, <3>6
  <2> QED BY <2>1, <2>2
<1> QED BY <1>4 DEF Leading

LEMMA LearnedLeads ==
    ASSUME Inv, Leads, NEW f
    PROVE  Leading(FlowsLearned(f))
<1>1. None \notin Dpid
  BY FloodingAssumption
<1>2. \A d \in Dpid, h \in Host : FlowsLearned(f)[d][h] \in {None, flows[d][h]}
  BY DEF FlowsLearned
<1> QED BY <1>1, <1>2 DEF Leads, Leading

\* What a frame does to the flows.
LEMMA ArriveFlows ==
    ASSUME Inv, NEW f \in frames, Arrive(f)
    PROVE  \/ flows' = flows
           \/ flows' = FlowsLearned(f)
           \/ \E s \in Dpid : \E q \in ShortestPaths(Graph, Dpid, s, Home[f.tgt]) :
                  flows' = Installed(FlowsLearned(f), q, f.tgt)
<1>1. f.src \in Host /\ f.tgt \in Host /\ f.at \in Dpid
  BY DEF Inv, FramesOK, FrameOK, Frame
<1>2. CASE ArpRequest(f)
  BY <1>2, Zenon DEF ArpRequest
<1>3. ASSUME Forward(f)
      PROVE  \/ flows' = FlowsLearned(f)
             \/ \E s \in Dpid : \E q \in ShortestPaths(Graph, Dpid, s, Home[f.tgt]) :
                    flows' = Installed(FlowsLearned(f), q, f.tgt)
  <2>1. (IF f.src \in located' THEN Home[f.src] ELSE f.at) \in Dpid
    BY <1>1, FloodingAssumption
  <2> QED BY <1>3, <2>1, Zenon DEF Forward
<1>4. CASE ArpReply(f)
  BY <1>3, <1>4, Zenon DEF ArpReply
<1>5. CASE IpPacket(f)
  BY <1>3, <1>5, Zenon DEF IpPacket
<1>6. CASE OtherFrame(f) \/ Switched(f)
  BY <1>6 DEF OtherFrame, Switched, controller
<1> QED BY <1>2, <1>4, <1>5, <1>6 DEF Arrive

LEMMA LeadsStep ==
    ASSUME Inv, Leads, [Next]_vars
    PROVE  Leads'
<1>1. CASE flows' = flows
  BY <1>1 DEF Leads
<1>2. CASE \E f \in frames : Arrive(f)
  <2>1. PICK f \in frames : Arrive(f)
    BY <1>2
  <2>2. f.tgt \in Host
    BY DEF Inv, FramesOK, FrameOK, Frame
  <2>3. FlowsLearned(f) \in [Dpid -> [Host -> Dpid \cup Host \cup {None}]]
        /\ Leading(FlowsLearned(f))
    BY LearnedLeads, FlowsLearnedOK
  <2>4. CASE flows' = FlowsLearned(f)
    BY <2>3, <2>4 DEF Leads
  <2>5. CASE \E s \in Dpid : \E q \in ShortestPaths(Graph, Dpid, s, Home[f.tgt]) :
                flows' = Installed(FlowsLearned(f), q, f.tgt)
    BY <2>2, <2>3, <2>5, InstalledLeads DEF Leads
  <2> QED BY <1>1, <2>1, <2>4, <2>5, ArriveFlows
<1>3. ASSUME ~\E f \in frames : Arrive(f) PROVE flows' = flows
  BY <1>3 DEF Next, Ask, Trouble, Lose, Forget, Send, Tick, vars, controller
<1> QED BY <1>1, <1>2, <1>3

LEMMA LeadsInvariance == Spec => []Leads
<1>1. Init => Leads
  BY FloodingAssumption DEF Init, Leads, Leading
<1>2. Inv /\ Leads /\ [Next]_vars => Leads'
  BY LeadsStep
<1> QED BY <1>1, <1>2, Invariance, PTL DEF Spec

-----------------------------------------------------------------------------
(***************************************************************************)
(* What a step uses up.                                                    *)
(***************************************************************************)

LEMMA KindsFinite ==
    /\ IsFiniteSet({"request", "reply", "other"}) /\ IsFiniteSet(Kind)
    /\ IsFiniteSet({"own", "gateway"})
<1>1. IsFiniteSet({"own"} \cup {"gateway"})
  BY FS_Singleton, FS_AddElement
<1>2. IsFiniteSet({"request"} \cup {"reply"})
  BY FS_Singleton, FS_AddElement
<1>3. IsFiniteSet(({"request"} \cup {"reply"}) \cup {"other"})
  BY <1>2, FS_AddElement
<1>4. IsFiniteSet((({"request"} \cup {"reply"}) \cup {"other"}) \cup {"ip"})
  BY <1>3, FS_AddElement
<1>5. /\ {"own"} \cup {"gateway"} = {"own", "gateway"}
      /\ ({"request"} \cup {"reply"}) \cup {"other"} = {"request", "reply", "other"}
      /\ (({"request"} \cup {"reply"}) \cup {"other"}) \cup {"ip"} = Kind
  BY DEF Kind
<1> QED BY <1>1, <1>3, <1>4, <1>5

LEMMA KeysFinite == IsFiniteSet(Keys)
<1> DEFINE pairs == {"request", "reply", "other"} \X (Host \X Host)
           map == [k \in Keys |-> <<k[1], <<k[2], k[3]>>>>]
<1>1. IsFiniteSet(pairs)
  BY KindsFinite, FiniteConstants, FS_Product
<1>2. map \in [Keys -> pairs]
  BY DEF Keys
<1>3. ASSUME NEW j \in Keys, NEW k \in Keys, map[j] = map[k] PROVE j = k
  BY <1>3 DEF Keys
<1>4. map \in Injection(Keys, pairs)
  BY <1>2, <1>3 DEF Injection, IsInjective
<1> QED BY <1>1, <1>4, FS_Injection

LEMMA FrameFinite == IsFiniteSet(Frame)
<1> DEFINE way == Dpid \X (Dpid \cup Host)
           pairs == (Kind \X {"own", "gateway"}) \X ((Host \X Host) \X way)
           map == [f \in Frame |-> <<<<f.kind, f.says>>, <<<<f.src, f.tgt>>, <<f.at, f.via>>>>>>]
<1>1. IsFiniteSet(way)
  BY FiniteConstants, FS_Union, FS_Product
<1>2. IsFiniteSet((Host \X Host) \X way) /\ IsFiniteSet(Kind \X {"own", "gateway"})
  BY <1>1, KindsFinite, FiniteConstants, FS_Product
<1>3. IsFiniteSet(pairs)
  BY <1>2, FS_Product
<1>4. map \in [Frame -> pairs]
  BY DEF Frame
<1>5. ASSUME NEW f \in Frame, NEW g \in Frame, map[f] = map[g] PROVE f = g
  <2>1. /\ f.kind = g.kind /\ f.says = g.says /\ f.src = g.src
        /\ f.tgt = g.tgt /\ f.at = g.at /\ f.via = g.via
    BY <1>5
  <2> QED BY <2>1 DEF Frame
<1>6. map \in Injection(Frame, pairs)
  BY <1>4, <1>5 DEF Injection, IsInjective
<1> QED BY <1>3, <1>6, FS_Injection

\* A set that leaves a member of a finite one out.
LEMMA OneLess ==
    ASSUME NEW T, IsFiniteSet(T), NEW S, S \subseteq T, NEW u \in T, u \notin S
    PROVE  /\ IsFiniteSet(S) /\ Cardinality(S) \in Nat /\ Cardinality(T) \in Nat
           /\ Cardinality(S) < Cardinality(T)
<1>1. IsFiniteSet(S) /\ Cardinality(S) <= Cardinality(T) /\ Cardinality(S) # Cardinality(T)
  BY FS_Subset
<1> QED BY <1>1, FS_CardinalityType

\* One that can be told apart within a finite one, without a member of it.
LEMMA FewerByMap ==
    ASSUME NEW T, IsFiniteSet(T), NEW S, NEW u \in T, NEW map \in [S -> T],
           \A x \in S : map[x] # u, \A x, y \in S : map[x] = map[y] => x = y
    PROVE  Cardinality(S) < Cardinality(T)
<1>1. T \ {u} \subseteq T /\ u \notin T \ {u}
  OBVIOUS
<1>2. IsFiniteSet(T \ {u}) /\ Cardinality(T \ {u}) \in Nat /\ Cardinality(T) \in Nat
      /\ Cardinality(T \ {u}) < Cardinality(T)
  BY <1>1, OneLess
<1>3. map \in Injection(S, T \ {u})
  <2>1. map \in [S -> T \ {u}]
    OBVIOUS
  <2> QED BY <2>1 DEF Injection, IsInjective
<1>4. IsFiniteSet(S) /\ Cardinality(S) <= Cardinality(T \ {u})
  BY <1>2, <1>3, FS_Injection
<1>5. Cardinality(S) \in Nat
  BY <1>4, FS_CardinalityType
<1> QED BY <1>2, <1>4, <1>5

Fresh == {k \in Keys : history[k] = 0}

LEMMA StartsParts ==
    ASSUME Inv
    PROVE  /\ IsFiniteSet(Fresh) /\ Cardinality(Fresh) \in Nat
           /\ IsFiniteSet(Wants \ asked) /\ Cardinality(Wants \ asked) \in Nat
           /\ trouble \in Nat /\ MaxTrouble \in Nat /\ trouble <= MaxTrouble
           /\ Starts = Cardinality(Fresh) + Cardinality(Wants \ asked) + (MaxTrouble - trouble)
<1>1. IsFiniteSet(Fresh)
  BY KeysFinite, FS_Subset DEF Fresh
<1>2. IsFiniteSet(Host \X Host)
  BY FiniteConstants, FS_Product
<1>3. IsFiniteSet(Wants \ asked)
  BY <1>2, FS_Subset, FloodingAssumption
<1> QED BY <1>1, <1>3, FS_CardinalityType, FloodingAssumption DEF Starts, Fresh, Inv, TypeOK

\* A flood starts and its key is suppressed; a host asks; trouble is made.
LEMMA FewerStarts ==
    ASSUME Inv,
           \/ /\ \E k \in Keys : /\ history[k] = 0
                                 /\ history' = [history EXCEPT ![k] = Window]
              /\ UNCHANGED <<asked, trouble>>
           \/ (\E p \in Wants \ asked : asked' = asked \cup {p}) /\ UNCHANGED <<history, trouble>>
           \/ trouble < MaxTrouble /\ trouble' = trouble + 1 /\ UNCHANGED <<history, asked>>
    PROVE  Starts' < Starts
<1>0. Starts' = Cardinality(Fresh') + Cardinality(Wants \ asked') + (MaxTrouble - trouble')
  BY DEF Starts, Fresh
<1>1. ASSUME NEW k \in Keys, history[k] = 0, history' = [history EXCEPT ![k] = Window],
             UNCHANGED <<asked, trouble>>
      PROVE  Starts' < Starts
  <2>1. Window # 0 /\ history \in [Keys -> 0..Window]
    BY FloodingAssumption DEF Inv, TypeOK
  <2>2. Fresh' \subseteq Fresh /\ k \in Fresh /\ k \notin Fresh'
    BY <1>1, <2>1 DEF Fresh
  <2>3. Cardinality(Fresh') < Cardinality(Fresh) /\ Cardinality(Fresh') \in Nat
    BY <2>2, StartsParts, OneLess
  <2> QED BY <1>0, <1>1, <2>3, StartsParts
<1>2. ASSUME NEW p \in Wants \ asked, asked' = asked \cup {p}, UNCHANGED <<history, trouble>>
      PROVE  Starts' < Starts
  <2>1. Wants \ asked' \subseteq Wants \ asked /\ p \notin Wants \ asked'
    BY <1>2
  <2>2. /\ Cardinality(Wants \ asked') < Cardinality(Wants \ asked)
        /\ Cardinality(Wants \ asked') \in Nat
    BY <2>1, StartsParts, OneLess
  <2>3. Fresh' = Fresh
    BY <1>2 DEF Fresh
  <2> QED BY <1>0, <1>2, <2>2, <2>3, StartsParts
<1>3. ASSUME trouble < MaxTrouble, trouble' = trouble + 1, UNCHANGED <<history, asked>>
      PROVE  Starts' < Starts
  <2>1. Fresh' = Fresh
    BY <1>3 DEF Fresh
  <2> QED BY <1>0, <1>3, <2>1, StartsParts
<1> QED BY <1>1, <1>2, <1>3

LEMMA SameStarts ==
    ASSUME UNCHANGED <<history, asked, trouble>>
    PROVE  Starts' = Starts
  BY DEF Starts

\* A frame that looks for a host is gone, and only replies have come.
LEMMA FewerCallers ==
    ASSUME Inv, NEW f \in frames, f.kind \in {"request", "other"},
           \A g \in frames' : g \in frames \ {f} \/ g.kind = "reply"
    PROVE  Cardinality(Callers') < Cardinality(Callers)
<1>1. IsFiniteSet(frames)
  BY FrameFinite, FS_Subset DEF Inv, TypeOK
<1>2. IsFiniteSet(Callers)
  BY <1>1, FS_Subset DEF Callers
<1>3. Callers' \subseteq Callers /\ f \in Callers /\ f \notin Callers'
  BY DEF Callers
<1> QED BY <1>2, <1>3, OneLess

\* The replies in flight are finitely many, and each is counted.
LEMMA ReturningParts ==
    ASSUME Inv
    PROVE  /\ IsFiniteSet(Returning)
           /\ \A f \in frames : f.kind = "reply" => 
                 /\ <<f, 0>> \in Returning
                 /\ <<f, Far[f.at][Home[f.tgt]]>> \in Returning
<1>1. IsFiniteSet(frames)
  BY FrameFinite, FS_Subset DEF Inv, TypeOK
<1>2. Cardinality(Dpid) \in Nat /\ IsFiniteSet(0..Cardinality(Dpid))
  BY FiniteConstants, FS_Interval
<1>3. IsFiniteSet(frames \X (0..Cardinality(Dpid)))
  BY <1>1, <1>2, FS_Product
<1>4. IsFiniteSet(Returning)
  BY <1>3, FS_Subset DEF Returning
<1>5. ASSUME NEW f \in frames, f.kind = "reply"
      PROVE  <<f, 0>> \in Returning /\ <<f, Far[f.at][Home[f.tgt]]>> \in Returning
  <2>1. f.at \in Dpid /\ Home[f.tgt] \in Dpid
    BY FloodingAssumption DEF Inv, FramesOK, FrameOK, Frame
  <2>2. Far[f.at][Home[f.tgt]] \in 0..Cardinality(Dpid)
    BY <2>1, FarIsBounded
  <2>3. 0 \in 0..Cardinality(Dpid) /\ 0 <= Far[f.at][Home[f.tgt]]
    BY <1>2, <2>2
  <2>4. \A i \in 0..Cardinality(Dpid) :
           i <= Far[f.at][Home[f.tgt]] => <<f, i>> \in Returning
    BY <1>5 DEF Returning
  <2>5. Far[f.at][Home[f.tgt]] <= Far[f.at][Home[f.tgt]]
    BY <1>2, <2>2
  <2> QED BY <2>2, <2>3, <2>4, <2>5, Zenon
<1> QED BY <1>4, <1>5

\* A reply is gone.
LEMMA ReplyGone ==
    ASSUME Inv, NEW f \in frames, f.kind = "reply", frames' = frames \ {f}
    PROVE  Callers' = Callers /\ Cardinality(Returning') < Cardinality(Returning)
<1>1. Callers' = Callers
  BY DEF Callers
<1>2. Returning' \subseteq Returning /\ <<f, 0>> \in Returning /\ <<f, 0>> \notin Returning'
  BY ReturningParts DEF Returning
<1> QED BY <1>1, <1>2, ReturningParts, OneLess

\* A reply has gone on to a switch that is nearer to its host.
LEMMA ReplyNearer ==
    ASSUME Inv, NEW f \in frames, f.kind = "reply", NEW n \in Dpid,
           Far[n][Home[f.tgt]] < Far[f.at][Home[f.tgt]],
           frames' = (frames \ {f}) \cup {Onward(f, n)}
    PROVE  Callers' = Callers /\ Cardinality(Returning') < Cardinality(Returning)
<1> DEFINE g == Onward(f, n)
           far == Far[f.at][Home[f.tgt]]
           map == [x \in Returning' |-> IF x[1] \in frames \ {f} THEN x ELSE <<f, x[2]>>]
<1>1. g.kind = "reply" /\ g.at = n /\ g.tgt = f.tgt
  BY DEF Onward
<1>2. Callers' = Callers
  BY <1>1 DEF Callers
<1>3. f.at \in Dpid /\ Home[f.tgt] \in Dpid /\ Cardinality(Dpid) \in Nat
  BY FloodingAssumption, FiniteConstants DEF Inv, FramesOK, FrameOK, Frame
<1>4. Far[n][Home[f.tgt]] \in Nat /\ far \in Nat
  BY <1>3, FarIsBounded
<1> HIDE DEF g
<1>5. ASSUME NEW x \in Returning'
      PROVE  /\ x = <<x[1], x[2]>> /\ x[2] \in Nat
             /\ x[1] \in frames \ {f} => x \in Returning /\ map[x] = x
             /\ x[1] \notin frames \ {f} =>
                   /\ x[1] = g /\ map[x] = <<f, x[2]>> /\ x[2] < far /\ map[x] \in Returning
  <2>1. /\ x \in frames' \X (0..Cardinality(Dpid)) /\ x[1].kind = "reply"
        /\ x[2] <= Far[x[1].at][Home[x[1].tgt]]
    BY <1>5 DEF Returning
  <2>2. x = <<x[1], x[2]>> /\ x[1] \in (frames \ {f}) \cup {g} /\ x[2] \in 0..Cardinality(Dpid)
    BY <2>1 DEF g
  <2>3. CASE x[1] \in frames \ {f}
    <3>1. x \in Returning
      BY <2>1, <2>2, <2>3 DEF Returning
    <3> QED BY <1>3, <2>2, <2>3, <3>1
  <2>4. CASE x[1] \notin frames \ {f}
    <3>1. x[1] = g /\ map[x] = <<f, x[2]>>
      BY <2>2, <2>4
    <3>2. x[2] < far
      BY <1>1, <1>3, <1>4, <2>1, <2>2, <3>1
    <3>3. <<f, x[2]>> \in Returning
      BY <1>4, <2>2, <3>2 DEF Returning
    <3> QED BY <1>3, <2>2, <2>4, <3>1, <3>2, <3>3
  <2> QED BY <2>3, <2>4
<1>6. <<f, far>> \in Returning /\ IsFiniteSet(Returning)
  BY ReturningParts
<1>7. map \in [Returning' -> Returning]
  BY <1>5
<1> HIDE DEF map
<1>8. ASSUME NEW x \in Returning' PROVE map[x] # <<f, far>>
  <2>1. CASE x[1] \in frames \ {f}
    BY <1>5, <2>1
  <2>2. CASE x[1] \notin frames \ {f}
    BY <1>4, <1>5, <2>2
  <2> QED BY <2>1, <2>2
<1>9. ASSUME NEW x \in Returning', NEW y \in Returning', map[x] = map[y] PROVE x = y
  <2>1. CASE x[1] \in frames \ {f} /\ y[1] \in frames \ {f}
    BY <1>5, <1>9, <2>1
  <2>2. CASE x[1] \notin frames \ {f} /\ y[1] \notin frames \ {f}
    <3>1. x[1] = y[1] /\ <<f, x[2]>> = <<f, y[2]>>
      BY <1>5, <1>9, <2>2
    <3> QED BY <1>5, <3>1
  <2>3. CASE x[1] \in frames \ {f} /\ y[1] \notin frames \ {f}
    <3>1. x = <<f, y[2]>>
      BY <1>5, <1>9, <2>3
    <3> QED BY <2>3, <3>1
  <2>4. CASE x[1] \notin frames \ {f} /\ y[1] \in frames \ {f}
    <3>1. y = <<f, x[2]>>
      BY <1>5, <1>9, <2>4
    <3> QED BY <2>4, <3>1
  <2> QED BY <2>1, <2>2, <2>3, <2>4
<1>10. Cardinality(Returning') < Cardinality(Returning)
  BY <1>6, <1>7, <1>8, <1>9, FewerByMap
<1> QED BY <1>2, <1>10

-----------------------------------------------------------------------------
(***************************************************************************)
(* Floods are bounded.                                                     *)
(***************************************************************************)

LEMMA FrameParts ==
    ASSUME Inv, NEW f \in frames
    PROVE  /\ f.kind \in Kind /\ f.src \in Host /\ f.tgt \in Host /\ f.at \in Dpid
           /\ f.via \in Dpid \cup Host /\ Home[f.tgt] \in Dpid
  BY FloodingAssumption DEF Inv, FramesOK, FrameOK, Frame

\* One frame that is not an IP packet is used up, or it went nearer.
LEMMA UsedUp ==
    ASSUME Inv, NEW f \in frames, UNCHANGED <<history, asked, trouble>>,
           \/ /\ f.kind \in {"request", "other"}
              /\ \A g \in frames' : g \in frames \ {f} \/ g.kind = "reply"
           \/ f.kind = "reply" /\ frames' = frames \ {f}
           \/ /\ f.kind = "reply"
              /\ \E n \in Dpid : /\ Far[n][Home[f.tgt]] < Far[f.at][Home[f.tgt]]
                                 /\ frames' = (frames \ {f}) \cup {Onward(f, n)}
    PROVE  RunsDown
<1>1. Starts' = Starts
  BY SameStarts
<1>2. CASE f.kind = "reply"
  <2>1. Callers' = Callers /\ Cardinality(Returning') < Cardinality(Returning)
    BY <1>2, ReplyGone, ReplyNearer
  <2> QED BY <1>1, <2>1 DEF RunsDown
<1>3. CASE f.kind # "reply"
  <2>1. Cardinality(Callers') < Cardinality(Callers)
    BY <1>3, FewerCallers
  <2> QED BY <1>1, <2>1 DEF RunsDown
<1> QED BY <1>2, <1>3

\* A frame that is flooded, or dropped because it was.
LEMMA FloodOnceRunsDown ==
    ASSUME Inv, NEW f \in frames, f.kind # "ip", FloodOnce(f), UNCHANGED <<asked, trouble>>
    PROVE  RunsDown
<1> DEFINE k == <<f.kind, f.src, f.tgt>>
<1>1. k \in Keys
  BY FrameParts DEF Keys, Kind
<1>2. history \in [Keys -> 0..Window]
  BY DEF Inv, TypeOK
<1>3. /\ history' = [history EXCEPT ![k] = Refreshed(k, history[k])]
      /\ IF ShouldFlood(k) THEN Flood(f) ELSE Drop(f)
  BY DEF FloodOnce
<1> HIDE DEF k
<1>4. CASE history[k] = 0
  <2>1. history' = [history EXCEPT ![k] = Window]
    BY <1>3, <1>4 DEF Refreshed
  <2>2. Starts' < Starts
    BY <1>1, <1>4, <2>1, FewerStarts
  <2> QED BY <2>2 DEF RunsDown
<1>5. CASE history[k] # 0
  <2>1. history' = history
    BY <1>2, <1>3, <1>5 DEF Refreshed
  <2>2. frames' = frames \ {f}
    BY <1>3, <1>5 DEF ShouldFlood, Drop
  <2>3. f.kind = "reply" \/ f.kind \in {"request", "other"}
    BY FrameParts DEF Kind
  <2> QED BY <2>1, <2>2, <2>3, UsedUp
<1> QED BY <1>4, <1>5

\* A reply, or an IP packet, that is dropped or sent to a host or nearer to it.
LEMMA SentRunsDown ==
    ASSUME Inv, NEW f \in frames, f.kind \in {"reply", "ip"},
           UNCHANGED <<history, asked, trouble>>,
           \/ Drop(f)
           \/ \E h \in Host : SendToHost(f, h)
           \/ \E n \in Dpid : /\ Far[n][Home[f.tgt]] < Far[f.at][Home[f.tgt]]
                              /\ SendToSwitch(f, n)
    PROVE  /\ f.kind = "reply" => RunsDown
           /\ f.kind = "ip" => UNCHANGED <<Starts, Callers, Returning>>
<1>1. \/ frames' = frames \ {f}
      \/ \E n \in Dpid : /\ Far[n][Home[f.tgt]] < Far[f.at][Home[f.tgt]]
                         /\ frames' = (frames \ {f}) \cup {Onward(f, n)}
  BY DEF SendToHost, SendToSwitch, Drop, Answers
<1>2. ASSUME f.kind = "reply" PROVE RunsDown
  BY <1>1, <1>2, UsedUp
<1>3. ASSUME f.kind = "ip" PROVE UNCHANGED <<Starts, Callers, Returning>>
  <2>1. \A g : g.kind # "ip" => (g \in frames' <=> g \in frames)
    BY <1>1, <1>3 DEF Onward
  <2>2. Callers' = Callers
    BY <2>1 DEF Callers
  <2>3. Returning' = Returning
    BY <2>1 DEF Returning
  <2> QED BY <2>2, <2>3, SameStarts
<1> QED BY <1>2, <1>3

LEMMA ForwardRunsDown ==
    ASSUME Inv, NEW f \in frames, f.kind \in {"reply", "ip"},
           UNCHANGED <<history, asked, trouble>>, Forward(f)
    PROVE  /\ f.kind = "reply" => RunsDown
           /\ f.kind = "ip" => UNCHANGED <<Starts, Callers, Returning>>
<1>1. CASE Drop(f)
  BY <1>1, SentRunsDown
<1>2. CASE f.at = Home[f.tgt]
  <2>1. SendToHost(f, f.tgt)
    BY <1>2, Zenon DEF Forward
  <2> QED BY <2>1, FrameParts, SentRunsDown
<1>3. CASE /\ f.at # Home[f.tgt]
           /\ \E r \in ShortestPaths(Graph, Dpid, f.at, Home[f.tgt]) : SendToSwitch(f, r[2])
  <2>1. PICK r \in ShortestPaths(Graph, Dpid, f.at, Home[f.tgt]) : SendToSwitch(f, r[2])
    BY <1>3
  <2>2. r[2] \in Dpid /\ Far[r[2]][Home[f.tgt]] < Far[f.at][Home[f.tgt]]
    BY <1>3, FrameParts, HopIsNearer
  <2> QED BY <2>1, <2>2, SentRunsDown
<1> QED BY <1>1, <1>2, <1>3, Zenon DEF Forward

LEMMA ArpRequestRunsDown ==
    ASSUME Inv, NEW f \in frames, ArpRequest(f), UNCHANGED <<asked, trouble>>
    PROVE  RunsDown
<1>1. f.kind = "request"
  BY DEF ArpRequest
<1>2. CASE FloodOnce(f)
  BY <1>1, <1>2, FloodOnceRunsDown
<1>3. ASSUME NEW mac, ProxyReply(f, mac), UNCHANGED history PROVE RunsDown
  <2>1. \A g \in frames' : g \in frames \ {f} \/ g.kind = "reply"
    BY <1>3 DEF ProxyReply, Onward
  <2> QED BY <1>1, <1>3, <2>1, UsedUp
<1> QED BY <1>2, <1>3, Zenon DEF ArpRequest

LEMMA ArriveRunsDown ==
    ASSUME Inv, Leads, NEW f \in frames, Arrive(f)
    PROVE  RunsDown \/ (f.kind = "ip" /\ UNCHANGED <<Starts, Callers, Returning>>)
<1>0. UNCHANGED <<asked, trouble>>
  BY DEF Arrive
<1>1. CASE ArpRequest(f)
  BY <1>0, <1>1, ArpRequestRunsDown
<1>2. CASE ArpReply(f)
  <2>1. f.kind = "reply" /\ f.tgt \in Host
    BY <1>2, FrameParts DEF ArpReply
  <2>2. \/ FloodOnce(f)
        \/ SendToHost(f, f.tgt) /\ UNCHANGED history
        \/ Forward(f) /\ UNCHANGED history
    BY <1>2, Zenon DEF ArpReply
  <2>3. CASE FloodOnce(f)
    BY <1>0, <2>1, <2>3, FloodOnceRunsDown
  <2>4. CASE SendToHost(f, f.tgt) /\ UNCHANGED history
    BY <1>0, <2>1, <2>4, SentRunsDown
  <2>5. CASE Forward(f) /\ UNCHANGED history
    BY <1>0, <2>1, <2>5, ForwardRunsDown
  <2> QED BY <2>2, <2>3, <2>4, <2>5
<1>3. CASE IpPacket(f)
  <2>1. f.kind = "ip" /\ UNCHANGED history
    BY <1>3 DEF IpPacket
  <2>2. CASE Forward(f)
    BY <1>0, <2>1, <2>2, ForwardRunsDown
  <2>3. CASE Flood(f)
    <3>1. \A g : g.kind # "ip" => (g \in frames' <=> g \in frames)
      BY <2>1, <2>3 DEF Flood, Answers, Onward
    <3>2. Callers' = Callers
      BY <3>1 DEF Callers
    <3>3. Returning' = Returning
      BY <3>1 DEF Returning
    <3> QED BY <1>0, <2>1, <3>2, <3>3, SameStarts
  <2> QED BY <1>3, <2>2, <2>3, Zenon DEF IpPacket
<1>4. CASE OtherFrame(f)
  BY <1>0, <1>4, FloodOnceRunsDown DEF OtherFrame
<1>5. CASE Switched(f)
  <2>1. f.kind \in {"reply", "ip"} /\ UNCHANGED history /\ ~Missed(f)
    BY <1>5 DEF Switched, controller
  <2>2. CASE flows[f.at][f.tgt] = f.tgt
    BY <1>0, <1>5, <2>1, <2>2, FrameParts, SentRunsDown DEF Switched
  <2>3. CASE flows[f.at][f.tgt] # f.tgt
    <3>1. flows[f.at][f.tgt] \in Dpid
      BY <2>1, <2>3, FrameParts DEF Missed, Inv, FlowsOK
    <3>2. Far[flows[f.at][f.tgt]][Home[f.tgt]] < Far[f.at][Home[f.tgt]]
      BY <3>1, FrameParts DEF Leads, Leading
    <3>3. SendToSwitch(f, flows[f.at][f.tgt])
      BY <1>5, <2>3 DEF Switched
    <3> QED BY <1>0, <2>1, <3>1, <3>2, <3>3, SentRunsDown
  <2> QED BY <2>2, <2>3
<1> QED BY <1>1, <1>2, <1>3, <1>4, <1>5 DEF Arrive

\* On any topology, with loops or without, and whatever is lost: between two
\* ticks every step but the arrival of an IP packet uses up something finite,
\* so no flood of ARP or of an unknown protocol goes on for ever, nor does a
\* reply circle along flows that different paths have left.
THEOREM FloodsAlwaysRunDown == Spec => FloodsRunDown
<1> DEFINE Allowed == Tick \/ RunsDown
                      \/ (ArriveAs("ip") /\ UNCHANGED <<Starts, Callers, Returning>>)
<1>1. Inv /\ Leads /\ Next => Allowed
  <2> SUFFICES ASSUME Inv, Leads, Next PROVE Allowed
    OBVIOUS
  <2>1. ASSUME NEW f \in frames, Arrive(f) PROVE Allowed
    BY <2>1, ArriveRunsDown, Zenon DEF ArriveAs
  <2>2. ASSUME NEW p \in Wants, Ask(p) PROVE Allowed
    <3>1. p \in Wants \ asked /\ asked' = asked \cup {p} /\ UNCHANGED <<history, trouble>>
      BY <2>2 DEF Ask, controller
    <3>2. Starts' < Starts
      BY <3>1, FewerStarts
    <3> QED BY <3>2 DEF RunsDown
  <2>3. CASE Trouble
    <3>1. trouble < MaxTrouble /\ trouble' = trouble + 1 /\ UNCHANGED <<history, asked>>
      BY <2>3 DEF Trouble, Lose, Forget, Send, controller
    <3>2. Starts' < Starts
      BY <3>1, FewerStarts
    <3> QED BY <3>2 DEF RunsDown
  <2> QED BY <2>1, <2>2, <2>3, Zenon DEF Next
<1>2. Inv /\ Leads /\ [Next]_vars => [Allowed]_vars
  BY <1>1
<1>3. Spec => [][Allowed]_vars
  <2> HIDE DEF Allowed
  <2> QED BY <1>2, Invariance, LeadsInvariance, PTL DEF Spec
<1> QED BY <1>3, PTL DEF FloodsRunDown

=============================================================================
