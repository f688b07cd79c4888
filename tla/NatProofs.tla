------------------------------ MODULE NatProofs ------------------------------
(***************************************************************************)
(* Proofs about Nat: its types, and that it implements NatSessions.        *)
(***************************************************************************)
EXTENDS Nat, TLAPS

\* A mapping that is not cleaned up was written by a host, and not yet due.
LEMMA LiveType ==
    ASSUME TypeOK, NEW k \in Key, Live(k) # None
    PROVE  /\ Live(k) = icmp_map[k]
           /\ icmp_map[k] \in Host
           /\ left[k] \in 1..Timeout
  BY NatAssumption DEF TypeOK, Live

\* The table that Recorded leaves has its type.
LEMMA RecordedType ==
    ASSUME TypeOK, NEW h \in Host, NEW k \in Key, Recorded(h, k)
    PROVE  icmp_map' \in [Key -> Host \cup {None}] /\ left' \in [Key -> 0..Timeout]
<1>1. \A j \in Key : Live(j) \in Host \cup {None}
  BY DEF TypeOK, Live
<1>2. Timeout \in 0..Timeout
  BY NatAssumption
<1> QED BY <1>1, <1>2 DEF TypeOK, Recorded

\* So has the one that Removed leaves.
LEMMA RemovedType ==
    ASSUME TypeOK, NEW k \in Key, Removed(k)
    PROVE  icmp_map' \in [Key -> Host \cup {None}] /\ left' \in [Key -> 0..Timeout]
<1>1. \A j \in Key : Live(j) \in Host \cup {None}
  BY DEF TypeOK, Live
<1>2. 0 \in 0..Timeout
  BY NatAssumption
<1> QED BY <1>1, <1>2 DEF TypeOK, Removed

\* Every step keeps the types.
LEMMA TypeStep == TypeOK /\ [Next]_vars => TypeOK'
<1> SUFFICES ASSUME TypeOK, [Next]_vars PROVE TypeOK'
  OBVIOUS
<1>1. ASSUME NEW h \in Host, NEW k \in Key, Snat(h, k) PROVE TypeOK'
  <2>1. icmp_map' \in [Key -> Host \cup {None}] /\ left' \in [Key -> 0..Timeout]
    BY <1>1, RecordedType DEF Snat, TypeOK
  <2>2. [kind |-> "outbound", key |-> k] \in Packet
    BY DEF Packet
  <2>3. wire' \subseteq Packet
    BY <1>1, <2>2 DEF Snat, TypeOK
  <2> QED BY <1>1, <2>1, <2>3 DEF Snat, TypeOK
<1>2. ASSUME NEW p \in Packet, Dnat(p) PROVE TypeOK'
  <2> DEFINE k == p.key
  <2>1. k \in Key
    BY DEF Packet
  <2>2. wire' \subseteq Packet
    BY <1>2 DEF Dnat, TypeOK
  <2>3. CASE Live(k) = None
    <3>1. \A j \in Key : Live(j) \in Host \cup {None}
      BY DEF TypeOK, Live
    <3> QED BY <1>2, <2>2, <2>3, <3>1 DEF Dnat, TypeOK
  <2>4. CASE Live(k) # None
    <3>1. Live(k) \in Host
      BY <2>1, <2>4, LiveType
    <3>2. Removed(k) /\ heard' \in {None, <<Live(k), k>>}
      BY <1>2, <2>4 DEF Dnat
    <3> QED BY <1>2, <2>1, <2>2, <3>1, <3>2, RemovedType DEF Dnat, TypeOK
  <2> QED BY <2>3, <2>4
<1>3. ASSUME NEW p \in Packet, RemoteSends(p) PROVE TypeOK'
  BY <1>3 DEF RemoteSends, TypeOK
<1>4. ASSUME NEW p \in Packet, Lose(p) PROVE TypeOK'
  BY <1>4 DEF Lose, TypeOK
<1>5. ASSUME NEW a \in Host \cup Remote, NEW what \in Knowledge, Learn(a, what) PROVE TypeOK'
  BY <1>5 DEF Learn, TypeOK
<1>6. CASE Tick
  <2>1. \A k \in Key : left'[k] \in 0..Timeout
    BY <1>6, NatAssumption DEF Tick, TypeOK
  <2>2. left' \in [Key -> 0..Timeout]
    BY <1>6, <2>1 DEF Tick
  <2> QED BY <1>6, <2>2 DEF Tick, TypeOK
<1>7. CASE UNCHANGED vars
  BY <1>7 DEF vars, TypeOK
<1> QED BY <1>1, <1>2, <1>3, <1>4, <1>5, <1>6, <1>7 DEF Next

\* Every reachable state of the gateway has its type.
THEOREM TypeCorrect == Spec => []TypeOK
<1>1. Init => TypeOK
  BY NatAssumption DEF Init, TypeOK, Knowledge
<1> QED BY <1>1, TypeStep, PTL DEF Spec

-----------------------------------------------------------------------------
(***************************************************************************)
(* The refinement.                                                         *)
(***************************************************************************)

\* No session is the absence of one.
LEMMA SessionOf ==
    ASSUME TypeOK, NEW k \in Key
    PROVE  /\ (Sessions[k] = None) <=> (Live(k) = None)
           /\ Live(k) # None => Sessions[k] = <<Live(k), left[k]>>
  BY LiveType, NatAssumption DEF Sessions

\* An entry that is copied from what the clean-up leaves, its time unchanged,
\* is the same session.
LEMMA SameSession ==
    ASSUME NEW k \in Key, icmp_map'[k] \in {icmp_map[k], Live(k)}, left'[k] = left[k]
    PROVE  Sessions'[k] = Sessions[k]
  BY DEF Sessions, Live

\* An outgoing packet that is translated opens a session.
LEMMA SnatImplements ==
    ASSUME TypeOK, NEW h \in Host, NEW k \in Key, Snat(h, k)
    PROVE  Promise!Other \/ Promise!Open(h, k)
<1>1. CASE known[k[1]] \in {"unknown", "unplugged"}
  BY <1>1 DEF Snat, Promise!Other, Sessions, Live
<1>2. CASE known[k[1]] \notin {"unknown", "unplugged"}
  <2>1. Recorded(h, k) /\ heard' = None
    BY <1>2 DEF Snat
  <2>2. \A j \in Key \ {k} : Sessions'[j] = Sessions[j]
    BY <2>1, SameSession DEF Recorded, TypeOK
  <2>3. icmp_map'[k] = h /\ left'[k] = Timeout
    BY <2>1 DEF Recorded, TypeOK
  <2>4. Sessions'[k] = <<h, Timeout>>
    BY <2>3, NatAssumption DEF Sessions, Live
  <2>5. Sessions' = [Sessions EXCEPT ![k] = <<h, Timeout>>]
    BY <2>2, <2>4 DEF Sessions
  <2> QED BY <2>1, <2>5 DEF Promise!Open
<1> QED BY <1>1, <1>2

\* An incoming packet ends the session it finds.
LEMMA DnatImplements ==
    ASSUME TypeOK, NEW p \in Packet, Dnat(p)
    PROVE  Promise!Other \/ Promise!Answer(p.key)
<1> DEFINE k == p.key
<1>1. k \in Key
  BY DEF Packet
<1>2. CASE Live(k) = None
  <2>1. \A j \in Key : Sessions'[j] = Sessions[j]
    BY <1>2, SameSession DEF Dnat
  <2>2. Sessions' = Sessions
    BY <2>1 DEF Sessions
  <2> QED BY <1>2, <2>2 DEF Dnat, Promise!Other
<1>3. CASE Live(k) # None
  <2>1. Removed(k) /\ heard' \in {None, <<Live(k), k>>}
    BY <1>3 DEF Dnat
  <2>2. \A j \in Key \ {k} : Sessions'[j] = Sessions[j]
    BY <2>1, SameSession DEF Removed, TypeOK
  <2>3. Sessions'[k] = None
    BY <1>1, <2>1 DEF Removed, Sessions, Live, TypeOK
  <2>4. Sessions' = [Sessions EXCEPT ![k] = None]
    BY <1>1, <2>2, <2>3 DEF Sessions
  <2>5. Sessions[k] # None /\ Sessions[k][1] = Live(k)
    BY <1>1, <1>3, SessionOf
  <2> QED BY <2>1, <2>4, <2>5 DEF Promise!Answer
<1> QED BY <1>2, <1>3

\* A second takes one from every session.
LEMMA TickImplements ==
    ASSUME TypeOK, Tick
    PROVE  Promise!Tick
<1>1. ASSUME NEW k \in Key
      PROVE  Sessions'[k] = IF Sessions[k] = None \/ Sessions[k][2] = 1 THEN None
                            ELSE <<Sessions[k][1], Sessions[k][2] - 1>>
  <2>1. icmp_map'[k] = icmp_map[k] /\ left'[k] = IF left[k] = 0 THEN 0 ELSE left[k] - 1
    BY DEF Tick
  <2>2. CASE Live(k) = None
    BY <2>1, <2>2, SessionOf DEF Sessions, Live
  <2>3. CASE Live(k) # None
    <3>1. Live(k) = icmp_map[k] /\ left[k] \in 1..Timeout
      BY <2>3, LiveType
    <3>2. Sessions[k] = <<Live(k), left[k]>> /\ Sessions[k] # None
      BY <2>3, SessionOf
    <3>3. left'[k] = left[k] - 1 /\ (left'[k] = 0 <=> left[k] = 1)
      BY <2>1, <3>1, NatAssumption
    <3>4. Sessions'[k] = IF left'[k] = 0 THEN None ELSE <<icmp_map[k], left'[k]>>
      BY <2>1, <2>3, <3>1 DEF Sessions, Live
    <3> QED BY <3>1, <3>2, <3>3, <3>4
  <2> QED BY <2>2, <2>3
<1> QED BY <1>1 DEF Tick, Promise!Tick, Promise!Key, Key, Sessions

\* The gateway implements NatSessions, under the mapping in which an expired
\* entry is no session: however late the clean-up, an answer goes to the host
\* that sent last, once, and never after the timeout.
THEOREM NatIsExact == Spec => ImplementsSessions
<1>1. Init => Promise!Init
  BY DEF Init, Promise!Init, Promise!Key, Key, Sessions, Live
<1>2. TypeOK /\ [Next]_vars => [Promise!Next]_(Promise!vars)
  <2> SUFFICES ASSUME TypeOK, [Next]_vars PROVE Promise!Next \/ UNCHANGED Promise!vars
    OBVIOUS
  <2>1. ASSUME NEW h \in Host, NEW k \in Key, Snat(h, k) PROVE Promise!Next
    BY <2>1, SnatImplements DEF Promise!Next, Promise!Key, Key
  <2>2. ASSUME NEW p \in Packet, Dnat(p) PROVE Promise!Next
    <3>1. p.key \in Key
      BY DEF Packet
    <3> QED BY <2>2, <3>1, DnatImplements DEF Promise!Next, Promise!Key, Key
  <2>3. ASSUME UNCHANGED <<icmp_map, left>> PROVE Sessions' = Sessions
    BY <2>3 DEF Sessions, Live
  <2>4. ASSUME NEW p \in Packet, RemoteSends(p) \/ Lose(p) PROVE Promise!Next
    BY <2>3, <2>4 DEF RemoteSends, Lose, Promise!Next, Promise!Other
  <2>5. ASSUME NEW a \in Host \cup Remote, NEW what \in Knowledge, Learn(a, what)
        PROVE  Promise!Next
    BY <2>3, <2>5 DEF Learn, Promise!Next, Promise!Other
  <2>6. CASE Tick
    BY <2>6, TickImplements DEF Promise!Next
  <2>7. CASE UNCHANGED vars
    BY <2>3, <2>7 DEF vars, Promise!vars
  <2> QED BY <2>1, <2>2, <2>4, <2>5, <2>6, <2>7 DEF Next
<1> QED BY <1>1, <1>2, TypeCorrect, PTL DEF Spec, ImplementsSessions, Promise!Spec

=============================================================================
