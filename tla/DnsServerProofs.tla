--------------------------- MODULE DnsServerProofs ---------------------------
(***************************************************************************)
(* Proofs about DnsServer: its types, that exactly the malformed queries   *)
(* are refused, that the answers follow the tables, and that every step    *)
(* brings the handler nearer to its end.                                   *)
(***************************************************************************)
EXTENDS DnsServer, TLAPS, FiniteSetTheorems, SequenceTheorems, WellFoundedInduction

-----------------------------------------------------------------------------
(***************************************************************************)
(* Recursive definitions.  A definition by recursion on the numbers up to  *)
(* n is given by its value at 0 and by a step, a function of values.       *)
(***************************************************************************)

\* Induction on the numbers up to n, for a set.
LEMMA InductionUpTo ==
    ASSUME NEW n \in Nat, NEW Good, 0 \in Good,
           \A m \in 1..n : m - 1 \in Good => m \in Good
    PROVE  \A m \in 0..n : m \in Good
<1> DEFINE Bad == {m \in 0..n : m \notin Good}
<1>1. SUFFICES ASSUME Bad # {} PROVE FALSE
  OBVIOUS
<1>2. Bad \in SUBSET Nat
  OBVIOUS
<1>3. IsWellFoundedOn(OpToRel(<, Nat), Nat)
  BY NatLessThanWellFounded
<1>4. PICK m \in Bad : \A k \in Bad : <<k, m>> \notin OpToRel(<, Nat)
  <2> HIDE DEF Bad
  <2> QED BY <1>1, <1>2, <1>3, WFMin
<1>5. \A k \in Bad : ~(k < m)
  BY <1>2, <1>4 DEF OpToRel
<1>6. m # 0 /\ m \in 1..n
  OBVIOUS
<1>7. m - 1 \in Good
  BY <1>5, <1>6
<1> QED BY <1>6, <1>7

\* f is what the recursion defines up to m.
Follows(f, m, base, step) ==
    f[0] = base /\ \A i \in 1..m : f[i] = step[i][f[i - 1]]

\* Whatever satisfies the recursion up to n agrees with f there.
Determines(f, n, V, base, step) ==
    \A g : (g[0] = base /\ \A i \in 1..n : g[i - 1] \in V => g[i] = step[i][g[i - 1]])
              => \A i \in 0..n : g[i] = f[i]

\* There is a function as the recursion demands.
LEMMA RecursionExists ==
    ASSUME NEW V, NEW base \in V, NEW n \in Nat, NEW step \in [1..n -> [V -> V]]
    PROVE  \E f \in [0..n -> V] : Follows(f, n, base, step)
<1> DEFINE Good == {m \in 0..n : \E f \in [0..m -> V] : Follows(f, m, base, step)}
<1>1. 0 \in Good
  <2>1. [i \in 0..0 |-> base] \in [0..0 -> V]
    OBVIOUS
  <2>2. Follows([i \in 0..0 |-> base], 0, base, step)
    BY DEF Follows
  <2> QED BY <2>1, <2>2
<1>2. ASSUME NEW m \in 1..n, m - 1 \in Good PROVE m \in Good
  <2>1. PICK f \in [0..(m - 1) -> V] : Follows(f, m - 1, base, step)
    BY <1>2
  <2> DEFINE g == [i \in 0..m |-> IF i = m THEN step[m][f[m - 1]] ELSE f[i]]
  <2>2. g \in [0..m -> V]
    <3>1. step[m] \in [V -> V] /\ f[m - 1] \in V
      BY <2>1
    <3>2. step[m][f[m - 1]] \in V
      BY <3>1
    <3> QED BY <2>1, <3>2
  <2>3. Follows(g, m, base, step)
    BY <2>1 DEF Follows
  <2> QED BY <2>2, <2>3
<1>3. \A m \in 0..n : m \in Good
  <2> HIDE DEF Good
  <2> QED BY <1>1, <1>2, InductionUpTo
<1> QED BY <1>3

\* There is only one, whatever it is like outside the numbers up to n.
LEMMA RecursionIsUnique ==
    ASSUME NEW V, NEW base \in V, NEW n \in Nat, NEW step \in [1..n -> [V -> V]],
           NEW f \in [0..n -> V], Follows(f, n, base, step),
           NEW g, g[0] = base,
           \A i \in 1..n : g[i - 1] \in V => g[i] = step[i][g[i - 1]]
    PROVE  \A i \in 0..n : g[i] = f[i]
<1> DEFINE Good == {m \in 0..n : g[m] = f[m]}
<1>1. 0 \in Good
  BY DEF Follows
<1>2. ASSUME NEW m \in 1..n, m - 1 \in Good PROVE m \in Good
  <2>1. g[m - 1] = f[m - 1] /\ f[m - 1] \in V
    BY <1>2
  <2>2. g[m] = step[m][g[m - 1]]
    BY <2>1
  <2>3. f[m] = step[m][f[m - 1]]
    BY DEF Follows
  <2> QED BY <2>1, <2>2, <2>3
<1>3. \A m \in 0..n : m \in Good
  <2> HIDE DEF Good
  <2> QED BY <1>1, <1>2, InductionUpTo
<1> QED BY <1>3

\* Both in one: what a definition by recursion defines.
LEMMA RecursionDefines ==
    ASSUME NEW V, NEW base \in V, NEW n \in Nat, NEW step \in [1..n -> [V -> V]]
    PROVE  \E f \in [0..n -> V] :
              Follows(f, n, base, step) /\ Determines(f, n, V, base, step)
<1>1. PICK f \in [0..n -> V] : Follows(f, n, base, step)
  BY RecursionExists
<1>2. ASSUME NEW g, g[0] = base, \A i \in 1..n : g[i - 1] \in V => g[i] = step[i][g[i - 1]]
      PROVE  \A i \in 0..n : g[i] = f[i]
  BY <1>1, <1>2, RecursionIsUnique
<1> QED BY <1>1, <1>2 DEF Determines

-----------------------------------------------------------------------------
(***************************************************************************)
(* Labels.                                                                 *)
(***************************************************************************)

\* The labels of a name.
Name == Seq(Seq(Byte))

\* A text and a label make a text.
LEMMA JoinedIsText ==
    ASSUME NEW s \in Text, NEW label \in Seq(Byte)
    PROVE  Joined(s, label) \in Text
<1>1. <<Dot>> \in Seq(Byte)
  BY DEF Dot, Byte
<1>2. s \o <<Dot>> \o label \in Seq(Byte)
  BY <1>1 DEF Text
<1> QED BY <1>2, Zenon DEF Joined, Text

\* A label of bytes keeps its ASCII bytes, and all of them if all are.
LEMMA AsciiOfLabel ==
    ASSUME NEW label \in Seq(Byte)
    PROVE  /\ Ascii(label) \in Seq(Byte)
           /\ (\A j \in 1..Len(label) : label[j] < 128) => Ascii(label) = label
<1> DEFINE n == Len(label)
           V == Seq(Byte)
           step == [i \in 1..n |-> [v \in V |-> IF label[i] < 128 THEN Append(v, label[i]) ELSE v]]
           kept == CHOOSE h : h = [i \in 0..Len(label) |->
                      IF i = 0 THEN <<>>
                      ELSE IF label[i] < 128 THEN Append(h[i - 1], label[i]) ELSE h[i - 1]]
<1>1. n \in Nat /\ \A i \in 1..n : label[i] \in Byte
  OBVIOUS
<1>2. step \in [1..n -> [V -> V]] /\ <<>> \in V
  BY <1>1
<1>3. PICK f \in [0..n -> V] :
         Follows(f, n, <<>>, step) /\ Determines(f, n, V, <<>>, step)
  <2> HIDE DEF step, V, n, kept
  <2> QED BY <1>1, <1>2, RecursionDefines, Zenon
<1>4. \A i \in 1..n : f[i] = IF label[i] < 128 THEN Append(f[i - 1], label[i]) ELSE f[i - 1]
  <2> TAKE i \in 1..n
  <2>1. f[i - 1] \in V
    BY <1>1
  <2> QED BY <1>3, <2>1 DEF Follows
<1>5. f = [i \in 0..n |-> IF i = 0 THEN <<>>
                          ELSE IF label[i] < 128 THEN Append(f[i - 1], label[i]) ELSE f[i - 1]]
  <2>1. \A i \in 0..n : f[i] = IF i = 0 THEN <<>>
                          ELSE IF label[i] < 128 THEN Append(f[i - 1], label[i]) ELSE f[i - 1]
    <3>1. f[0] = <<>>
      BY <1>3 DEF Follows
    <3>2. ASSUME NEW i \in 0..n, i # 0
          PROVE  f[i] = IF label[i] < 128 THEN Append(f[i - 1], label[i]) ELSE f[i - 1]
      <4>1. i \in 1..n
        BY <1>1, <3>2
      <4> QED BY <1>4, <4>1, Zenon
    <3> QED BY <3>1, <3>2, Zenon
  <2>2. f = [i \in 0..n |-> f[i]]
    BY <1>3
  <2> QED BY <2>1, <2>2, Zenon
<1>6. kept = [i \in 0..n |-> IF i = 0 THEN <<>>
                 ELSE IF label[i] < 128 THEN Append(kept[i - 1], label[i]) ELSE kept[i - 1]]
  BY <1>5
<1>7. Ascii(label) = kept[Len(label)]
  BY Zenon DEF Ascii
<1> HIDE DEF kept
<1>8. kept[0] = <<>> /\ \A i \in 1..n : kept[i - 1] \in V => kept[i] = step[i][kept[i - 1]]
  <2>1. \A i \in 0..n : kept[i] = IF i = 0 THEN <<>>
                 ELSE IF label[i] < 128 THEN Append(kept[i - 1], label[i]) ELSE kept[i - 1]
    BY <1>6, Zenon
  <2>2. ASSUME NEW i \in 1..n, kept[i - 1] \in V
        PROVE  kept[i] = step[i][kept[i - 1]]
    <3>1. kept[i] = IF label[i] < 128 THEN Append(kept[i - 1], label[i]) ELSE kept[i - 1]
      BY <1>1, <2>1
    <3> QED BY <2>2, <3>1
  <2> QED BY <1>1, <2>1, <2>2
<1>9. \A i \in 0..n : kept[i] = f[i]
  <2> HIDE DEF step, V, n
  <2> QED BY <1>3, <1>8 DEF Determines
<1>10. Ascii(label) = f[n]
  BY <1>1, <1>7, <1>9
<1>11. ASSUME \A j \in 1..n : label[j] < 128
       PROVE  f[n] = label
  <2> DEFINE Good == {m \in 0..n : f[m] = SubSeq(label, 1, m)}
  <2>1. \A m \in 0..n : m \in Good
    <3> HIDE DEF step, V
    <3>1. 0 \in Good
      <4>1. f[0] = <<>> /\ SubSeq(label, 1, 0) = <<>> /\ 0 \in 0..n
        BY <1>1, <1>3, SubSeqEmpty DEF Follows
      <4> QED BY <4>1, Zenon
    <3>2. ASSUME NEW m \in 1..n, m - 1 \in Good PROVE m \in Good
      <4>1. f[m] = Append(SubSeq(label, 1, m - 1), label[m])
        BY <1>1, <1>4, <1>11, <3>2
      <4>2. Append(SubSeq(label, 1, m - 1), label[m]) = SubSeq(label, 1, m)
        BY <1>1
      <4>3. m \in 0..n
        BY <1>1
      <4> QED BY <4>1, <4>2, <4>3, Zenon
    <3> HIDE DEF Good
    <3> QED BY <1>1, <3>1, <3>2, InductionUpTo
  <2>2. f[n] = SubSeq(label, 1, n)
    BY <1>1, <2>1
  <2> QED BY <2>2, SubSeqFull
<1> QED BY <1>1, <1>10, <1>11

-----------------------------------------------------------------------------
(***************************************************************************)
(* Types.                                                                  *)
(***************************************************************************)

Offset == Nat \cup {None}

\* The bytes of the payload.
LEMMA AtByte ==
    ASSUME data \in Seq(Byte), NEW o \in Nat, o < Len(data)
    PROVE  At(o) \in Byte /\ At(o) \in Nat /\ At(o) < 256
<1>1. o + 1 \in 1..Len(data)
  OBVIOUS
<1>2. data[o + 1] \in Byte
  BY <1>1
<1>3. At(o) \in Byte
  BY <1>2 DEF At
<1>4. \A b \in Byte : b \in Nat /\ b < 256
  BY DEF Byte
<1> QED BY <1>3, <1>4

LEMMA PointerTop ==
    ASSUME NEW length \in Byte
    PROVE  IsPointer(length) <=> length \div 64 = 3
  BY DEF Byte, IsPointer

LEMMA PointedOffset ==
    ASSUME NEW length \in Byte, NEW b \in Byte
    PROVE  (length % 64) * 256 + b \in Nat
  BY DEF Byte

\* Where the end of the name in the question is known, it is a number.
EndOK == pc = "question" => end \in Nat

Inv == TypeOK /\ EndOK

LEMMA ReplyStep ==
    ASSUME Inv, NEW rcode \in {0, 1, 3, 4}, NEW question, NEW records,
           Reply(rcode, question, records)
    PROVE  Inv'
  BY DEF Inv, TypeOK, EndOK, Reply

LEMMA ParseHeaderStep ==
    ASSUME Inv, ParseHeader
    PROVE  Inv'
<1>1. CASE FormErr
  BY <1>1, ReplyStep DEF FormErr
<1>2. CASE ~FormErr
  BY <1>2 DEF ParseHeader, Inv, TypeOK, EndOK
<1> QED BY <1>1, <1>2

LEMMA DecodeNameStep ==
    ASSUME Inv, DecodeName
    PROVE  Inv'
<1>1. CASE FormErr
  BY <1>1, ReplyStep DEF FormErr
<1>2. CASE ~FormErr
  <2>1. /\ offset < Len(data) /\ offset \in Nat /\ Len(data) \in Nat
        /\ data \in Seq(Byte) /\ data' = data
    BY <1>2 DEF DecodeName, Inv, TypeOK
  <2>2. At(offset) \in Byte /\ At(offset) \in Nat
    BY <2>1, AtByte
  <2>3. CASE At(offset) = 0
    BY <1>2, <2>1, <2>3 DEF DecodeName, EndAt, Inv, TypeOK, EndOK
  <2>4. CASE At(offset) # 0 /\ IsPointer(At(offset))
    <3>1. /\ offset + 1 < Len(data) /\ ~TooDeep(Deeper)
          /\ offset' = (At(offset) % 64) * 256 + At(offset + 1)
          /\ depth' = Deeper /\ end' = EndAt(offset + 2)
          /\ UNCHANGED <<data, pc, name, reply>>
      BY <1>2, <2>1, <2>4 DEF DecodeName, Inv, TypeOK
    <3>2. At(offset + 1) \in Byte
      BY <2>1, <3>1, AtByte
    <3>3. offset' \in Nat
      BY <2>2, <3>1, <3>2, PointedOffset
    <3> QED BY <2>1, <3>1, <3>3, DnsAssumption, <2>4, <1>2
            DEF DecodeName, EndAt, Deeper, TooDeep, Inv, TypeOK, EndOK
  <2>5. CASE At(offset) # 0 /\ ~IsPointer(At(offset))
    <3> DEFINE label == SubSeq(data, offset + 2, offset + 1 + At(offset))
    <3>0. ~(offset >= Len(data))
      BY <2>1
    <3>1. /\ ~(offset + 1 + At(offset) > Len(data))
          /\ name' = Joined(name, Ascii(label))
          /\ offset' = offset + 1 + At(offset)
          /\ UNCHANGED <<data, pc, depth, end, reply>>
          /\ pc = "name"
      BY <1>2, <3>0, <2>5, Zenon DEF DecodeName
    <3>2. label \in Seq(Byte)
      <4>1. \A i \in (offset + 2)..(offset + 1 + At(offset)) : data[i] \in Byte
        BY <2>1, <2>2, <3>1
      <4> QED BY <2>1, <2>2, <4>1, SubSeqProperties
    <3>3. Ascii(label) \in Seq(Byte)
      BY <3>2, AsciiOfLabel
    <3>4. name' \in Text
      <4>1. name \in Text
        BY DEF Inv, TypeOK
      <4> QED BY <3>1, <3>3, <4>1, JoinedIsText, Zenon
    <3>5. offset' \in Nat
      BY <2>1, <2>2, <3>1
    <3> HIDE DEF label
    <3> QED BY <3>1, <3>4, <3>5 DEF Inv, TypeOK, EndOK
  <2> QED BY <2>3, <2>4, <2>5
<1> QED BY <1>1, <1>2

LEMMA AnswerStep ==
    ASSUME Inv, Answer
    PROVE  Inv'
<1>1. PICK rcode \in {0, 1, 3, 4} : \E question, records : Reply(rcode, question, records)
  BY DEF Answer, FormErr
<1>2. PICK question, records : Reply(rcode, question, records)
  BY <1>1, Zenon
<1> QED BY <1>2, ReplyStep

LEMMA Invariance == Spec => []Inv
<1>1. Init => Inv
  BY DnsAssumption DEF Init, Inv, TypeOK, EndOK, Text
<1>2. Inv /\ [Next]_vars => Inv'
  <2> SUFFICES ASSUME Inv, [Next]_vars PROVE Inv'
    OBVIOUS
  <2>1. CASE UNCHANGED vars
    BY <2>1 DEF vars, Inv, TypeOK, EndOK
  <2> QED BY <2>1, ParseHeaderStep, DecodeNameStep, AnswerStep DEF Next
<1> QED BY <1>1, <1>2, PTL DEF Spec

\* Whatever the payload, the handler stays within its types: in particular it
\* never follows more than MaxDepth pointers.
THEOREM TypeCorrect == Spec => []TypeOK
<1>1. Inv => TypeOK
  BY DEF Inv
<1> QED BY <1>1, Invariance, PTL

-----------------------------------------------------------------------------
(***************************************************************************)
(* The trail of a name: the offsets at which its parts stand, up to the    *)
(* present one.                                                            *)
(***************************************************************************)

\* Trail p leads from the start of the question to place k over labels and
\* pointers.
OnTrail(p, k) ==
    /\ p \in [0..k -> Nat] /\ p[0] = 12
    /\ \A i \in 1..k : p[i] = Following(p[i - 1])
    /\ \A i \in 0..(k - 1) : p[i] < Len(data) /\ At(p[i]) # 0

\* There is a zero at offset o.
ZeroAt(o) == o < Len(data) /\ At(o) = 0

\* A pointer on the way to place k, and its first one.
FirstPointer(p, k, j) ==
    j \in PointersBefore(p, k) /\ \A i \in PointersBefore(p, k) : j <= i

\* The name with its zero at place k ends before offset e.
EndsBefore(p, k, e) ==
    IF PointersBefore(p, k) = {} THEN e = p[k] + 1
    ELSE \E j \in 0..(k - 1) : FirstPointer(p, k, j) /\ e = p[j] + 2

\* The name cannot be read beyond place k, or lacks its type and class.
BreaksAt(p, k) ==
    \/ Following(p[k]) = None /\ ~ZeroAt(p[k])
    \/ /\ p[k] < Len(data) /\ At(p[k]) \div 64 = 3
       /\ Cardinality(PointersBefore(p, k)) >= MaxDepth
    \/ /\ ZeroAt(p[k])
       /\ \E e \in Nat : EndsBefore(p, k, e) /\ e + 4 > Len(data)

\* The name is whole, and so is the question.
WholeAt(p, k) ==
    /\ ZeroAt(p[k])
    /\ Cardinality(PointersBefore(p, k)) <= MaxDepth
    /\ \E e \in Nat : EndsBefore(p, k, e) /\ e + 4 <= Len(data)

\* The pointers before place k are finitely many, and depend only on the trail
\* before k.
LEMMA PointersFinite ==
    ASSUME NEW k \in Nat, NEW p
    PROVE  /\ IsFiniteSet(PointersBefore(p, k))
           /\ PointersBefore(p, k) \subseteq 0..(k - 1)
           /\ PointersBefore(p, k) \subseteq Nat
           /\ Cardinality(PointersBefore(p, k)) \in Nat
<1>1. PointersBefore(p, k) \subseteq 0..(k - 1) /\ PointersBefore(p, k) \subseteq Nat
  BY DEF PointersBefore
<1>2. IsFiniteSet(0..(k - 1))
  BY FS_Interval
<1> QED BY <1>1, <1>2, FS_Subset, FS_CardinalityType

LEMMA PointersAgree ==
    ASSUME NEW k \in Nat, NEW p, NEW t, \A i \in 0..(k - 1) : p[i] = t[i]
    PROVE  PointersBefore(p, k) = PointersBefore(t, k)
  BY DEF PointersBefore

LEMMA PointersGrow ==
    ASSUME NEW k \in Nat, NEW p
    PROVE  PointersBefore(p, k + 1) =
              IF At(p[k]) \div 64 = 3 THEN PointersBefore(p, k) \cup {k} ELSE PointersBefore(p, k)
<1>1. 0..k = 0..(k - 1) \cup {k} /\ k + 1 - 1 = k
  OBVIOUS
<1> QED BY <1>1 DEF PointersBefore

\* What EndsBefore says is what the reference definition computes.
LEMMA EndsBeforeIsAfterName ==
    ASSUME NEW k \in Nat, NEW p, NEW e, EndsBefore(p, k, e)
    PROVE  AfterName(p, k) = e
<1>1. CASE PointersBefore(p, k) = {}
  BY <1>1 DEF EndsBefore, AfterName
<1>2. CASE PointersBefore(p, k) # {}
  <2>1. PICK j \in 0..(k - 1) : FirstPointer(p, k, j) /\ e = p[j] + 2
    BY <1>2 DEF EndsBefore
  <2>2. \A i \in PointersBefore(p, k) :
           (\A l \in PointersBefore(p, k) : i <= l) => i = j
    <3>1. PointersBefore(p, k) \subseteq Nat
      BY PointersFinite
    <3> QED BY <2>1, <3>1 DEF FirstPointer
  <2>3. (CHOOSE i \in PointersBefore(p, k) : \A l \in PointersBefore(p, k) : i <= l) = j
    BY <2>1, <2>2, Zenon DEF FirstPointer
  <2> QED BY <1>2, <2>1, <2>3, Zenon DEF AfterName
<1> QED BY <1>1, <1>2

\* The offset that follows one in the payload.
LEMMA FollowingType ==
    ASSUME data \in Seq(Byte), NEW o \in Offset
    PROVE  Following(o) \in Offset /\ (o = None => Following(o) = None)
<1>1. CASE o = None \/ o >= Len(data)
  BY <1>1 DEF Following, Offset
<1>2. CASE o # None /\ ~(o >= Len(data))
  <2>1. o \in Nat /\ o < Len(data)
    BY <1>2 DEF Offset
  <2>2. At(o) \in Byte /\ At(o) \in Nat
    BY <2>1, AtByte
  <2>3. CASE At(o) \div 64 = 3 /\ o + 1 < Len(data)
    <3>1. At(o + 1) \in Byte
      BY <2>1, <2>3, AtByte
    <3>2. (At(o) % 64) * 256 + At(o + 1) \in Nat
      BY <2>2, <3>1, PointedOffset
    <3> QED BY <1>2, <2>3, <3>2, Zenon DEF Following, Offset
  <2>4. CASE ~(At(o) \div 64 = 3 /\ o + 1 < Len(data))
    BY <1>2, <2>1, <2>2, <2>4 DEF Following, Offset
  <2> QED BY <2>3, <2>4
<1> QED BY <1>1, <1>2

-----------------------------------------------------------------------------
(***************************************************************************)
(* The reference trail of Readable, and what it says of the one walked.    *)
(***************************************************************************)

\* t is the trail of Readable.
Reference(t) ==
    /\ t \in [0..Len(data) -> Offset] /\ t[0] = 12
    /\ \A i \in 1..Len(data) : t[i] = Following(t[i - 1])

\* What Readable says of its trail.
ReadableOn(t) ==
    \E k \in 0..Len(data) :
        /\ EndsAt(t, k) /\ \A j \in 0..(k - 1) : ~EndsAt(t, j)
        /\ Cardinality(PointersBefore(t, k)) <= MaxDepth
        /\ AfterName(t, k) + 4 <= Len(data)

LEMMA ReadableMeans ==
    ASSUME data \in Seq(Byte)
    PROVE  \E t : Reference(t) /\ (Readable <=> ReadableOn(t))
<1> DEFINE n == Len(data)
           step == [i \in 1..n |-> [v \in Offset |-> Following(v)]]
           trail == CHOOSE h : h = [i \in 0..Len(data) |->
                        IF i = 0 THEN 12 ELSE Following(h[i - 1])]
<1>1. n \in Nat
  OBVIOUS
<1>2. step \in [1..n -> [Offset -> Offset]] /\ 12 \in Offset
  BY FollowingType DEF Offset
<1>3. PICK f \in [0..n -> Offset] :
         Follows(f, n, 12, step) /\ Determines(f, n, Offset, 12, step)
  <2> HIDE DEF step, n, trail
  <2> QED BY <1>1, <1>2, RecursionDefines, Zenon
<1>4. \A i \in 1..n : f[i] = Following(f[i - 1])
  <2> TAKE i \in 1..n
  <2>1. f[i - 1] \in Offset
    BY <1>1
  <2> QED BY <1>3, <2>1 DEF Follows
<1>5. f = [i \in 0..n |-> IF i = 0 THEN 12 ELSE Following(f[i - 1])]
  <2>1. ASSUME NEW i \in 0..n, i # 0
        PROVE  f[i] = Following(f[i - 1])
    <3>1. i \in 1..n
      BY <1>1, <2>1
    <3> QED BY <1>4, <3>1, Zenon
  <2>2. f[0] = 12
    BY <1>3 DEF Follows
  <2>3. f = [i \in 0..n |-> f[i]]
    BY <1>3
  <2>4. \A i \in 0..n : f[i] = IF i = 0 THEN 12 ELSE Following(f[i - 1])
    BY <2>1, <2>2, Zenon
  <2> QED BY <2>3, <2>4, Zenon
<1>6. trail = [i \in 0..n |-> IF i = 0 THEN 12 ELSE Following(trail[i - 1])]
  BY <1>5
<1>7. Readable <=> ReadableOn(trail)
  BY Zenon DEF Readable, ReadableOn
<1> HIDE DEF trail
<1>8. trail[0] = 12 /\ \A i \in 1..n : trail[i] = Following(trail[i - 1])
  <2>1. \A i \in 0..n : trail[i] = IF i = 0 THEN 12 ELSE Following(trail[i - 1])
    BY <1>6, Zenon
  <2> QED BY <1>1, <2>1
<1>9. \A i \in 0..n : trail[i] = f[i]
  <2>1. trail[0] = 12 /\ \A i \in 1..n : trail[i - 1] \in Offset => trail[i] = step[i][trail[i - 1]]
    BY <1>8
  <2> HIDE DEF step, n
  <2> QED BY <1>3, <2>1 DEF Determines
<1>10. trail \in [0..n -> Offset]
  BY <1>6, <1>9
<1> QED BY <1>7, <1>8, <1>10 DEF Reference

\* The trail walked and the reference are one, as far as both go.
LEMMA TrailsAgree ==
    ASSUME NEW k \in Nat, NEW p, OnTrail(p, k), NEW t, Reference(t),
           NEW m \in Nat, m <= k, m <= Len(data), Len(data) \in Nat
    PROVE  \A i \in 0..m : p[i] = t[i]
<1> DEFINE Good == {i \in 0..m : p[i] = t[i]}
<1>1. 0 \in Good
  BY DEF OnTrail, Reference
<1>2. ASSUME NEW i \in 1..m, i - 1 \in Good PROVE i \in Good
  <2>1. i \in 1..k /\ i \in 1..Len(data) /\ i \in 0..m
    OBVIOUS
  <2>2. p[i] = Following(p[i - 1]) /\ t[i] = Following(t[i - 1])
    BY <2>1 DEF OnTrail, Reference
  <2>3. p[i - 1] = t[i - 1]
    BY <1>2
  <2> QED BY <2>1, <2>2, <2>3
<1>3. \A i \in 0..m : i \in Good
  <2> HIDE DEF Good
  <2> QED BY <1>1, <1>2, InductionUpTo
<1> QED BY <1>3

\* Where the reference breaks off, it stays so.
LEMMA BrokenStays ==
    ASSUME data \in Seq(Byte), NEW t, Reference(t),
           NEW m \in 0..Len(data), t[m] = None, NEW l \in m..Len(data)
    PROVE  t[l] = None
<1> DEFINE Good == {d \in 0..(l - m) : t[m + d] = None}
<1>0. Len(data) \in Nat /\ m \in Nat /\ l \in Nat /\ l - m \in Nat
  OBVIOUS
<1>1. 0 \in Good
  BY <1>0
<1>2. ASSUME NEW d \in 1..(l - m), d - 1 \in Good PROVE d \in Good
  <2>1. m + d \in 1..Len(data) /\ m + d - 1 = m + (d - 1)
    BY <1>0
  <2>2. t[m + d] = Following(t[m + d - 1])
    BY <2>1 DEF Reference
  <2>3. t[m + (d - 1)] = None
    BY <1>2
  <2>4. Following(None) = None
    BY FollowingType DEF Offset
  <2> QED BY <1>0, <2>1, <2>2, <2>3, <2>4
<1>3. \A d \in 0..(l - m) : d \in Good
  <2> HIDE DEF Good
  <2> QED BY <1>0, <1>1, <1>2, InductionUpTo
<1>4. l - m \in 0..(l - m) /\ m + (l - m) = l
  BY <1>0
<1> QED BY <1>3, <1>4, SMTT(30)

\* A trail that comes to a zero passes no offset twice, for it would go in
\* circles; so it is no longer than the payload.
LEMMA TrailIsShort ==
    ASSUME data \in Seq(Byte), NEW k \in Nat, NEW p, OnTrail(p, k), ZeroAt(p[k])
    PROVE  k < Len(data)
<1> DEFINE n == Len(data)
<1>1. n \in Nat
  OBVIOUS
<1>2. p \in [0..k -> 0..(n - 1)]
  <2>1. ASSUME NEW i \in 0..k PROVE p[i] \in Nat /\ p[i] < n
    <3>1. CASE i = k
      BY <3>1 DEF OnTrail, ZeroAt
    <3>2. CASE i # k
      <4>1. i \in 0..(k - 1)
        BY <3>2
      <4> QED BY <4>1 DEF OnTrail
    <3> QED BY <3>1, <3>2
  <2>2. \A i \in 0..k : p[i] \in 0..(n - 1)
    BY <1>1, <2>1
  <2>3. p \in [0..k -> Nat]
    BY DEF OnTrail
  <2> QED BY <2>2, <2>3
<1>3. ASSUME NEW i \in 0..k, NEW j \in 0..k, i < j, p[i] = p[j] PROVE FALSE
  <2> DEFINE Good == {d \in 0..(k - j) : p[i + d] = p[j + d]}
  <2>1. 0 \in Good /\ k - j \in Nat
    BY <1>3
  <2>2. ASSUME NEW d \in 1..(k - j), d - 1 \in Good PROVE d \in Good
    <3>1. /\ i + d \in 1..k /\ i + d - 1 = i + (d - 1)
          /\ j + d \in 1..k /\ j + d - 1 = j + (d - 1)
      BY <1>3
    <3>2. p[i + d] = Following(p[i + (d - 1)]) /\ p[j + d] = Following(p[j + (d - 1)])
      BY <3>1 DEF OnTrail
    <3>3. p[i + (d - 1)] = p[j + (d - 1)]
      BY <2>2
    <3>4. d \in 0..(k - j)
      BY <2>1
    <3> QED BY <3>2, <3>3, <3>4
  <2>3. \A d \in 0..(k - j) : d \in Good
    <3> HIDE DEF Good
    <3> QED BY <2>1, <2>2, InductionUpTo
  <2>4. k - j \in 0..(k - j) /\ i + (k - j) \in 0..(k - 1) /\ j + (k - j) = k
    BY <1>3, <2>1
  <2>5. p[i + (k - j)] = p[k]
    BY <2>3, <2>4
  <2> QED BY <2>4, <2>5 DEF OnTrail, ZeroAt
<1>4. SUFFICES ASSUME n <= k PROVE FALSE
  BY <1>1
<1>5. /\ IsFiniteSet(0..k) /\ Cardinality(0..k) = k + 1
      /\ IsFiniteSet(0..(n - 1)) /\ Cardinality(0..(n - 1)) = n
  <2>1. 0 \in Int /\ k \in Int /\ n - 1 \in Int
    BY <1>1
  <2>2. /\ IsFiniteSet(0..k)
        /\ Cardinality(0..k) = IF 0 > k THEN 0 ELSE k - 0 + 1
    BY <2>1, FS_Interval, Zenon
  <2>3. /\ IsFiniteSet(0..(n - 1))
        /\ Cardinality(0..(n - 1)) = IF 0 > n - 1 THEN 0 ELSE n - 1 - 0 + 1
    <3> HIDE DEF n
    <3> QED BY <2>1, FS_Interval, Zenon
  <2>4. ~(0 > k) /\ k - 0 + 1 = k + 1 /\ (IF 0 > n - 1 THEN 0 ELSE n - 1 - 0 + 1) = n
    BY <1>1
  <2> QED BY <2>2, <2>3, <2>4, Zenon
<1>6. PICK i \in 0..k, j \in 0..k : i # j /\ p[i] = p[j]
  <2>1. Cardinality(0..(n - 1)) < Cardinality(0..k)
    BY <1>1, <1>4, <1>5
  <2> HIDE DEF n
  <2> QED BY <1>2, <1>5, <2>1, FS_PigeonHole, Zenon
<1>7. i < j \/ j < i
  BY <1>6
<1> QED BY <1>3, <1>6, <1>7

\* The reference has no end before the place that was walked to.
LEMMA NoEarlierEnd ==
    ASSUME data \in Seq(Byte), NEW k \in Nat, NEW p, OnTrail(p, k), NEW t, Reference(t),
           NEW m \in 0..Len(data), EndsAt(t, m)
    PROVE  k <= m /\ \A i \in 0..k : p[i] = t[i]
<1>1. Len(data) \in Nat /\ m \in Nat
  OBVIOUS
<1>2. k <= m
  <2>1. SUFFICES ASSUME m < k PROVE FALSE
    BY <1>1
  <2>2. p[m] = t[m]
    <3>1. m \in Nat /\ m <= k /\ m <= Len(data) /\ Len(data) \in Nat /\ m \in 0..m
      BY <1>1, <2>1
    <3>2. \A i \in 0..m : p[i] = t[i]
      BY <3>1, TrailsAgree
    <3> QED BY <3>1, <3>2
  <2>3. m \in 0..(k - 1)
    BY <1>1, <2>1
  <2> QED BY <2>2, <2>3 DEF OnTrail, EndsAt
<1>3. k <= Len(data)
  BY <1>1, <1>2
<1> QED BY <1>1, <1>2, <1>3, TrailsAgree

\* A name that breaks somewhere is not readable.
LEMMA BrokenIsUnreadable ==
    ASSUME data \in Seq(Byte), NEW k \in Nat, NEW p, OnTrail(p, k), BreaksAt(p, k),
           NEW t, Reference(t), ReadableOn(t)
    PROVE  FALSE
<1>0. Len(data) \in Nat
  OBVIOUS
<1>1. PICK m \in 0..Len(data) :
         /\ EndsAt(t, m) /\ \A j \in 0..(m - 1) : ~EndsAt(t, j)
         /\ Cardinality(PointersBefore(t, m)) <= MaxDepth
         /\ AfterName(t, m) + 4 <= Len(data)
  BY DEF ReadableOn
<1>2. k <= m /\ \A i \in 0..k : p[i] = t[i]
  BY <1>1, NoEarlierEnd
<1>3. k \in 0..Len(data) /\ t[k] = p[k] /\ m \in Nat
  BY <1>0, <1>2
<1>4. PointersBefore(p, k) = PointersBefore(t, k)
  <2>1. \A i \in 0..(k - 1) : p[i] = t[i]
    BY <1>2
  <2> QED BY <2>1, PointersAgree
<1>5. CASE Following(p[k]) = None /\ ~ZeroAt(p[k])
  <2>1. m # k
    BY <1>1, <1>3, <1>5 DEF EndsAt, ZeroAt
  <2>2. k + 1 \in 1..Len(data) /\ k + 1 - 1 = k /\ m \in (k + 1)..Len(data)
    BY <1>0, <1>2, <1>3, <2>1
  <2>3. t[k + 1] = None
    BY <1>3, <1>5, <2>2 DEF Reference
  <2>4. t[m] = None
    BY <2>2, <2>3, BrokenStays
  <2> QED BY <1>1, <2>4 DEF EndsAt
<1>6. CASE /\ p[k] < Len(data) /\ At(p[k]) \div 64 = 3
           /\ Cardinality(PointersBefore(p, k)) >= MaxDepth
  <2>1. m # k
    BY <1>1, <1>3, <1>6 DEF EndsAt
  <2>2. PointersBefore(t, k) \cup {k} \subseteq PointersBefore(t, m)
    <3>1. k \in 0..(m - 1) /\ 0..(k - 1) \subseteq 0..(m - 1)
      BY <1>2, <1>3, <2>1
    <3> QED BY <1>3, <1>6, <3>1 DEF PointersBefore
  <2>3. /\ IsFiniteSet(PointersBefore(t, k)) /\ k \notin PointersBefore(t, k)
        /\ Cardinality(PointersBefore(t, k)) \in Nat
    <3>1. k \notin 0..(k - 1)
      OBVIOUS
    <3> QED BY <3>1, PointersFinite
  <2>4. Cardinality(PointersBefore(t, k) \cup {k}) = Cardinality(PointersBefore(t, k)) + 1
    BY <2>3, FS_AddElement
  <2>5. IsFiniteSet(PointersBefore(t, m)) /\ Cardinality(PointersBefore(t, m)) \in Nat
    BY <1>3, PointersFinite
  <2>6. Cardinality(PointersBefore(t, k) \cup {k}) <= Cardinality(PointersBefore(t, m))
    BY <2>2, <2>5, FS_Subset
  <2>7. MaxDepth \in Nat
    BY DnsAssumption
  <2> QED BY <1>1, <1>4, <1>6, <2>3, <2>4, <2>5, <2>6, <2>7
<1>7. CASE /\ ZeroAt(p[k])
           /\ \E e \in Nat : EndsBefore(p, k, e) /\ e + 4 > Len(data)
  <2>1. EndsAt(t, k)
    <3>1. p[k] \in Nat /\ None \notin Nat
      BY DnsAssumption DEF OnTrail
    <3> QED BY <1>3, <1>7, <3>1 DEF EndsAt, ZeroAt
  <2>2. m = k
    <3>1. SUFFICES ASSUME m # k PROVE FALSE
      OBVIOUS
    <3>2. k \in 0..(m - 1)
      BY <1>2, <1>3, <3>1
    <3> QED BY <1>1, <2>1, <3>2
  <2>3. PICK e \in Nat : EndsBefore(p, k, e) /\ e + 4 > Len(data)
    BY <1>7
  <2>4. EndsBefore(t, k, e)
    BY <1>2, <1>3, <1>4, <2>3 DEF EndsBefore, FirstPointer
  <2>5. AfterName(t, m) = e
    BY <2>2, <2>4, EndsBeforeIsAfterName
  <2> QED BY <1>0, <1>1, <2>3, <2>5
<1> QED BY <1>5, <1>6, <1>7 DEF BreaksAt

\* A name that was read to its end is readable.
LEMMA WholeIsReadable ==
    ASSUME data \in Seq(Byte), NEW k \in Nat, NEW p, OnTrail(p, k), WholeAt(p, k),
           NEW t, Reference(t)
    PROVE  ReadableOn(t)
<1>0. Len(data) \in Nat /\ None \notin Nat
  BY DnsAssumption
<1>1. k < Len(data) /\ k \in 0..Len(data)
  BY <1>0, TrailIsShort DEF WholeAt
<1>2. \A i \in 0..k : p[i] = t[i]
  <2>1. k \in Nat /\ k <= k /\ k <= Len(data) /\ Len(data) \in Nat
    BY <1>0, <1>1
  <2> QED BY <2>1, TrailsAgree
<1>3. PointersBefore(p, k) = PointersBefore(t, k)
  <2>1. \A i \in 0..(k - 1) : p[i] = t[i]
    BY <1>2
  <2> QED BY <2>1, PointersAgree
<1>4. EndsAt(t, k)
  <2>1. p[k] = t[k] /\ p[k] \in Nat
    BY <1>2 DEF OnTrail
  <2> QED BY <1>0, <2>1 DEF EndsAt, WholeAt, ZeroAt
<1>5. ASSUME NEW j \in 0..(k - 1) PROVE ~EndsAt(t, j)
  <2>1. p[j] = t[j]
    BY <1>2
  <2> QED BY <2>1 DEF EndsAt, OnTrail
<1>6. PICK e \in Nat : EndsBefore(p, k, e) /\ e + 4 <= Len(data)
  BY DEF WholeAt
<1>7. EndsBefore(t, k, e)
  BY <1>2, <1>3, <1>6 DEF EndsBefore, FirstPointer
<1>8. AfterName(t, k) = e
  BY <1>7, EndsBeforeIsAfterName
<1>9. Cardinality(PointersBefore(t, k)) <= MaxDepth
  BY <1>3 DEF WholeAt
<1> QED BY <1>1, <1>4, <1>5, <1>6, <1>8, <1>9 DEF ReadableOn

-----------------------------------------------------------------------------
(***************************************************************************)
(* The handler walks the trail: the invariant behind UnreadableIsRefused.  *)
(***************************************************************************)

\* The name is read up to place k of trail p, which is offset o; d pointers
\* were followed, and e is the end of the name if it is known.
Position(p, k, o, d, e) ==
    /\ OnTrail(p, k) /\ o = p[k]
    /\ d = Cardinality(PointersBefore(p, k))
    /\ IF PointersBefore(p, k) = {} THEN e = None ELSE EndsBefore(p, k, e)

\* Before the name, in it, after it, and when the query is done with.
Starting == pc = "header" => offset = 12 /\ depth = 0 /\ end = None /\ reply = None

Reading == pc = "name" => \E k \in Nat : \E p : Position(p, k, offset, depth, end)

HasRead ==
    pc = "question" =>
        \E k \in Nat : \E p : /\ OnTrail(p, k) /\ ZeroAt(p[k])
                               /\ Cardinality(PointersBefore(p, k)) <= MaxDepth
                               /\ EndsBefore(p, k, end)

Judged ==
    (pc = "done" /\ reply # None /\ Word(4) >= 1) =>
        \E k \in Nat : \E p : /\ OnTrail(p, k)
                               /\ IF reply.rcode = 1 THEN BreaksAt(p, k) ELSE WholeAt(p, k)

WalkInv == Inv /\ Starting /\ Reading /\ HasRead /\ Judged

\* The payload does not change, nor does what is said of it.
LEMMA SamePayload ==
    ASSUME data' = data, NEW p, NEW k
    PROVE  /\ OnTrail(p, k)' <=> OnTrail(p, k)
           /\ PointersBefore(p, k)' = PointersBefore(p, k)
           /\ ZeroAt(p[k])' <=> ZeroAt(p[k])
           /\ Following(p[k])' = Following(p[k])
           /\ Word(4)' = Word(4)
<1>1. OnTrail(p, k)' <=> OnTrail(p, k)
  BY DEF OnTrail, Following, At
<1> QED BY <1>1 DEF PointersBefore, ZeroAt, Following, Word, At

LEMMA EvidenceStays ==
    ASSUME UNCHANGED <<data, offset, depth, end>>, NEW p, NEW k
    PROVE  /\ OnTrail(p, k)' <=> OnTrail(p, k)
           /\ Position(p, k, offset, depth, end)' <=> Position(p, k, offset, depth, end)
           /\ ZeroAt(p[k])' <=> ZeroAt(p[k])
           /\ Cardinality(PointersBefore(p, k))' = Cardinality(PointersBefore(p, k))
           /\ EndsBefore(p, k, end)' <=> EndsBefore(p, k, end)
           /\ BreaksAt(p, k)' <=> BreaksAt(p, k)
           /\ WholeAt(p, k)' <=> WholeAt(p, k)
<1>1. /\ OnTrail(p, k)' <=> OnTrail(p, k)
      /\ PointersBefore(p, k)' = PointersBefore(p, k)
      /\ ZeroAt(p[k])' <=> ZeroAt(p[k])
      /\ Following(p[k])' = Following(p[k])
  BY SamePayload
<1>2. EndsBefore(p, k, end)' <=> EndsBefore(p, k, end)
  BY <1>1 DEF EndsBefore, FirstPointer
<1>3. Position(p, k, offset, depth, end)' <=> Position(p, k, offset, depth, end)
  BY <1>1, <1>2 DEF Position
<1>4. BreaksAt(p, k)' <=> BreaksAt(p, k)
  BY <1>1 DEF BreaksAt, EndsBefore, FirstPointer, At
<1>5. WholeAt(p, k)' <=> WholeAt(p, k)
  BY <1>1 DEF WholeAt, EndsBefore, FirstPointer
<1> QED BY <1>1, <1>2, <1>3, <1>4, <1>5

\* A trail goes on where an offset follows.
LEMMA Extended ==
    ASSUME NEW k \in Nat, NEW p, OnTrail(p, k), p[k] < Len(data), At(p[k]) # 0,
           NEW q \in Nat, Following(p[k]) = q
    PROVE  \E r : /\ OnTrail(r, k + 1) /\ r[k + 1] = q
                  /\ \A i \in 0..k : r[i] = p[i]
                  /\ (At(p[k]) \div 64 = 3
                        => PointersBefore(r, k + 1) = PointersBefore(p, k) \cup {k})
                  /\ (At(p[k]) \div 64 # 3
                        => PointersBefore(r, k + 1) = PointersBefore(p, k))
<1> DEFINE r == [i \in 0..(k + 1) |-> IF i = k + 1 THEN q ELSE p[i]]
<1>1. r[k + 1] = q /\ \A i \in 0..k : r[i] = p[i]
  OBVIOUS
<1>2. r \in [0..(k + 1) -> Nat] /\ r[0] = 12
  BY DEF OnTrail
<1>3. ASSUME NEW i \in 1..(k + 1) PROVE r[i] = Following(r[i - 1])
  <2>1. CASE i = k + 1
    <3>1. i - 1 = k /\ r[k] = p[k]
      BY <1>1, <2>1
    <3> QED BY <1>1, <2>1, <3>1
  <2>2. CASE i # k + 1
    <3>1. i \in 1..k /\ i \in 0..k /\ i - 1 \in 0..k
      BY <2>2
    <3>2. r[i] = p[i] /\ r[i - 1] = p[i - 1]
      BY <1>1, <3>1
    <3> QED BY <3>1, <3>2 DEF OnTrail
  <2> QED BY <2>1, <2>2
<1>4. ASSUME NEW i \in 0..k PROVE r[i] < Len(data) /\ At(r[i]) # 0
  <2>1. r[i] = p[i]
    BY <1>1
  <2>2. i = k \/ i \in 0..(k - 1)
    OBVIOUS
  <2> QED BY <2>1, <2>2 DEF OnTrail
<1> HIDE DEF r
<1>5. OnTrail(r, k + 1)
  BY <1>2, <1>3, <1>4 DEF OnTrail
<1>6. PointersBefore(r, k) = PointersBefore(p, k)
  <2>1. \A i \in 0..(k - 1) : r[i] = p[i]
    BY <1>1
  <2> QED BY <2>1, PointersAgree
<1>7. r[k] = p[k]
  BY <1>1
<1>8. PointersBefore(r, k + 1) =
         IF At(r[k]) \div 64 = 3 THEN PointersBefore(r, k) \cup {k} ELSE PointersBefore(r, k)
  BY PointersGrow
<1>9. /\ At(p[k]) \div 64 = 3 => PointersBefore(r, k + 1) = PointersBefore(p, k) \cup {k}
      /\ At(p[k]) \div 64 # 3 => PointersBefore(r, k + 1) = PointersBefore(p, k)
  BY <1>6, <1>7, <1>8, Zenon
<1> QED BY <1>1, <1>5, <1>9, Zenon

\* At the zero of a name its end is known.
LEMMA NameIsRead ==
    ASSUME NEW k \in Nat, NEW p, Position(p, k, offset, depth, end), ZeroAt(offset)
    PROVE  EndsBefore(p, k, EndAt(offset + 1))
<1>1. CASE PointersBefore(p, k) = {}
  BY <1>1 DEF Position, EndsBefore, EndAt
<1>2. CASE PointersBefore(p, k) # {}
  <2>1. EndsBefore(p, k, end)
    BY <1>2 DEF Position
  <2>2. end \in Nat
    BY <1>2, <2>1 DEF EndsBefore, Position, OnTrail
  <2>3. EndAt(offset + 1) = end
    BY <2>2, DnsAssumption DEF EndAt
  <2> QED BY <2>1, <2>3
<1> QED BY <1>1, <1>2

\* A label leads to the next place.
LEMMA LabelIsRead ==
    ASSUME NEW k \in Nat, NEW p, Position(p, k, offset, depth, end),
           offset < Len(data), At(offset) # 0, At(offset) \div 64 # 3,
           NEW q \in Nat, Following(offset) = q
    PROVE  \E r : Position(r, k + 1, q, depth, end)
<1>1. OnTrail(p, k) /\ offset = p[k]
  BY DEF Position
<1>2. PICK r : /\ OnTrail(r, k + 1) /\ r[k + 1] = q /\ \A i \in 0..k : r[i] = p[i]
               /\ PointersBefore(r, k + 1) = PointersBefore(p, k)
  <2>1. /\ OnTrail(p, k) /\ p[k] < Len(data) /\ At(p[k]) # 0
        /\ At(p[k]) \div 64 # 3 /\ Following(p[k]) = q
    BY <1>1
  <2>2. PICK r : /\ OnTrail(r, k + 1) /\ r[k + 1] = q /\ \A i \in 0..k : r[i] = p[i]
                 /\ (At(p[k]) \div 64 # 3 => PointersBefore(r, k + 1) = PointersBefore(p, k))
    BY <2>1, Extended
  <2> QED BY <2>1, <2>2
<1>3. ASSUME PointersBefore(p, k) # {} PROVE EndsBefore(r, k + 1, end)
  <2>1. PICK j \in 0..(k - 1) : FirstPointer(p, k, j) /\ end = p[j] + 2
    BY <1>3 DEF Position, EndsBefore
  <2>2. FirstPointer(r, k + 1, j)
    BY <1>2, <2>1 DEF FirstPointer
  <2>3. j \in 0..(k + 1 - 1) /\ end = r[j] + 2
    BY <1>2, <2>1
  <2> QED BY <1>2, <1>3, <2>2, <2>3 DEF EndsBefore
<1> QED BY <1>2, <1>3 DEF Position

\* So does a pointer, which the name goes on behind.
LEMMA PointerIsFollowed ==
    ASSUME NEW k \in Nat, NEW p, Position(p, k, offset, depth, end),
           offset < Len(data), At(offset) # 0, At(offset) \div 64 = 3,
           NEW q \in Nat, Following(offset) = q
    PROVE  \E r : Position(r, k + 1, q, depth + 1, EndAt(offset + 2))
<1>1. OnTrail(p, k) /\ offset = p[k]
  BY DEF Position
<1>2. PICK r : /\ OnTrail(r, k + 1) /\ r[k + 1] = q /\ \A i \in 0..k : r[i] = p[i]
               /\ PointersBefore(r, k + 1) = PointersBefore(p, k) \cup {k}
  <2>1. /\ OnTrail(p, k) /\ p[k] < Len(data) /\ At(p[k]) # 0
        /\ At(p[k]) \div 64 = 3 /\ Following(p[k]) = q
    BY <1>1
  <2>2. PICK r : /\ OnTrail(r, k + 1) /\ r[k + 1] = q /\ \A i \in 0..k : r[i] = p[i]
                 /\ (At(p[k]) \div 64 = 3 => PointersBefore(r, k + 1) = PointersBefore(p, k) \cup {k})
    BY <2>1, Extended
  <2> QED BY <2>1, <2>2
<1>3. /\ IsFiniteSet(PointersBefore(p, k)) /\ PointersBefore(p, k) \subseteq 0..(k - 1)
      /\ k \notin PointersBefore(p, k)
  <2>1. k \notin 0..(k - 1)
    OBVIOUS
  <2> QED BY <2>1, PointersFinite
<1>4. Cardinality(PointersBefore(r, k + 1)) = depth + 1
  BY <1>2, <1>3, FS_AddElement DEF Position
<1>5. EndsBefore(r, k + 1, EndAt(offset + 2))
  <2>1. CASE PointersBefore(p, k) = {}
    <3>1. FirstPointer(r, k + 1, k)
      BY <1>2, <2>1 DEF FirstPointer
    <3>2. EndAt(offset + 2) = r[k] + 2 /\ k \in 0..(k + 1 - 1)
      BY <1>1, <1>2, <2>1 DEF Position, EndAt
    <3> QED BY <1>2, <3>1, <3>2, SMTT(30) DEF EndsBefore
  <2>2. CASE PointersBefore(p, k) # {}
    <3>1. PICK j \in 0..(k - 1) : FirstPointer(p, k, j) /\ end = p[j] + 2
      BY <2>2 DEF Position, EndsBefore
    <3>2. FirstPointer(r, k + 1, j)
      BY <1>2, <3>1 DEF FirstPointer
    <3>3. end \in Nat
      BY <1>1, <3>1 DEF OnTrail
    <3>4. j \in 0..(k + 1 - 1) /\ EndAt(offset + 2) = r[j] + 2
      BY <1>2, <3>1, <3>3, DnsAssumption DEF EndAt
    <3>5. PointersBefore(r, k + 1) # {}
      BY <1>2
    <3>6. \E i \in 0..(k + 1 - 1) : FirstPointer(r, k + 1, i) /\ EndAt(offset + 2) = r[i] + 2
      BY <3>2, <3>4
    <3> QED BY <3>5, <3>6 DEF EndsBefore
  <2> QED BY <2>1, <2>2
<1> QED BY <1>2, <1>4, <1>5 DEF Position

\* What a step of DecodeName does, as Following tells it.
LEMMA DecodeNameCases ==
    ASSUME Inv, DecodeName
    PROVE  \/ FormErr /\ (Following(offset) = None \/ (At(offset) \div 64 = 3 /\ TooDeep(Deeper)))
              /\ ~ZeroAt(offset) /\ (Following(offset) # None => offset < Len(data))
           \/ /\ ZeroAt(offset) /\ pc' = "question" /\ end' = EndAt(offset + 1)
              /\ UNCHANGED <<data, depth>>
           \/ /\ offset < Len(data) /\ At(offset) # 0 /\ At(offset) \div 64 = 3
              /\ offset' = Following(offset) /\ depth' = depth + 1 /\ ~TooDeep(Deeper)
              /\ end' = EndAt(offset + 2) /\ UNCHANGED <<data, pc>>
           \/ /\ offset < Len(data) /\ At(offset) # 0 /\ At(offset) \div 64 # 3
              /\ offset' = Following(offset) /\ UNCHANGED <<data, pc, depth, end>>
<1>0. offset \in Nat /\ Len(data) \in Nat /\ data \in Seq(Byte) /\ offset # None
  BY DnsAssumption DEF Inv, TypeOK
<1>1. CASE offset >= Len(data)
  <2>1. FormErr
    BY <1>1, Zenon DEF DecodeName
  <2>2. Following(offset) = None /\ ~ZeroAt(offset)
    BY <1>0, <1>1 DEF Following, ZeroAt
  <2> QED BY <2>1, <2>2
<1>2. CASE ~(offset >= Len(data))
  <2>1. offset < Len(data) /\ At(offset) \in Byte /\ At(offset) \in Nat
    BY <1>0, <1>2, AtByte
  <2>2. IsPointer(At(offset)) <=> At(offset) \div 64 = 3
    BY <2>1, PointerTop
  <2>3. CASE At(offset) = 0
    BY <1>2, <2>1, <2>3, Zenon DEF DecodeName, ZeroAt
  <2>4. CASE At(offset) # 0 /\ IsPointer(At(offset))
    <3>1. ~ZeroAt(offset)
      BY <2>4 DEF ZeroAt
    <3>2. CASE offset + 1 >= Len(data)
      <4>1. FormErr
        BY <1>2, <2>4, <3>2, Zenon DEF DecodeName
      <4>2. ~(offset + 1 < Len(data))
        BY <1>0, <3>2
      <4>3. Following(offset) = None
        BY <1>2, <2>2, <2>4, <4>2, Zenon DEF Following
      <4> QED BY <3>1, <4>1, <4>3
    <3>3. CASE ~(offset + 1 >= Len(data)) /\ TooDeep(Deeper)
      <4>1. FormErr
        BY <1>2, <2>4, <3>3, Zenon DEF DecodeName
      <4> QED BY <2>1, <2>2, <2>4, <3>1, <3>3, <4>1
    <3>4. CASE ~(offset + 1 >= Len(data)) /\ ~TooDeep(Deeper)
      <4>1. /\ offset' = (At(offset) % 64) * 256 + At(offset + 1)
            /\ depth' = Deeper /\ end' = EndAt(offset + 2)
            /\ UNCHANGED <<data, pc, name, reply>>
        BY <1>2, <2>4, <3>4, Zenon DEF DecodeName
      <4>2. offset + 1 < Len(data)
        BY <1>0, <3>4
      <4>3. Following(offset) = (At(offset) % 64) * 256 + At(offset + 1)
        BY <1>0, <1>2, <2>2, <2>4, <4>2, Zenon DEF Following
      <4> QED BY <2>1, <2>2, <2>4, <3>4, <4>1, <4>3 DEF Deeper
    <3> QED BY <3>2, <3>3, <3>4
  <2>5. CASE At(offset) # 0 /\ ~IsPointer(At(offset))
    <3>1. ~ZeroAt(offset)
      BY <2>5 DEF ZeroAt
    <3>2. CASE offset + 1 + At(offset) > Len(data)
      <4>1. FormErr
        BY <1>2, <2>5, <3>2, Zenon DEF DecodeName
      <4>2. ~(offset + 1 + At(offset) <= Len(data))
        BY <1>0, <2>1, <3>2
      <4>3. Following(offset) = None
        BY <1>2, <2>2, <2>5, <4>2, Zenon DEF Following
      <4> QED BY <3>1, <4>1, <4>3
    <3>3. CASE ~(offset + 1 + At(offset) > Len(data))
      <4>1. offset' = offset + 1 + At(offset) /\ UNCHANGED <<data, pc, depth, end>>
        BY <1>2, <2>5, <3>3, Zenon DEF DecodeName
      <4>2. offset + 1 + At(offset) <= Len(data)
        BY <1>0, <2>1, <3>3
      <4>3. Following(offset) = offset + 1 + At(offset)
        BY <1>0, <1>2, <2>2, <2>5, <4>2, Zenon DEF Following
      <4> QED BY <2>1, <2>2, <2>5, <4>1, <4>3
    <3> QED BY <3>2, <3>3
  <2> QED BY <2>3, <2>4, <2>5
<1> QED BY <1>1, <1>2

\* Once the query is done with, the other parts of the invariant say nothing.
LEMMA DoneIsJudged ==
    ASSUME pc' = "done", Judged'
    PROVE  Starting' /\ Reading' /\ HasRead' /\ Judged'
  BY DEF Starting, Reading, HasRead

\* A reply in the middle of the name is a refusal, and rightly so.
LEMMA NameRefused ==
    ASSUME WalkInv, FormErr, NEW k \in Nat, NEW p, OnTrail(p, k), BreaksAt(p, k)
    PROVE  Starting' /\ Reading' /\ HasRead' /\ Judged'
<1>1. pc' = "done" /\ reply'.rcode = 1 /\ data' = data
  BY DEF FormErr, Reply
<1>2. OnTrail(p, k)' /\ BreaksAt(p, k)'
  <2>1. /\ OnTrail(p, k)' <=> OnTrail(p, k)
        /\ PointersBefore(p, k)' = PointersBefore(p, k)
        /\ ZeroAt(p[k])' <=> ZeroAt(p[k])
        /\ Following(p[k])' = Following(p[k])
    BY <1>1, SamePayload
  <2> QED BY <1>1, <2>1 DEF BreaksAt, EndsBefore, FirstPointer, At
<1>3. Judged'
  BY <1>1, <1>2 DEF Judged
<1> QED BY <1>1, <1>3, DoneIsJudged

LEMMA ParseHeaderWalks ==
    ASSUME WalkInv, ParseHeader
    PROVE  Starting' /\ Reading' /\ HasRead' /\ Judged'
<1>1. /\ pc = "header" /\ data' = data
      /\ offset = 12 /\ depth = 0 /\ end = None /\ reply = None
  BY DEF ParseHeader, FormErr, Reply, WalkInv, Starting
<1>2. CASE Len(data) < 12
  <2>1. pc' = "done" /\ reply' = None
    BY <1>1, <1>2, Zenon DEF ParseHeader
  <2>2. Judged'
    BY <2>1 DEF Judged
  <2> QED BY <2>1, <2>2, DoneIsJudged
<1>3. CASE ~(Len(data) < 12) /\ Word(4) < 1
  <2>1. FormErr
    BY <1>3, Zenon DEF ParseHeader
  <2>2. pc' = "done"
    BY <2>1 DEF FormErr, Reply
  <2>3. Word(4)' = Word(4)
    BY <1>1 DEF Word, At
  <2>4. ~(Word(4) >= 1)
    <3>1. data \in Seq(Byte) /\ 4 < Len(data) /\ 5 < Len(data)
      BY <1>3 DEF WalkInv, Inv, TypeOK
    <3>2. At(4) \in Nat /\ At(4 + 1) \in Nat
      BY <3>1, AtByte
    <3> QED BY <1>3, <3>2 DEF Word
  <2>5. Judged'
    BY <2>3, <2>4, Zenon DEF Judged
  <2> QED BY <2>2, <2>5, DoneIsJudged
<1>4. CASE ~(Len(data) < 12) /\ ~(Word(4) < 1)
  <2>1. pc' = "name" /\ UNCHANGED <<data, offset, depth, name, end, reply>>
    BY <1>4, Zenon DEF ParseHeader
  <2> DEFINE p == [i \in 0..0 |-> 12]
  <2>2. OnTrail(p, 0)
    BY DEF OnTrail
  <2>3. PointersBefore(p, 0) = {}
    BY DEF PointersBefore
  <2>4. Cardinality({}) = 0
    BY FS_EmptySet
  <2>5. p[0] = 12
    OBVIOUS
  <2> HIDE DEF p
  <2>6. OnTrail(p, 0)' /\ PointersBefore(p, 0)' = {}
    BY <1>1, <2>2, <2>3, SamePayload
  <2>7. Position(p, 0, offset, depth, end)'
    BY <1>1, <2>1, <2>4, <2>5, <2>6 DEF Position
  <2>8. Reading'
    BY <2>7 DEF Reading
  <2> QED BY <2>1, <2>8 DEF Starting, HasRead, Judged
<1> QED BY <1>2, <1>3, <1>4

LEMMA DecodeNameWalks ==
    ASSUME WalkInv, DecodeName
    PROVE  Starting' /\ Reading' /\ HasRead' /\ Judged'
<1>1. /\ pc = "name" /\ Inv /\ offset \in Nat /\ depth \in 0..MaxDepth /\ MaxDepth \in Nat
      /\ data \in Seq(Byte) /\ Len(data) \in Nat
  BY DnsAssumption DEF DecodeName, WalkInv, Inv, TypeOK
<1>0. PICK k \in Nat : \E p : Position(p, k, offset, depth, end)
  BY <1>1 DEF WalkInv, Reading
<1>2. PICK p : k \in Nat /\ Position(p, k, offset, depth, end)
  BY <1>0, Zenon
<1>3. OnTrail(p, k) /\ offset = p[k] /\ depth = Cardinality(PointersBefore(p, k))
  BY <1>2 DEF Position
<1>4. CASE FormErr /\ (Following(offset) = None \/ (At(offset) \div 64 = 3 /\ TooDeep(Deeper)))
           /\ ~ZeroAt(offset) /\ (Following(offset) # None => offset < Len(data))
  <2>1. BreaksAt(p, k)
    BY <1>1, <1>3, <1>4 DEF BreaksAt, TooDeep, Deeper
  <2> QED BY <1>3, <1>4, <2>1, NameRefused
<1>5. CASE /\ ZeroAt(offset) /\ pc' = "question" /\ end' = EndAt(offset + 1)
           /\ UNCHANGED <<data, depth>>
  <2>1. PICK e : e = EndAt(offset + 1)
    OBVIOUS
  <2>2. EndsBefore(p, k, e)
    BY <1>2, <1>5, <2>1, NameIsRead
  <2>3. /\ OnTrail(p, k)' /\ ZeroAt(p[k])'
        /\ PointersBefore(p, k)' = PointersBefore(p, k) /\ end' = e
    BY <1>3, <1>5, <2>1, SamePayload
  <2>4. Cardinality(PointersBefore(p, k))' <= MaxDepth
    BY <1>1, <1>3, <2>3
  <2>5. EndsBefore(p, k, end)'
    BY <2>2, <2>3 DEF EndsBefore, FirstPointer
  <2>6. HasRead'
    BY <2>3, <2>4, <2>5 DEF HasRead
  <2> QED BY <1>5, <2>6 DEF Starting, Reading, Judged
<1>6. ASSUME UNCHANGED <<data, pc>>, NEW q, NEW d, NEW e, NEW r,
             Position(r, k + 1, q, d, e), offset' = q, depth' = d, end' = e
      PROVE  Starting' /\ Reading' /\ HasRead' /\ Judged'
  <2>1. /\ OnTrail(r, k + 1)' <=> OnTrail(r, k + 1)
        /\ PointersBefore(r, k + 1)' = PointersBefore(r, k + 1)
    BY <1>6, SamePayload
  <2>2. Position(r, k + 1, offset, depth, end)'
    BY <1>6, <2>1 DEF Position, EndsBefore, FirstPointer
  <2>3. k + 1 \in Nat
    OBVIOUS
  <2>4. Reading'
    BY <2>2, <2>3 DEF Reading
  <2> QED BY <1>1, <1>6, <2>4 DEF Starting, HasRead, Judged
<1>7. CASE /\ offset < Len(data) /\ At(offset) # 0 /\ At(offset) \div 64 = 3
           /\ offset' = Following(offset) /\ depth' = depth + 1 /\ ~TooDeep(Deeper)
           /\ end' = EndAt(offset + 2) /\ UNCHANGED <<data, pc>>
  <2>1. PICK q \in Nat : Following(offset) = q
    BY <1>1, <1>7, DecodeNameStep DEF Inv, TypeOK
  <2>2. PICK r : Position(r, k + 1, q, depth + 1, EndAt(offset + 2))
    BY <1>2, <1>7, <2>1, PointerIsFollowed
  <2> QED BY <1>6, <1>7, <2>1, <2>2
<1>8. CASE /\ offset < Len(data) /\ At(offset) # 0 /\ At(offset) \div 64 # 3
           /\ offset' = Following(offset) /\ UNCHANGED <<data, pc, depth, end>>
  <2>1. PICK q \in Nat : Following(offset) = q
    BY <1>1, <1>8, DecodeNameStep DEF Inv, TypeOK
  <2>2. PICK r : Position(r, k + 1, q, depth, end)
    BY <1>2, <1>8, <2>1, LabelIsRead
  <2> QED BY <1>6, <1>8, <2>1, <2>2
<1> QED BY <1>1, <1>4, <1>5, <1>7, <1>8, DecodeNameCases

LEMMA AnswerWalks ==
    ASSUME WalkInv, Answer
    PROVE  Starting' /\ Reading' /\ HasRead' /\ Judged'
<1>1. pc = "question" /\ data' = data /\ pc' = "done" /\ end \in Nat /\ Len(data) \in Nat
  BY DEF Answer, FormErr, Reply, WalkInv, Inv, EndOK, TypeOK
<1>0. PICK k \in Nat : \E p : /\ OnTrail(p, k) /\ ZeroAt(p[k])
                               /\ Cardinality(PointersBefore(p, k)) <= MaxDepth
                               /\ EndsBefore(p, k, end)
  BY <1>1 DEF WalkInv, HasRead
<1>2. PICK p : /\ k \in Nat /\ OnTrail(p, k) /\ ZeroAt(p[k])
               /\ Cardinality(PointersBefore(p, k)) <= MaxDepth
               /\ EndsBefore(p, k, end)
  BY <1>0, Zenon
<1>3. CASE end + 4 > Len(data)
  <2>1. FormErr
    BY <1>3, Zenon DEF Answer
  <2>2. BreaksAt(p, k)
    BY <1>1, <1>2, <1>3 DEF BreaksAt
  <2> QED BY <1>2, <2>1, <2>2, NameRefused
<1>4. CASE ~(end + 4 > Len(data))
  <2>1. reply'.rcode # 1
    BY <1>4 DEF Answer, Reply
  <2>2. WholeAt(p, k)
    BY <1>1, <1>2, <1>4 DEF WholeAt
  <2>3. /\ OnTrail(p, k)' <=> OnTrail(p, k)
        /\ PointersBefore(p, k)' = PointersBefore(p, k)
        /\ ZeroAt(p[k])' <=> ZeroAt(p[k])
    BY <1>1, SamePayload
  <2>4. WholeAt(p, k)'
    BY <1>1, <2>2, <2>3 DEF WholeAt, EndsBefore, FirstPointer
  <2>5. Judged'
    BY <1>2, <2>1, <2>3, <2>4 DEF Judged
  <2> QED BY <1>1, <2>5, DoneIsJudged
<1> QED BY <1>3, <1>4

\* Exactly the malformed questions are refused, for every payload and every
\* bound on the depth: the trail that was walked is the evidence.
THEOREM UnreadableRefused == Spec => []UnreadableIsRefused
<1>1. Init => WalkInv
  <2>1. Init => Inv
    BY DnsAssumption DEF Init, Inv, TypeOK, EndOK, Text
  <2> QED BY <2>1 DEF WalkInv, Init, Starting, Reading, HasRead, Judged
<1>2. WalkInv /\ [Next]_vars => WalkInv'
  <2> SUFFICES ASSUME WalkInv, [Next]_vars PROVE WalkInv'
    OBVIOUS
  <2>1. Inv'
    <3>1. CASE UNCHANGED vars
      BY <3>1 DEF vars, WalkInv, Inv, TypeOK, EndOK
    <3>2. Inv
      BY DEF WalkInv
    <3> QED BY <3>1, <3>2, ParseHeaderStep, DecodeNameStep, AnswerStep DEF Next
  <2>2. CASE UNCHANGED vars
    <3>1. Starting' /\ Reading' /\ HasRead' /\ Judged'
      <4>1. /\ UNCHANGED <<data, pc, offset, depth, end, reply>> /\ Word(4)' = Word(4)
            /\ Starting /\ Reading /\ HasRead /\ Judged
        BY <2>2 DEF vars, WalkInv, Word, At
      <4>2. Starting' /\ Reading' /\ HasRead'
        BY <4>1, EvidenceStays DEF Starting, Reading, HasRead
      <4>3. Judged'
        BY <4>1, EvidenceStays DEF Judged
      <4> QED BY <4>2, <4>3
    <3> QED BY <2>1, <3>1 DEF WalkInv
  <2> QED BY <2>1, <2>2, ParseHeaderWalks, DecodeNameWalks, AnswerWalks DEF Next, WalkInv
<1>3. WalkInv => UnreadableIsRefused
  <2> SUFFICES ASSUME WalkInv, pc = "done", reply # None, Word(4) >= 1
               PROVE  (reply.rcode = 1) <=> ~Readable
    BY Zenon DEF UnreadableIsRefused
  <2>1. data \in Seq(Byte)
    BY DEF WalkInv, Inv, TypeOK
  <2>0. PICK k \in Nat : \E p : /\ OnTrail(p, k)
                                 /\ IF reply.rcode = 1 THEN BreaksAt(p, k) ELSE WholeAt(p, k)
    BY Zenon DEF WalkInv, Judged
  <2>2. PICK p : /\ k \in Nat /\ OnTrail(p, k)
                 /\ IF reply.rcode = 1 THEN BreaksAt(p, k) ELSE WholeAt(p, k)
    BY <2>0, Zenon
  <2>3. PICK t : Reference(t) /\ (Readable <=> ReadableOn(t))
    BY <2>1, ReadableMeans
  <2>4. CASE reply.rcode = 1
    BY <2>1, <2>2, <2>3, <2>4, BrokenIsUnreadable
  <2>5. CASE reply.rcode # 1
    BY <2>1, <2>2, <2>3, <2>5, WholeIsReadable
  <2> QED BY <2>4, <2>5
<1> QED BY <1>1, <1>2, <1>3, PTL DEF Spec

-----------------------------------------------------------------------------
(***************************************************************************)
(* Questions: where the parts of a name stand in them.                     *)
(***************************************************************************)

LEMMA BytesAreNumbers ==
    ASSUME NEW w \in Seq(Byte)
    PROVE  w \in Seq(Nat) /\ Len(w) \in Nat /\ \A j \in 1..Len(w) : w[j] \in Byte
<1>1. Len(w) \in Nat /\ w \in [1..Len(w) -> Byte]
  OBVIOUS
<1>2. \A j \in 1..Len(w) : w[j] \in Byte /\ w[j] \in Nat
  <2>1. \A b \in Byte : b \in Nat
    BY DEF Byte
  <2> QED BY <1>1, <2>1
<1>3. w \in [1..Len(w) -> Nat]
  BY <1>1, <1>2
<1> QED BY <1>1, <1>2, <1>3

LEMMA NameParts ==
    ASSUME NEW n \in Name
    PROVE  /\ Len(n) \in Nat
           /\ \A i \in 1..Len(n) :
                 n[i] \in Seq(Byte) /\ n[i] \in Seq(Nat) /\ Len(n[i]) \in Nat
<1>1. Len(n) \in Nat /\ \A i \in 1..Len(n) : n[i] \in Seq(Byte)
  BY DEF Name
<1> QED BY <1>1, BytesAreNumbers

\* The recursion of Labels.
LEMMA LabelsAre ==
    ASSUME NEW n \in Name
    PROVE  /\ \A k \in 0..Len(n) : Labels(n, k) \in Seq(Nat)
           /\ Labels(n, 0) = <<>>
           /\ \A k \in 1..Len(n) : Labels(n, k) = Labels(n, k - 1) \o <<Len(n[k])>> \o n[k]
<1> DEFINE m == Len(n)
           V == Seq(Nat)
           step == [i \in 1..m |-> [v \in V |-> v \o <<Len(n[i])>> \o n[i]]]
           upTo == CHOOSE h : h = [i \in 0..Len(n) |->
                      IF i = 0 THEN <<>> ELSE h[i - 1] \o <<Len(n[i])>> \o n[i]]
<1>1. m \in Nat /\ \A i \in 1..m : n[i] \in Seq(Nat) /\ Len(n[i]) \in Nat
  BY NameParts
<1>2. step \in [1..m -> [V -> V]] /\ <<>> \in V
  BY <1>1
<1>3. PICK f \in [0..m -> V] :
         Follows(f, m, <<>>, step) /\ Determines(f, m, V, <<>>, step)
  <2> HIDE DEF step, V, m, upTo
  <2> QED BY <1>1, <1>2, RecursionDefines, Zenon
<1>4. \A i \in 1..m : f[i] = f[i - 1] \o <<Len(n[i])>> \o n[i]
  <2> TAKE i \in 1..m
  <2>1. f[i - 1] \in V
    BY <1>1
  <2> QED BY <1>3, <2>1 DEF Follows
<1>5. f = [i \in 0..m |-> IF i = 0 THEN <<>> ELSE f[i - 1] \o <<Len(n[i])>> \o n[i]]
  <2>1. f[0] = <<>>
    BY <1>3 DEF Follows
  <2>2. ASSUME NEW i \in 0..m, i # 0
        PROVE  f[i] = f[i - 1] \o <<Len(n[i])>> \o n[i]
    <3>1. i \in 1..m
      BY <1>1, <2>2
    <3> QED BY <1>4, <3>1, Zenon
  <2>3. f = [i \in 0..m |-> f[i]]
    BY <1>3
  <2>4. \A i \in 0..m : f[i] = IF i = 0 THEN <<>> ELSE f[i - 1] \o <<Len(n[i])>> \o n[i]
    BY <2>1, <2>2, Zenon
  <2> QED BY <2>3, <2>4, Zenon
<1>6. upTo = [i \in 0..m |-> IF i = 0 THEN <<>> ELSE upTo[i - 1] \o <<Len(n[i])>> \o n[i]]
  BY <1>5
<1>7. \A k : Labels(n, k) = upTo[k]
  BY Zenon DEF Labels
<1> HIDE DEF upTo
<1>8. upTo[0] = <<>> /\ \A i \in 1..m : upTo[i] = upTo[i - 1] \o <<Len(n[i])>> \o n[i]
  <2>1. \A i \in 0..m : upTo[i] = IF i = 0 THEN <<>> ELSE upTo[i - 1] \o <<Len(n[i])>> \o n[i]
    BY <1>6, Zenon
  <2>2. ASSUME NEW i \in 1..m PROVE upTo[i] = upTo[i - 1] \o <<Len(n[i])>> \o n[i]
    <3>1. i \in 0..m /\ i # 0
      BY <1>1
    <3> QED BY <2>1, <3>1, Zenon
  <2>3. 0 \in 0..m
    BY <1>1
  <2> QED BY <2>1, <2>2, <2>3, Zenon
<1>9. \A i \in 0..m : upTo[i] = f[i]
  <2>1. \A i \in 1..m : upTo[i - 1] \in V => upTo[i] = step[i][upTo[i - 1]]
    BY <1>8
  <2> HIDE DEF step, V, m
  <2> QED BY <1>3, <1>8, <2>1 DEF Determines
<1> QED BY <1>3, <1>7, <1>8, <1>9

\* In s, the first k labels of n stand one after the other, label m between
\* the places P[m - 1] and P[m].
Placed(s, n, k, P) ==
    /\ s \in Seq(Nat) /\ Len(s) = P[k]
    /\ \A m \in 1..k :
          /\ P[m] <= P[k] /\ s[P[m - 1] + 1] = Len(n[m])
          /\ \A j \in 1..Len(n[m]) : s[P[m - 1] + 1 + j] = n[m][j]

\* The places of the labels of n.
Places(n, P) ==
    /\ P \in [0..Len(n) -> Nat] /\ P[0] = 0
    /\ \A m \in 1..Len(n) : P[m] = P[m - 1] + 1 + Len(n[m])

LEMMA LabelsPlaced ==
    ASSUME NEW n \in Name
    PROVE  \E P : Places(n, P) /\ \A k \in 0..Len(n) : Placed(Labels(n, k), n, k, P)
<1> DEFINE P == [k \in 0..Len(n) |-> Len(Labels(n, k))]
<1>1. Len(n) \in Nat /\ \A i \in 1..Len(n) : n[i] \in Seq(Nat) /\ Len(n[i]) \in Nat
  BY NameParts
<1>2. \A k \in 0..Len(n) : Labels(n, k) \in Seq(Nat) /\ P[k] = Len(Labels(n, k)) /\ P[k] \in Nat
  <2> TAKE k \in 0..Len(n)
  <2>1. Labels(n, k) \in Seq(Nat)
    BY LabelsAre
  <2> QED BY <2>1
<1>3. ASSUME NEW k \in 1..Len(n)
      PROVE  /\ P[k] = P[k - 1] + 1 + Len(n[k])
             /\ \A j \in 1..P[k - 1] : Labels(n, k)[j] = Labels(n, k - 1)[j]
             /\ Labels(n, k)[P[k - 1] + 1] = Len(n[k])
             /\ \A j \in 1..Len(n[k]) : Labels(n, k)[P[k - 1] + 1 + j] = n[k][j]
  <2> DEFINE a == Labels(n, k - 1)
             w == n[k]
  <2>1. a \in Seq(Nat) /\ w \in Seq(Nat) /\ P[k - 1] = Len(a) /\ P[k] = Len(Labels(n, k))
    BY <1>1, <1>2
  <2>2. Labels(n, k) = a \o <<Len(w)>> \o w
    BY LabelsAre
  <2> HIDE DEF P, a, w
  <2>3. /\ Len(a \o <<Len(w)>> \o w) = Len(a) + 1 + Len(w)
        /\ \A j \in 1..Len(a) : (a \o <<Len(w)>> \o w)[j] = a[j]
        /\ (a \o <<Len(w)>> \o w)[Len(a) + 1] = Len(w)
        /\ \A j \in 1..Len(w) : (a \o <<Len(w)>> \o w)[Len(a) + 1 + j] = w[j]
    BY <2>1
  <2> QED BY <2>1, <2>2, <2>3 DEF a, w
<1>4. Places(n, P)
  <2>1. P[0] = 0
    <3>1. Labels(n, 0) = <<>>
      BY LabelsAre, Zenon
    <3>2. 0 \in 0..Len(n)
      BY <1>1
    <3> QED BY <3>1, <3>2
  <2>2. P \in [0..Len(n) -> Nat]
    BY <1>2
  <2> QED BY <1>3, <2>1, <2>2 DEF Places
<1> HIDE DEF P
<1> DEFINE Good == {k \in 0..Len(n) : Placed(Labels(n, k), n, k, P)}
<1>5. 0 \in Good
  BY <1>1, <1>2 DEF Placed
<1>6. ASSUME NEW k \in 1..Len(n), k - 1 \in Good PROVE k \in Good
  <2>1. Placed(Labels(n, k - 1), n, k - 1, P)
    BY <1>6
  <2>2. k \in 0..Len(n) /\ k - 1 \in 0..Len(n) /\ k - 1 \in Nat
    BY <1>1
  <2>3. ASSUME NEW m \in 1..k
        PROVE  /\ P[m] <= P[k] /\ Labels(n, k)[P[m - 1] + 1] = Len(n[m])
               /\ \A j \in 1..Len(n[m]) : Labels(n, k)[P[m - 1] + 1 + j] = n[m][j]
    <3>1. CASE m = k
      BY <1>2, <1>3, <2>2, <3>1
    <3>2. CASE m # k
      <4>1. m \in 1..(k - 1) /\ m \in 1..Len(n) /\ m - 1 \in 0..Len(n) /\ m \in 0..Len(n)
        BY <1>1, <3>2
      <4>2. /\ P[m] <= P[k - 1] /\ Labels(n, k - 1)[P[m - 1] + 1] = Len(n[m])
            /\ \A j \in 1..Len(n[m]) : Labels(n, k - 1)[P[m - 1] + 1 + j] = n[m][j]
        BY <2>1, <4>1 DEF Placed
      <4>3. /\ P[m] = P[m - 1] + 1 + Len(n[m]) /\ P[m] \in Nat /\ P[m - 1] \in Nat
            /\ Len(n[m]) \in Nat /\ P[k - 1] \in Nat /\ P[k] \in Nat
        BY <1>1, <1>2, <1>3, <2>2, <4>1
      <4>4. P[m - 1] + 1 \in 1..P[k - 1]
            /\ \A j \in 1..Len(n[m]) : P[m - 1] + 1 + j \in 1..P[k - 1]
        BY <4>2, <4>3, SMTT(30)
      <4>5. P[k - 1] <= P[k]
        BY <1>1, <1>3, <4>3
      <4>6. \A j \in 1..P[k - 1] : Labels(n, k)[j] = Labels(n, k - 1)[j]
        BY <1>3
      <4>7. \A j \in 1..Len(n[m]) : Labels(n, k)[P[m - 1] + 1 + j] = n[m][j]
        <5> TAKE j \in 1..Len(n[m])
        <5>1. P[m - 1] + 1 + j \in 1..P[k - 1]
          BY <4>4
        <5> QED BY <4>2, <4>6, <5>1
      <4>8. Labels(n, k)[P[m - 1] + 1] = Len(n[m]) /\ P[m] <= P[k]
        BY <4>2, <4>3, <4>4, <4>5, <4>6
      <4> QED BY <4>7, <4>8
    <3> QED BY <3>1, <3>2
  <2> QED BY <1>2, <2>2, <2>3 DEF Placed
<1>7. \A k \in 0..Len(n) : k \in Good
  <2> HIDE DEF Good
  <2> QED BY <1>1, <1>5, <1>6, InductionUpTo
<1> QED BY <1>4, <1>7

\* The label w stands at offset o, in any case.
LabelAt(w, o) ==
    /\ At(o) = Len(w) /\ o + 1 + Len(w) <= Len(data)
    /\ \A j \in 1..Len(w) : Lower(At(o + j)) = w[j]

\* The first byte of a pointer to one of the first 256 bytes.
PointerByte == 192

\* Where the labels of a name go on that is spelled out (0) or compressed (1)
\* after i labels.
Base(c) == IF c = 0 THEN 12 ELSE 18

\* The offset after the question's name.
NameEnd(P, i, c) == 13 + P[i] + c

\* The payload has a question for n and t with its labels at P, compressed
\* after i of them or not at all.
Layout(n, t, P, i, c) ==
    /\ Places(n, P) /\ i \in 0..Len(n) /\ c \in {0, 1} /\ (c = 0 => i = Len(n))
    /\ Len(data) > 12 /\ Word(4) = 1
    /\ \A k \in 1..i : LabelAt(n[k], 12 + P[k - 1])
    /\ \A k \in (i + 1)..Len(n) : LabelAt(n[k], 18 + P[k - 1])
    /\ ZeroAt(Base(c) + P[Len(n)])
    /\ c = 1 => /\ 13 + P[i] < Len(data)
                /\ At(12 + P[i]) = PointerByte /\ At(13 + P[i]) = 18 + P[i]
    /\ NameEnd(P, i, c) + 4 <= Len(data)
    /\ Word(NameEnd(P, i, c)) = t /\ Word(NameEnd(P, i, c) + 2) = 1

\* In the sequence s, whatever its case, the payload has its questions.
Holds(s) ==
    /\ s \in Seq(Nat) /\ Len(data) = 12 + Len(s)
    /\ \A o \in 12..(Len(data) - 1) : Lower(At(o)) = s[o - 11]

\* Sequence s has the label w at the place of offset o.
Carries(s, w, o) == s[o - 11] = Len(w) /\ \A j \in 1..Len(w) : s[o + j - 11] = w[j]

\* What is no letter is what it was.
LEMMA OtherBytesStay ==
    ASSUME NEW c \in Nat, NEW b \in Nat, Lower(c) = b, b < 97 \/ b > 122
    PROVE  c = b
<1>1. c \in 65..90 => b = c + 32
  BY DEF Lower
<1>2. c \notin 65..90 => b = c
  BY DEF Lower
<1> QED BY <1>1, <1>2

LEMMA ByteHeld ==
    ASSUME data \in Seq(Byte), NEW s \in Seq(Nat), Holds(s), NEW o \in 12..(Len(data) - 1),
           NEW b \in Nat, s[o - 11] = b, b < 97 \/ b > 122
    PROVE  At(o) = b
<1>1. Len(data) \in Nat /\ o \in Nat /\ o < Len(data)
  OBVIOUS
<1>2. At(o) \in Nat
  BY <1>1, AtByte
<1>3. Lower(At(o)) = b
  BY DEF Holds
<1> QED BY <1>2, <1>3, OtherBytesStay, Zenon

\* A label placed in the sequence stands in the payload.
LEMMA LabelHeld ==
    ASSUME data \in Seq(Byte), NEW s \in Seq(Nat), Holds(s), NEW o \in Nat, NEW w \in Seq(Nat),
           Len(w) >= 1, Len(w) <= 63, 12 <= o, o + 1 + Len(w) <= Len(data), Carries(s, w, o)
    PROVE  LabelAt(w, o)
<1>1. Len(data) \in Nat /\ Len(w) \in Nat /\ Len(w) <= 63 /\ Len(w) >= 1
  OBVIOUS
<1>2. At(o) = Len(w)
  <2>1. o \in 12..(Len(data) - 1)
    BY <1>1
  <2>2. Len(w) < 97
    BY <1>1
  <2>3. s[o - 11] = Len(w)
    BY DEF Carries
  <2> QED BY <1>1, <2>1, <2>2, <2>3, ByteHeld
<1>3. ASSUME NEW j \in 1..Len(w) PROVE Lower(At(o + j)) = w[j]
  <2>1. o + j \in 12..(Len(data) - 1)
    BY <1>1
  <2>2. Lower(At(o + j)) = s[o + j - 11]
    BY <2>1 DEF Holds
  <2>3. s[o + j - 11] = w[j]
    BY DEF Carries
  <2> QED BY <2>2, <2>3
<1> QED BY <1>2, <1>3 DEF LabelAt

\* A byte of the fixed part behind the name is too small to be a letter.
LEMMA FixedHeld ==
    ASSUME data \in Seq(Byte), NEW s \in Seq(Nat), Holds(s), NEW o \in Nat, NEW t \in Types, 12 <= o,
           o + 4 <= Len(data), s[o - 11] = 0, s[o - 10] = t, s[o - 9] = 0, s[o - 8] = 1
    PROVE  Word(o) = t /\ Word(o + 2) = 1
<1>1. Len(data) \in Nat /\ t \in Nat /\ t < 97
  BY DEF Types
<1>2. At(o) = 0
  <2>1. o \in 12..(Len(data) - 1)
    BY <1>1
  <2> QED BY <2>1, ByteHeld
<1>3. At(o + 1) = t
  <2>1. o + 1 \in 12..(Len(data) - 1) /\ o + 1 - 11 = o - 10
    BY <1>1
  <2> QED BY <1>1, <2>1, ByteHeld
<1>4. At(o + 2) = 0
  <2>1. o + 2 \in 12..(Len(data) - 1) /\ o + 2 - 11 = o - 9
    BY <1>1
  <2> QED BY <2>1, ByteHeld
<1>5. At(o + 2 + 1) = 1
  <2>1. o + 2 + 1 \in 12..(Len(data) - 1) /\ o + 2 + 1 - 11 = o - 8
    BY <1>1
  <2> QED BY <2>1, ByteHeld
<1> QED BY <1>1, <1>2, <1>3, <1>4, <1>5 DEF Word

\* One place and the next.
LEMMA NextPlace ==
    ASSUME NEW n \in Name, NEW P, Places(n, P), NEW m \in 1..Len(n)
    PROVE  /\ P[m] \in Nat /\ P[m - 1] \in Nat /\ Len(n[m]) \in Nat
           /\ P[m] = P[m - 1] + 1 + Len(n[m])
<1>1. Len(n) \in Nat /\ Len(n[m]) \in Nat /\ m \in 0..Len(n) /\ m - 1 \in 0..Len(n)
  BY NameParts
<1>2. P[m] \in Nat /\ P[m - 1] \in Nat
  BY <1>1 DEF Places
<1> QED BY <1>1, <1>2 DEF Places

\* The labels of a name are short enough to be told from pointers.
ShortLabels(n) == \A k \in 1..Len(n) : Len(n[k]) >= 1 /\ Len(n[k]) <= 63

\* Sequence a stands in s behind place d.
Within(a, s, d) == d + Len(a) <= Len(s) /\ \A j \in 1..Len(a) : s[d + j] = a[j]

\* Labels carried by the sequence stand in the payload.
LEMMA LabelsHeld ==
    ASSUME data \in Seq(Byte), NEW s \in Seq(Nat), Holds(s), NEW n \in Name, ShortLabels(n),
           NEW P, Places(n, P), NEW l \in 0..Len(n), NEW a \in Seq(Nat), Placed(a, n, l, P),
           NEW d \in Nat, Within(a, s, d)
    PROVE  \A k \in 1..l : LabelAt(n[k], 12 + d + P[k - 1])
<1> TAKE k \in 1..l
<1>1. k \in 1..Len(n) /\ n[k] \in Seq(Nat)
  <2>1. Len(n) \in Nat /\ k \in 1..Len(n)
    BY NameParts
  <2> QED BY <2>1, NameParts
<1> DEFINE w == n[k]
           q == P[k - 1]
           o == 12 + d + q
<1>2. /\ q \in Nat /\ P[k] \in Nat /\ Len(w) \in Nat /\ P[k] = q + 1 + Len(w)
      /\ Len(w) >= 1 /\ Len(w) <= 63
  BY <1>1, NextPlace DEF ShortLabels
<1>3. P[k] <= Len(a) /\ a[q + 1] = Len(w)
  BY DEF Placed
<1>4. \A j \in 1..Len(w) : a[q + 1 + j] = w[j]
  BY DEF Placed
<1>5. Len(a) \in Nat /\ Len(data) = 12 + Len(s) /\ Len(s) \in Nat /\ d + Len(a) <= Len(s)
  BY DEF Holds, Within
<1>6. \A j \in 1..Len(a) : s[d + j] = a[j]
  BY DEF Within
<1> HIDE DEF w, q
<1>7. o \in Nat /\ 12 <= o /\ o + 1 + Len(w) <= Len(data)
  BY <1>2, <1>3, <1>5
<1>8. s[o - 11] = Len(w)
  <2>1. q + 1 \in 1..Len(a) /\ o - 11 = d + (q + 1)
    BY <1>2, <1>3, <1>5
  <2> QED BY <1>3, <1>6, <2>1
<1>9. ASSUME NEW j \in 1..Len(w) PROVE s[o + j - 11] = w[j]
  <2>1. q + 1 + j \in 1..Len(a) /\ o + j - 11 = d + (q + 1 + j)
    BY <1>2, <1>3, <1>5
  <2>2. s[d + (q + 1 + j)] = a[q + 1 + j]
    BY <1>6, <2>1
  <2> QED BY <1>4, <2>1, <2>2
<1>10. Carries(s, w, o)
  BY <1>8, <1>9 DEF Carries
<1> HIDE DEF o
<1>11. w \in Seq(Nat)
  BY <1>1 DEF w
<1>12. LabelAt(w, o)
  BY <1>2, <1>7, <1>10, <1>11, LabelHeld
<1> QED BY <1>12 DEF o, w, q

\* Name r is the rest of n after i labels, its places Q.
IsTail(r, Q, n, P, i) ==
    /\ r \in Name /\ Len(r) = Len(n) - i /\ Places(r, Q)
    /\ \A m \in 1..Len(r) : r[m] = n[i + m]
    /\ \A m \in 0..Len(r) : P[i + m] = P[i] + Q[m]

\* The places in the rest of a name are those in the name, less its beginning.
LEMMA TailPlaces ==
    ASSUME NEW n \in Name, NEW P, Places(n, P), NEW i \in 0..Len(n),
           NEW r, r = SubSeq(n, i + 1, Len(n)), NEW Q, Places(r, Q)
    PROVE  IsTail(r, Q, n, P, i)
<1>1. Len(n) \in Nat /\ i \in Nat /\ Len(n) - i \in Nat
  BY NameParts
<1>2. r \in Name /\ Len(r) = Len(n) - i /\ Len(r) \in Nat
  BY <1>1 DEF Name
<1>3. \A m \in 1..Len(r) : r[m] = n[i + m]
  BY <1>1, <1>2 DEF Name
<1>4. Q[0] = 0 /\ P[i] \in Nat
  BY DEF Places
<1> DEFINE Good == {m \in 0..Len(r) : P[i + m] = P[i] + Q[m]}
<1>5. 0 \in Good
  BY <1>1, <1>2, <1>4
<1>6. ASSUME NEW m \in 1..Len(r), m - 1 \in Good PROVE m \in Good
  <2>1. i + m \in 1..Len(n) /\ i + m - 1 = i + (m - 1) /\ m \in 0..Len(r)
    BY <1>1, <1>2
  <2>2. /\ P[i + m] = P[i + m - 1] + 1 + Len(n[i + m])
        /\ P[i + m - 1] \in Nat /\ Len(n[i + m]) \in Nat
    BY <2>1, NextPlace
  <2>3. Q[m] = Q[m - 1] + 1 + Len(n[i + m]) /\ Q[m - 1] \in Nat
    <3>1. Q[m] = Q[m - 1] + 1 + Len(r[m]) /\ Q[m - 1] \in Nat
      BY <1>2, NextPlace
    <3>2. r[m] = n[i + m]
      BY <1>3
    <3> QED BY <3>1, <3>2
  <2>4. P[i + (m - 1)] = P[i] + Q[m - 1]
    BY <1>6
  <2>5. P[i + m] = P[i] + Q[m]
    <3>1. P[i + m - 1] = P[i] + Q[m - 1]
      BY <2>1, <2>4, Zenon
    <3>2. P[i + m - 1] + 1 + Len(n[i + m]) = P[i] + (Q[m - 1] + 1 + Len(n[i + m]))
      <4>1. P[i + m - 1] \in Nat /\ P[i] \in Nat /\ Q[m - 1] \in Nat /\ Len(n[i + m]) \in Nat
        BY <1>4, <2>2, <2>3
      <4> DEFINE a == P[i + m - 1]
                 b == P[i]
                 c == Q[m - 1]
                 d == Len(n[i + m])
      <4>2. a \in Nat /\ b \in Nat /\ c \in Nat /\ d \in Nat /\ a = b + c
        BY <3>1, <4>1
      <4> HIDE DEF a, b, c, d
      <4>3. a + 1 + d = b + (c + 1 + d)
        BY <4>2
      <4> QED BY <4>3, Zenon DEF a, b, c, d
    <3> QED BY <2>2, <2>3, <3>2, Zenon
  <2> QED BY <2>1, <2>5
<1>7. \A m \in 0..Len(r) : m \in Good
  <2> HIDE DEF Good
  <2> QED BY <1>2, <1>5, <1>6, InductionUpTo
<1> QED BY <1>2, <1>3, <1>7 DEF IsTail

\* What the assumptions say of a name that is asked for.
LEMMA NamesAre ==
    ASSUME NEW n \in Names
    PROVE  n \in Name /\ ShortLabels(n) /\ Len(EncodeQname(n)) < 80
<1>1. n \in Name
  BY DnsAssumption DEF Name, Text
<1>2. \A k \in 1..Len(n) : Len(n[k]) \in 1..63
  <2>1. DOMAIN n = 1..Len(n)
    BY <1>1 DEF Name
  <2> QED BY <2>1, NamesAssumption
<1>3. \A x \in 1..63 : x >= 1 /\ x <= 63
  OBVIOUS
<1>4. ShortLabels(n)
  BY <1>2, <1>3, Zenon DEF ShortLabels
<1> QED BY <1>1, <1>4, NamesAssumption

\* The lower-case image of what follows the header.
Lowered == [j \in 1..(Len(data) - 12) |-> Lower(data[j + 12])]

LEMMA LoweredIs ==
    ASSUME data \in Seq(Byte), Len(data) > 12
    PROVE  LowerCase(SubSeq(data, 13, Len(data))) = Lowered
<1> DEFINE s == SubSeq(data, 13, Len(data))
<1>1. Len(data) \in Nat /\ Len(data) - 12 \in Nat
  OBVIOUS
<1>2. s \in Seq(Byte) /\ Len(s) = Len(data) - 12
      /\ \A j \in 1..(Len(data) - 12) : s[j] = data[j + 12]
  <2>1. \A j \in 13..Len(data) : data[j] \in Byte
    BY <1>1
  <2>2. s \in Seq(Byte) /\ Len(s) = Len(data) - 12
    BY <1>1, <2>1, SubSeqProperties
  <2>3. \A j \in 1..(Len(data) - 12) : s[j] = data[j + 12]
    BY <1>1, SubSeqProperties
  <2> QED BY <2>2, <2>3
<1> HIDE DEF s
<1>3. DOMAIN s = 1..(Len(data) - 12)
  BY <1>2
<1>4. LowerCase(s) = [j \in 1..(Len(data) - 12) |-> Lower(s[j])]
  BY <1>3, Zenon DEF LowerCase
<1>5. LowerCase(s) = Lowered
  BY <1>2, <1>4, Zenon DEF Lowered
<1> QED BY <1>5 DEF s

LEMMA LoweredHolds ==
    ASSUME data \in Seq(Byte), Len(data) > 12
    PROVE  Lowered \in Seq(Nat) /\ Holds(Lowered)
<1>1. Len(data) \in Nat /\ Len(data) - 12 \in Nat
  OBVIOUS
<1>2. \A j \in 1..(Len(data) - 12) : Lower(data[j + 12]) \in Nat
  <2> TAKE j \in 1..(Len(data) - 12)
  <2>1. j + 12 \in 1..Len(data)
    BY <1>1
  <2>2. data[j + 12] \in Byte
    BY <2>1
  <2>3. \A b \in Byte : Lower(b) \in Nat
    BY DEF Byte, Lower
  <2> QED BY <2>2, <2>3
<1>3. Lowered \in Seq(Nat) /\ Len(Lowered) = Len(data) - 12
  BY <1>1, <1>2 DEF Lowered
<1>4. ASSUME NEW o \in 12..(Len(data) - 1) PROVE Lower(At(o)) = Lowered[o - 11]
  <2>1. o - 11 \in 1..(Len(data) - 12) /\ o - 11 + 12 = o + 1
    BY <1>1
  <2> QED BY <2>1 DEF Lowered, At
<1> QED BY <1>1, <1>3, <1>4 DEF Holds

\* Two sequences put together.
LEMMA Concatenated ==
    ASSUME NEW x \in Seq(Nat), NEW y \in Seq(Nat)
    PROVE  /\ x \o y \in Seq(Nat) /\ Len(x \o y) = Len(x) + Len(y)
           /\ Within(x, x \o y, 0) /\ Within(y, x \o y, Len(x))
  BY DEF Within

\* Within is transitive.
LEMMA WithinWithin ==
    ASSUME NEW x \in Seq(Nat), NEW y \in Seq(Nat), NEW z \in Seq(Nat), NEW d \in Nat, NEW e \in Nat,
           Within(x, y, d), Within(y, z, e)
    PROVE  Within(x, z, e + d)
<1>1. d + Len(x) <= Len(y) /\ \A j \in 1..Len(x) : y[d + j] = x[j]
  BY DEF Within
<1>2. e + Len(y) <= Len(z) /\ \A j \in 1..Len(y) : z[e + j] = y[j]
  BY DEF Within
<1>3. Len(x) \in Nat /\ Len(y) \in Nat /\ Len(z) \in Nat
  OBVIOUS
<1>4. ASSUME NEW j \in 1..Len(x) PROVE z[e + d + j] = x[j]
  <2>1. d + j \in 1..Len(y) /\ e + (d + j) = e + d + j
    BY <1>1, <1>3
  <2>2. z[e + (d + j)] = y[d + j]
    BY <1>2, <2>1
  <2> QED BY <1>1, <2>1, <2>2
<1>5. e + d + Len(x) <= Len(z)
  BY <1>1, <1>2, <1>3
<1> QED BY <1>4, <1>5 DEF Within

\* The type and class of a question, and a pointer.
Fixed(t) == <<0, t, 0, 1>>
PointerTo(q) == <<192, q>>

LEMMA ZeroPiece == <<0>> \in Seq(Nat) /\ Len(<<0>>) = 1 /\ <<0>>[1] = 0
  OBVIOUS

LEMMA PointerPiece ==
    ASSUME NEW q \in Nat
    PROVE  /\ PointerTo(q) \in Seq(Nat) /\ Len(PointerTo(q)) = 2
           /\ PointerTo(q)[1] = PointerByte /\ PointerTo(q)[2] = q
  BY DEF PointerTo, PointerByte

LEMMA FixedPiece ==
    ASSUME NEW t \in Nat
    PROVE  /\ Fixed(t) \in Seq(Nat) /\ Len(Fixed(t)) = 4
           /\ Fixed(t)[1] = 0 /\ Fixed(t)[2] = t /\ Fixed(t)[3] = 0 /\ Fixed(t)[4] = 1
  BY DEF Fixed

\* What stands where these are within a sequence.
LEMMA WithinZero ==
    \A s \in Seq(Nat), d \in Nat : Within(<<0>>, s, d) => s[d + 1] = 0
  BY ZeroPiece DEF Within

LEMMA WithinPointer ==
    ASSUME NEW s \in Seq(Nat), NEW d \in Nat, NEW q \in Nat, Within(PointerTo(q), s, d)
    PROVE  s[d + 1] = PointerByte /\ s[d + 2] = q
<1>1. \A j \in 1..2 : s[d + j] = PointerTo(q)[j]
  BY PointerPiece DEF Within
<1>2. 1 \in 1..2 /\ 2 \in 1..2
  OBVIOUS
<1>3. s[d + 1] = PointerTo(q)[1] /\ s[d + 2] = PointerTo(q)[2]
  BY <1>1, <1>2, Zenon
<1> QED BY <1>3, PointerPiece, Zenon

LEMMA WithinFixed ==
    ASSUME NEW s \in Seq(Nat), NEW d \in Nat, NEW t \in Nat, Within(Fixed(t), s, d)
    PROVE  s[d + 1] = 0 /\ s[d + 2] = t /\ s[d + 3] = 0 /\ s[d + 4] = 1
<1>1. \A j \in 1..4 : s[d + j] = Fixed(t)[j]
  BY FixedPiece DEF Within
<1>2. 1 \in 1..4 /\ 2 \in 1..4 /\ 3 \in 1..4 /\ 4 \in 1..4
  OBVIOUS
<1>3. /\ s[d + 1] = Fixed(t)[1] /\ s[d + 2] = Fixed(t)[2]
      /\ s[d + 3] = Fixed(t)[3] /\ s[d + 4] = Fixed(t)[4]
  BY <1>1, <1>2, Zenon
<1> QED BY <1>3, FixedPiece, Zenon

\* A question spelled out.
SpelledOut(a, t) == (a \o <<0>>) \o Fixed(t)

LEMMA SpelledOutPieces ==
    ASSUME NEW a \in Seq(Nat), NEW t \in Nat
    PROVE  /\ SpelledOut(a, t) \in Seq(Nat) /\ Len(SpelledOut(a, t)) = Len(a) + 5
           /\ Within(a, SpelledOut(a, t), 0) /\ Within(<<0>>, SpelledOut(a, t), Len(a))
           /\ Within(Fixed(t), SpelledOut(a, t), Len(a) + 1)
<1>1. PICK z : z = <<0>> /\ z \in Seq(Nat) /\ Len(z) = 1
  BY ZeroPiece, Zenon
<1>2. PICK f : f = Fixed(t) /\ f \in Seq(Nat) /\ Len(f) = 4
  BY FixedPiece, Zenon
<1>3. PICK y : y = a \o z
  OBVIOUS
<1>4. y \in Seq(Nat) /\ Len(y) = Len(a) + 1 /\ Within(a, y, 0) /\ Within(z, y, Len(a))
  BY <1>1, <1>3, Concatenated
<1>5. PICK s : s = y \o f
  OBVIOUS
<1>6. s \in Seq(Nat) /\ Len(s) = Len(y) + 4 /\ Within(y, s, 0) /\ Within(f, s, Len(y))
  <2>1. /\ y \o f \in Seq(Nat) /\ Len(y \o f) = Len(y) + Len(f)
        /\ Within(y, y \o f, 0) /\ Within(f, y \o f, Len(y))
    BY <1>2, <1>4, Concatenated, Zenon
  <2> QED BY <1>2, <1>5, <2>1, Zenon
<1>7. Within(a, s, 0 + 0) /\ Within(z, s, 0 + Len(a))
  <2>1. 0 \in Nat /\ Len(a) \in Nat
    OBVIOUS
  <2>2. Within(a, s, 0 + 0)
    BY <1>4, <1>6, <2>1, WithinWithin, Zenon
  <2>3. Within(z, s, 0 + Len(a))
    BY <1>1, <1>4, <1>6, <2>1, WithinWithin, Zenon
  <2> QED BY <2>2, <2>3
<1>8. 0 + Len(a) = Len(a) /\ 0 + 0 = 0 /\ Len(y) = Len(a) + 1 /\ Len(s) = Len(a) + 5
  BY <1>4, <1>6
<1>9. s = SpelledOut(a, t)
  BY <1>1, <1>2, <1>3, <1>5, Zenon DEF SpelledOut
<1> QED BY <1>1, <1>2, <1>6, <1>7, <1>8, <1>9, Zenon

\* A compressed question: labels a, a pointer to offset q, and behind the fixed
\* part the rest r.
Compressed(a, q, t, r) == a \o PointerTo(q) \o Fixed(t) \o (r \o <<0>>)

LEMMA CompressedPieces ==
    ASSUME NEW a \in Seq(Nat), NEW r \in Seq(Nat), NEW t \in Nat, NEW q \in Nat
    PROVE  /\ Compressed(a, q, t, r) \in Seq(Nat)
           /\ Len(Compressed(a, q, t, r)) = Len(a) + 7 + Len(r)
           /\ Within(a, Compressed(a, q, t, r), 0)
           /\ Within(PointerTo(q), Compressed(a, q, t, r), Len(a))
           /\ Within(Fixed(t), Compressed(a, q, t, r), Len(a) + 2)
           /\ Within(r, Compressed(a, q, t, r), Len(a) + 6)
           /\ Within(<<0>>, Compressed(a, q, t, r), Len(a) + 6 + Len(r))
<1>1. PICK p : p = PointerTo(q) /\ p \in Seq(Nat) /\ Len(p) = 2
  BY PointerPiece
<1>2. PICK f : f = Fixed(t) /\ f \in Seq(Nat) /\ Len(f) = 4
  BY FixedPiece, Zenon
<1>3. PICK z : z = <<0>> /\ z \in Seq(Nat) /\ Len(z) = 1
  BY ZeroPiece, Zenon
<1>4. PICK x : x = a \o p
  OBVIOUS
<1>5. x \in Seq(Nat) /\ Len(x) = Len(a) + 2 /\ Within(a, x, 0) /\ Within(p, x, Len(a))
  <2>1. /\ a \o p \in Seq(Nat) /\ Len(a \o p) = Len(a) + Len(p)
        /\ Within(a, a \o p, 0) /\ Within(p, a \o p, Len(a))
    BY <1>1, Concatenated, Zenon
  <2> QED BY <1>1, <1>4, <2>1, Zenon
<1>6. PICK y : y = x \o f
  OBVIOUS
<1>7. y \in Seq(Nat) /\ Len(y) = Len(x) + 4 /\ Within(x, y, 0) /\ Within(f, y, Len(x))
  <2>1. /\ x \o f \in Seq(Nat) /\ Len(x \o f) = Len(x) + Len(f)
        /\ Within(x, x \o f, 0) /\ Within(f, x \o f, Len(x))
    BY <1>2, <1>5, Concatenated, Zenon
  <2> QED BY <1>2, <1>6, <2>1, Zenon
<1>8. PICK v : v = r \o z
  OBVIOUS
<1>9. v \in Seq(Nat) /\ Len(v) = Len(r) + 1 /\ Within(r, v, 0) /\ Within(z, v, Len(r))
  BY <1>3, <1>8, Concatenated
<1>10. PICK s : s = y \o v
  OBVIOUS
<1>11. s \in Seq(Nat) /\ Len(s) = Len(y) + Len(v) /\ Within(y, s, 0) /\ Within(v, s, Len(y))
  BY <1>7, <1>9, <1>10, Concatenated
<1>12. Within(x, s, 0 + 0) /\ Within(f, s, 0 + Len(x))
  BY <1>2, <1>5, <1>7, <1>11, WithinWithin, SMTT(30)
<1>13. Within(a, s, 0 + 0 + 0) /\ Within(p, s, 0 + 0 + Len(a))
  <2>1. 0 \in Nat /\ 0 + 0 \in Nat /\ Len(a) \in Nat
    OBVIOUS
  <2>2. Within(a, s, 0 + 0 + 0)
    BY <1>5, <1>11, <1>12, <2>1, WithinWithin, Zenon
  <2>3. Within(p, s, 0 + 0 + Len(a))
    BY <1>1, <1>5, <1>11, <1>12, <2>1, WithinWithin, Zenon
  <2> QED BY <2>2, <2>3
<1>14. Within(r, s, Len(y) + 0) /\ Within(z, s, Len(y) + Len(r))
  <2>1. 0 \in Nat /\ Len(y) \in Nat /\ Len(r) \in Nat
    BY <1>7
  <2>2. Within(r, s, Len(y) + 0)
    BY <1>9, <1>11, <2>1, WithinWithin, Zenon
  <2>3. Within(z, s, Len(y) + Len(r))
    BY <1>3, <1>9, <1>11, <2>1, WithinWithin, Zenon
  <2> QED BY <2>2, <2>3
<1>15. /\ 0 + 0 + 0 = 0 /\ 0 + 0 + Len(a) = Len(a) /\ 0 + Len(x) = Len(a) + 2
       /\ Len(y) + 0 = Len(a) + 6 /\ Len(y) + Len(r) = Len(a) + 6 + Len(r)
       /\ Len(s) = Len(a) + 7 + Len(r)
  BY <1>5, <1>7, <1>9, <1>11
<1>16. s = Compressed(a, q, t, r)
  BY <1>1, <1>2, <1>3, <1>4, <1>6, <1>8, <1>10, Zenon DEF Compressed
<1> QED BY <1>1, <1>2, <1>3, <1>11, <1>12, <1>13, <1>14, <1>15, <1>16, Zenon

\* The bytes behind the labels of a question spelled out.
LEMMA SpelledOutBytes ==
    ASSUME data \in Seq(Byte), Len(data) > 12, NEW t \in Types, NEW a \in Seq(Nat),
           Lowered = SpelledOut(a, t)
    PROVE  /\ \E s \in Seq(Nat) : Holds(s) /\ Within(a, s, 0)
           /\ Len(data) = 17 + Len(a) /\ ZeroAt(12 + Len(a))
           /\ Word(13 + Len(a)) = t /\ Word(13 + Len(a) + 2) = 1
<1>0. t \in Nat /\ Len(a) \in Nat /\ Len(a) + 1 \in Nat /\ Len(data) \in Nat
  BY DEF Types
<1>1. PICK s : s = SpelledOut(a, t)
  OBVIOUS
<1>2. /\ s \in Seq(Nat) /\ Len(s) = Len(a) + 5
      /\ Within(a, s, 0) /\ Within(<<0>>, s, Len(a)) /\ Within(Fixed(t), s, Len(a) + 1)
  BY <1>0, <1>1, SpelledOutPieces, Zenon
<1>3. Holds(s)
  BY <1>1, LoweredHolds, Zenon
<1>4. Len(data) = 17 + Len(a)
  BY <1>0, <1>2, <1>3 DEF Holds
<1>5. s[Len(a) + 1] = 0
  BY <1>0, <1>2, WithinZero, Zenon
<1>6. s[Len(a) + 1 + 1] = 0 /\ s[Len(a) + 1 + 2] = t /\ s[Len(a) + 1 + 3] = 0 /\ s[Len(a) + 1 + 4] = 1
  BY <1>0, <1>2, WithinFixed, Zenon
<1>7. ZeroAt(12 + Len(a))
  <2> DEFINE o == 12 + Len(a)
  <2>1. o \in 12..(Len(data) - 1) /\ o - 11 = Len(a) + 1 /\ o < Len(data) /\ 0 \in Nat /\ 0 < 97
    BY <1>0, <1>4
  <2> HIDE DEF o
  <2>2. s[o - 11] = 0
    BY <1>5, <2>1, Zenon
  <2>3. At(o) = 0
    BY <1>2, <1>3, <2>1, <2>2, ByteHeld, Zenon
  <2> QED BY <2>1, <2>3 DEF ZeroAt, o
<1>8. Word(13 + Len(a)) = t /\ Word(13 + Len(a) + 2) = 1
  <2> DEFINE o == 13 + Len(a)
  <2>1. /\ o \in Nat /\ 12 <= o /\ o + 4 <= Len(data)
        /\ o - 11 = Len(a) + 1 + 1 /\ o - 10 = Len(a) + 1 + 2
        /\ o - 9 = Len(a) + 1 + 3 /\ o - 8 = Len(a) + 1 + 4
    BY <1>0, <1>4
  <2> HIDE DEF o
  <2>2. s[o - 11] = 0 /\ s[o - 10] = t /\ s[o - 9] = 0 /\ s[o - 8] = 1
    BY <1>6, <2>1, Zenon
  <2>3. Word(o) = t /\ Word(o + 2) = 1
    BY <1>2, <1>3, <2>1, <2>2, FixedHeld, Zenon
  <2> QED BY <2>3 DEF o
<1> QED BY <1>2, <1>3, <1>4, <1>7, <1>8

\* The bytes behind the first labels of a compressed one.
LEMMA CompressedBytes ==
    ASSUME data \in Seq(Byte), Len(data) > 12, NEW t \in Types,
           NEW a \in Seq(Nat), NEW b \in Seq(Nat), Len(a) < 79,
           NEW q \in Nat, q = 18 + Len(a), Lowered = Compressed(a, q, t, b)
    PROVE  /\ \E s \in Seq(Nat) : Holds(s) /\ Within(a, s, 0) /\ Within(b, s, Len(a) + 6)
           /\ Len(data) = 19 + Len(a) + Len(b) /\ ZeroAt(18 + (Len(a) + Len(b)))
           /\ At(12 + Len(a)) = PointerByte /\ At(13 + Len(a)) = q
           /\ Word(14 + Len(a)) = t /\ Word(14 + Len(a) + 2) = 1
<1>0. /\ t \in Nat /\ Len(a) \in Nat /\ Len(b) \in Nat /\ Len(a) + 2 \in Nat
      /\ Len(a) + 6 + Len(b) \in Nat /\ Len(data) \in Nat
  BY DEF Types
<1>1. PICK s : s = Compressed(a, q, t, b)
  OBVIOUS
<1>2. /\ s \in Seq(Nat) /\ Len(s) = Len(a) + 7 + Len(b) /\ Within(a, s, 0)
      /\ Within(PointerTo(q), s, Len(a)) /\ Within(Fixed(t), s, Len(a) + 2)
      /\ Within(b, s, Len(a) + 6) /\ Within(<<0>>, s, Len(a) + 6 + Len(b))
  BY <1>0, <1>1, CompressedPieces, ZenonT(40)
<1>3. Holds(s)
  BY <1>1, LoweredHolds, Zenon
<1>4. Len(data) = 19 + Len(a) + Len(b)
  BY <1>0, <1>2, <1>3 DEF Holds
<1>5. s[Len(a) + 6 + Len(b) + 1] = 0
  BY <1>0, <1>2, WithinZero, Zenon
<1>6. s[Len(a) + 1] = PointerByte /\ s[Len(a) + 2] = q
  <2>1. s \in Seq(Nat) /\ Within(PointerTo(q), s, Len(a))
    BY <1>2
  <2>2. PICK d \in Nat : d = Len(a)
    BY <1>0
  <2>3. s[d + 1] = PointerByte /\ s[d + 2] = q
    BY <2>1, <2>2, WithinPointer
  <2> QED BY <2>2, <2>3
<1>7. s[Len(a) + 2 + 1] = 0 /\ s[Len(a) + 2 + 2] = t /\ s[Len(a) + 2 + 3] = 0 /\ s[Len(a) + 2 + 4] = 1
  BY <1>0, <1>2, WithinFixed, ZenonT(40)
<1>8. ASSUME NEW o \in 12..(Len(data) - 1), NEW v \in Nat, s[o - 11] = v, v < 97 \/ v > 122
      PROVE  At(o) = v
  BY <1>2, <1>3, <1>8, ByteHeld, Zenon
<1>9. ZeroAt(18 + (Len(a) + Len(b)))
  <2> DEFINE o == 18 + (Len(a) + Len(b))
  <2>1. /\ o \in 12..(Len(data) - 1) /\ o - 11 = Len(a) + 6 + Len(b) + 1 /\ o < Len(data)
        /\ 0 \in Nat /\ 0 < 97
    BY <1>0, <1>4
  <2> HIDE DEF o
  <2>2. s[o - 11] = 0
    BY <1>5, <2>1, Zenon
  <2>3. At(o) = 0
    BY <1>8, <2>1, <2>2, Zenon
  <2> QED BY <2>1, <2>3 DEF ZeroAt, o
<1>10. At(12 + Len(a)) = PointerByte
  <2> DEFINE o == 12 + Len(a)
  <2>1. o \in 12..(Len(data) - 1) /\ o - 11 = Len(a) + 1 /\ PointerByte \in Nat /\ PointerByte > 122
    BY <1>0, <1>4 DEF PointerByte
  <2> HIDE DEF o
  <2>2. s[o - 11] = PointerByte
    BY <1>6, <2>1, Zenon
  <2>3. At(o) = PointerByte
    BY <1>8, <2>1, <2>2, Zenon
  <2> QED BY <2>3 DEF o
<1>11. At(13 + Len(a)) = q
  <2> DEFINE o == 13 + Len(a)
  <2>1. /\ o \in 12..(Len(data) - 1) /\ o - 11 = Len(a) + 2
        /\ q < 97
    BY <1>0, <1>4
  <2> HIDE DEF o
  <2>2. s[o - 11] = q
    BY <1>6, <2>1, Zenon
  <2>3. At(o) = q
    BY <1>8, <2>1, <2>2, Zenon
  <2> QED BY <2>3 DEF o
<1>12. Word(14 + Len(a)) = t /\ Word(14 + Len(a) + 2) = 1
  <2> DEFINE o == 14 + Len(a)
  <2>1. /\ o \in Nat /\ 12 <= o /\ o + 4 <= Len(data)
        /\ o - 11 = Len(a) + 2 + 1 /\ o - 10 = Len(a) + 2 + 2
        /\ o - 9 = Len(a) + 2 + 3 /\ o - 8 = Len(a) + 2 + 4
    BY <1>0, <1>4
  <2> HIDE DEF o
  <2>2. s[o - 11] = 0 /\ s[o - 10] = t /\ s[o - 9] = 0 /\ s[o - 8] = 1
    BY <1>7, <2>1, Zenon
  <2>3. Word(o) = t /\ Word(o + 2) = 1
    BY <1>2, <1>3, <2>1, <2>2, FixedHeld, Zenon
  <2> QED BY <2>3 DEF o
<1> QED BY <1>2, <1>3, <1>4, <1>9, <1>10, <1>11, <1>12, Zenon

\* A question spelled out is laid out so.
LEMMA SpelledOutLayout ==
    ASSUME data \in Seq(Byte), Len(data) > 12, Word(4) = 1,
           NEW n \in Name, ShortLabels(n), NEW t \in Types,
           NEW P, Places(n, P), NEW a \in Seq(Nat), Placed(a, n, Len(n), P),
           Lowered = SpelledOut(a, t)
    PROVE  Layout(n, t, P, Len(n), 0)
<1>0. Len(n) \in Nat /\ Len(a) \in Nat /\ Len(data) \in Nat
  BY NameParts
<1>1. /\ \E s \in Seq(Nat) : Holds(s) /\ Within(a, s, 0)
      /\ Len(data) = 17 + Len(a) /\ ZeroAt(12 + Len(a))
      /\ Word(13 + Len(a)) = t /\ Word(13 + Len(a) + 2) = 1
  BY SpelledOutBytes, Zenon
<1>2. P[Len(n)] = Len(a)
  BY DEF Placed
<1>3. \A k \in 1..Len(n) : LabelAt(n[k], 12 + P[k - 1])
  <2>1. 0 \in Nat /\ Len(n) \in 0..Len(n)
    BY <1>0
  <2>2. PICK s \in Seq(Nat) : Holds(s) /\ Within(a, s, 0)
    BY <1>1
  <2>3. \A k \in 1..Len(n) : LabelAt(n[k], 12 + 0 + P[k - 1])
    BY <2>1, <2>2, LabelsHeld, Zenon
  <2>4. 12 + 0 = 12
    OBVIOUS
  <2> QED BY <2>3, <2>4, Zenon
<1>4. NameEnd(P, Len(n), 0) = 13 + Len(a) /\ Base(0) = 12 /\ 13 + Len(a) + 4 <= Len(data)
  BY <1>0, <1>1, <1>2 DEF NameEnd, Base
<1>5. Len(n) \in 0..Len(n) /\ 0 \in {0, 1} /\ 0 # 1 /\ \A k \in (Len(n) + 1)..Len(n) : FALSE
  BY <1>0
<1> QED BY <1>1, <1>2, <1>3, <1>4, <1>5, Zenon DEF Layout

\* So is a compressed one.
LEMMA CompressedLayout ==
    ASSUME data \in Seq(Byte), Len(data) > 12, Word(4) = 1,
           NEW n \in Name, ShortLabels(n), NEW t \in Types, NEW i \in 0..Len(n),
           NEW P, Places(n, P), NEW a \in Seq(Nat), Placed(a, n, i, P), Len(a) < 79,
           NEW r, NEW Q, IsTail(r, Q, n, P, i),
           NEW b \in Seq(Nat), Placed(b, r, Len(r), Q),
           NEW q \in Nat, q = 18 + Len(a), Lowered = Compressed(a, q, t, b)
    PROVE  Layout(n, t, P, i, 1)
<1>0. /\ Len(n) \in Nat /\ i \in Nat /\ Len(a) \in Nat /\ Len(b) \in Nat
      /\ Len(data) \in Nat /\ Len(r) \in Nat
      /\ r \in Name /\ Len(r) = Len(n) - i /\ Places(r, Q)
  BY NameParts DEF IsTail
<1>1. /\ \E s \in Seq(Nat) : Holds(s) /\ Within(a, s, 0) /\ Within(b, s, Len(a) + 6)
      /\ Len(data) = 19 + Len(a) + Len(b) /\ ZeroAt(18 + (Len(a) + Len(b)))
      /\ At(12 + Len(a)) = PointerByte /\ At(13 + Len(a)) = q
      /\ Word(14 + Len(a)) = t /\ Word(14 + Len(a) + 2) = 1
  BY CompressedBytes
<1>2. PICK s \in Seq(Nat) : Holds(s) /\ Within(a, s, 0) /\ Within(b, s, Len(a) + 6)
  BY <1>1, Zenon
<1>3. P[i] = Len(a) /\ Q[Len(r)] = Len(b)
  BY DEF Placed
<1>4. \A k \in 1..i : LabelAt(n[k], 12 + P[k - 1])
  <2>1. 12 + 0 = 12 /\ 0 \in Nat
    OBVIOUS
  <2>2. \A k \in 1..i : LabelAt(n[k], 12 + 0 + P[k - 1])
    BY <1>2, <2>1, LabelsHeld, Zenon
  <2> QED BY <2>1, <2>2, Zenon
<1>5. \A k \in (i + 1)..Len(n) : LabelAt(n[k], 18 + P[k - 1])
  <2>1. ShortLabels(r)
    <3>1. ASSUME NEW k \in 1..Len(r) PROVE i + k \in 1..Len(n) /\ r[k] = n[i + k]
      BY <1>0 DEF IsTail
    <3> QED BY <3>1, Zenon DEF ShortLabels
  <2>2. Len(r) \in 0..Len(r) /\ Len(a) + 6 \in Nat
    BY <1>0
  <2>3. \A k \in 1..Len(r) : LabelAt(r[k], 12 + (Len(a) + 6) + Q[k - 1])
    BY <1>0, <1>2, <2>1, <2>2, LabelsHeld, Zenon
  <2> TAKE k \in (i + 1)..Len(n)
  <2>4. /\ k - i \in 1..Len(r) /\ k - i - 1 \in 0..Len(r)
        /\ i + (k - i) = k /\ i + (k - i - 1) = k - 1
    BY <1>0
  <2>5. r[k - i] = n[k]
    BY <2>4, Zenon DEF IsTail
  <2>6. P[k - 1] = Len(a) + Q[k - i - 1]
    BY <1>3, <2>4, Zenon DEF IsTail
  <2>7. PICK w \in Nat : w = Q[k - i - 1]
    BY <1>0, <2>4 DEF Places
  <2>8. 12 + (Len(a) + 6) + w = 18 + (Len(a) + w)
    BY <1>0
  <2>9. LabelAt(r[k - i], 12 + (Len(a) + 6) + w)
    BY <2>3, <2>4, <2>7, Zenon
  <2> QED BY <2>5, <2>6, <2>7, <2>8, <2>9, Zenon
<1>6. P[Len(n)] = Len(a) + Len(b)
  <2>1. i + Len(r) = Len(n) /\ Len(r) \in 0..Len(r)
    BY <1>0
  <2> QED BY <1>3, <2>1, Zenon DEF IsTail
<1>7. /\ NameEnd(P, i, 1) = 14 + Len(a) /\ Base(1) = 18 /\ 14 + Len(a) + 4 <= Len(data)
      /\ 13 + Len(a) < Len(data) /\ 1 \in {0, 1} /\ 1 # 0
  <2>1. NameEnd(P, i, 1) = 13 + Len(a) + 1
    BY <1>3, Zenon DEF NameEnd
  <2>2. 13 + Len(a) + 1 = 14 + Len(a) /\ 1 \in {0, 1} /\ 1 # 0
    BY <1>0
  <2>3. 14 + Len(a) + 4 <= Len(data) /\ 13 + Len(a) < Len(data)
    BY <1>0, <1>1, SMTT(30)
  <2>4. Base(1) = 18
    BY DEF Base
  <2> QED BY <2>1, <2>2, <2>3, <2>4
<1>8. At(13 + P[i]) = 18 + P[i]
  BY <1>1, <1>3, Zenon
<1> QED BY <1>1, <1>3, <1>4, <1>5, <1>6, <1>7, <1>8, Zenon DEF Layout

\* Every question that AnswersFollowTables is about has a layout.
LEMMA AsksLayout ==
    ASSUME data \in Seq(Byte), NEW n \in Names, NEW t \in Types, Asks(n, t)
    PROVE  \E P, i, c : Layout(n, t, P, i, c)
<1>1. n \in Name /\ ShortLabels(n) /\ Len(EncodeQname(n)) < 80 /\ Len(n) \in Nat
  BY NamesAre, NameParts
<1>2. Len(data) > 12 /\ Word(4) = 1 /\ Lowered \in Questions(n, Fixed(t))
  <2>1. Len(data) > 12
    BY Zenon DEF Asks
  <2>2. LowerCase(SubSeq(data, 13, Len(data))) = Lowered
    BY <2>1, LoweredIs
  <2> QED BY <2>2, Zenon DEF Asks, Fixed
<1>3. PICK P : Places(n, P) /\ \A k \in 0..Len(n) : Placed(Labels(n, k), n, k, P)
  BY <1>1, LabelsPlaced
<1>4. Len(n) \in 0..Len(n) /\ 0 \in 0..Len(n)
  BY <1>1
<1>5. PICK w \in Seq(Nat) : w = Labels(n, Len(n)) /\ Placed(w, n, Len(n), P)
  BY <1>3, <1>4 DEF Placed
<1>6. CASE Lowered = EncodeQname(n) \o Fixed(t)
  <2>1. Lowered = SpelledOut(w, t)
    BY <1>5, <1>6, Zenon DEF SpelledOut, EncodeQname
  <2>2. Layout(n, t, P, Len(n), 0)
    BY <1>1, <1>2, <1>3, <1>5, <2>1, SpelledOutLayout, Zenon
  <2> QED BY <2>2
<1>7. ASSUME NEW i \in 0..Len(n),
             Lowered = Labels(n, i) \o <<192, 14 + Len(Labels(n, i)) + Len(Fixed(t))>> \o Fixed(t)
                           \o EncodeQname(SubSeq(n, i + 1, Len(n)))
      PROVE  \E Q, j, c : Layout(n, t, Q, j, c)
  <2>1. PICK a \in Seq(Nat) : a = Labels(n, i) /\ Placed(a, n, i, P)
    BY <1>3 DEF Placed
  <2>2. PICK r : r = SubSeq(n, i + 1, Len(n))
    OBVIOUS
  <2>3. r \in Name
    BY <1>1, <2>2 DEF Name
  <2>4. PICK Q : Places(r, Q) /\ \A k \in 0..Len(r) : Placed(Labels(r, k), r, k, Q)
    BY <2>3, LabelsPlaced
  <2>5. PICK b \in Seq(Nat) : b = Labels(r, Len(r)) /\ Placed(b, r, Len(r), Q)
    <3>1. Len(r) \in 0..Len(r)
      BY <2>3, NameParts
    <3> QED BY <2>4, <3>1 DEF Placed
  <2>6. IsTail(r, Q, n, P, i)
    BY <1>1, <1>3, <2>2, <2>4, TailPlaces
  <2>7. Len(a) < 79
    <3>1. Len(w) + 1 < 80 /\ Len(w) \in Nat
      <4>1. Len(w \o <<0>>) < 80
        BY <1>1, <1>5, Zenon DEF EncodeQname
      <4>2. Len(w \o <<0>>) = Len(w) + Len(<<0>>)
        BY ZeroPiece, Concatenated, Zenon
      <4> QED BY <4>1, <4>2, ZeroPiece
    <3>2. Len(a) = P[i] /\ Len(w) = P[Len(n)]
      BY <1>5, <2>1 DEF Placed
    <3>3. CASE i = 0
      <4>1. P[i] = 0
        BY <1>3, <3>3 DEF Places
      <4> QED BY <3>2, <4>1
    <3>4. CASE i # 0
      <4>1. i \in 1..Len(n)
        BY <1>1, <3>4
      <4>2. P[i] <= P[Len(n)]
        BY <1>5, <4>1 DEF Placed
      <4> QED BY <3>1, <3>2, <4>2
    <3> QED BY <3>3, <3>4
  <2>8. PICK q \in Nat : q = 18 + Len(a) /\ q = 14 + Len(a) + Len(Fixed(t))
    <3>1. Len(Fixed(t)) = 4
      BY DEF Fixed
    <3>2. 18 + Len(a) \in Nat /\ 18 + Len(a) = 14 + Len(a) + 4
      OBVIOUS
    <3> QED BY <3>1, <3>2, Zenon
  <2>9. Lowered = Compressed(a, q, t, b)
    <3>1. Lowered = a \o <<192, q>> \o Fixed(t) \o EncodeQname(r)
      BY <1>7, <2>1, <2>2, <2>8
    <3>2. EncodeQname(r) = b \o <<0>>
      BY <2>5, Zenon DEF EncodeQname
    <3> QED BY <3>1, <3>2, Zenon DEF Compressed, PointerTo
  <2>10. Layout(n, t, P, i, 1)
    BY <1>1, <1>2, <1>3, <2>1, <2>5, <2>6, <2>7, <2>8, <2>9, CompressedLayout, Zenon
  <2> QED BY <2>10
<1> QED BY <1>2, <1>6, <1>7, Zenon DEF Questions

-----------------------------------------------------------------------------
(***************************************************************************)
(* The handler reads a question along its layout and answers from the      *)
(* tables: the invariant behind AnswersFollowTables.                       *)
(***************************************************************************)

\* The first k labels of n were read, in any case.
ReadUpTo(n, k) ==
    /\ name \in Text
    /\ LowerCase(name) = TextUpTo(n, k)

\* The place of label k + 1, before the pointer and behind it.
Before(P, i, k) == k <= i /\ offset = 12 + P[k] /\ depth = 0 /\ end = None
Behind(P, i, c, k) ==
    c = 1 /\ k >= i /\ offset = 18 + P[k] /\ depth = 1 /\ end = NameEnd(P, i, c)

\* How far the handler is with a question of this layout.
AtPlace(n, P, i, c) ==
    /\ pc = "header" => name = <<>>
    /\ pc = "name" =>
          \E k \in 0..Len(n) : ReadUpTo(n, k) /\ (Before(P, i, k) \/ Behind(P, i, c, k))
    /\ pc = "question" => ReadUpTo(n, Len(n)) /\ end = NameEnd(P, i, c)

\* The answer for n and t is as the tables demand.
Told(n, t) ==
    pc = "done" =>
        /\ reply.rcode = IF NameExists(TextOf(n)) THEN 0 ELSE 3
        /\ {reply.records[i] : i \in DOMAIN reply.records} =
              {<<5, target>> : target \in Alias(TextOf(n))}
              \cup {<<t, s>> : s \in Owners(TextOf(n)) \cap Table(t)}

TellInv ==
    /\ Inv /\ Starting
    /\ \A n \in Names, t \in Types :
          \A P, i, c : Layout(n, t, P, i, c) => AtPlace(n, P, i, c) /\ Told(n, t)

LEMMA LayoutStays ==
    ASSUME data' = data, NEW n, NEW t, NEW P, NEW i, NEW c
    PROVE  Layout(n, t, P, i, c)' <=> Layout(n, t, P, i, c)
<1>1. \A o : At(o)' = At(o) /\ Word(o)' = Word(o) /\ (ZeroAt(o)' <=> ZeroAt(o))
  BY DEF At, Word, ZeroAt
<1>2. \A w, o : LabelAt(w, o)' <=> LabelAt(w, o)
  BY DEF LabelAt, At
<1> QED BY <1>1, <1>2 DEF Layout

\* The lower-case image of a text, byte by byte.
LEMMA LowerCaseIs ==
    ASSUME NEW s \in Seq(Byte)
    PROVE  /\ LowerCase(s) \in Seq(Byte) /\ Len(LowerCase(s)) = Len(s)
           /\ \A j \in 1..Len(s) : LowerCase(s)[j] = Lower(s[j])
<1>1. Len(s) \in Nat /\ DOMAIN s = 1..Len(s) /\ \A j \in 1..Len(s) : s[j] \in Byte
  OBVIOUS
<1>2. \A b \in Byte : Lower(b) \in Byte
  BY DEF Byte, Lower
<1>3. LowerCase(s) = [j \in 1..Len(s) |-> Lower(s[j])]
  BY <1>1, Zenon DEF LowerCase
<1>4. \A j \in 1..Len(s) : Lower(s[j]) \in Byte
  BY <1>1, <1>2, Zenon
<1> QED BY <1>1, <1>3, <1>4

\* Two sequences of bytes with a dot between them.
LEMMA DotBetween ==
    ASSUME NEW s \in Seq(Byte), NEW w \in Seq(Byte)
    PROVE  /\ s \o <<Dot>> \o w \in Seq(Byte)
           /\ Len(s \o <<Dot>> \o w) = Len(s) + 1 + Len(w)
           /\ \A j \in 1..Len(s) : (s \o <<Dot>> \o w)[j] = s[j]
           /\ (s \o <<Dot>> \o w)[Len(s) + 1] = Dot
           /\ \A j \in 1..Len(w) : (s \o <<Dot>> \o w)[Len(s) + 1 + j] = w[j]
<1>1. <<Dot>> \in Seq(Byte) /\ Len(<<Dot>>) = 1 /\ <<Dot>>[1] = Dot
  BY DEF Dot, Byte
<1> QED BY <1>1

\* The dot stays, whatever is joined.
LEMMA LowerJoined ==
    ASSUME NEW s \in Text, NEW w \in Seq(Byte)
    PROVE  LowerCase(Joined(s, w)) = Joined(LowerCase(s), LowerCase(w))
<1> DEFINE a == LowerCase(s)
           b == LowerCase(w)
           c == s \o <<Dot>> \o w
           d == a \o <<Dot>> \o b
<1>1. /\ s \in Seq(Byte) /\ Len(s) \in Nat /\ Len(w) \in Nat
      /\ a \in Seq(Byte) /\ Len(a) = Len(s) /\ \A j \in 1..Len(s) : a[j] = Lower(s[j])
      /\ b \in Seq(Byte) /\ Len(b) = Len(w) /\ \A j \in 1..Len(w) : b[j] = Lower(w[j])
  BY LowerCaseIs DEF Text
<1>2. <<Dot>> \in Seq(Byte) /\ Len(<<Dot>>) = 1 /\ <<Dot>>[1] = Dot /\ Lower(Dot) = Dot
  BY DEF Dot, Byte, Lower
<1>3. (s = <<>> <=> a = <<>>) /\ (w = <<>> <=> b = <<>>)
  BY <1>1
<1> HIDE DEF a, b
<1>4. /\ c \in Seq(Byte) /\ Len(c) = Len(s) + 1 + Len(w)
      /\ \A j \in 1..Len(s) : c[j] = s[j]
      /\ c[Len(s) + 1] = Dot
      /\ \A j \in 1..Len(w) : c[Len(s) + 1 + j] = w[j]
  BY <1>1, DotBetween, Zenon
<1>5. /\ d \in Seq(Byte) /\ Len(d) = Len(s) + 1 + Len(w)
      /\ \A j \in 1..Len(s) : d[j] = a[j]
      /\ d[Len(s) + 1] = Dot
      /\ \A j \in 1..Len(w) : d[Len(s) + 1 + j] = b[j]
  <2>1. /\ d \in Seq(Byte) /\ Len(d) = Len(a) + 1 + Len(b)
        /\ \A j \in 1..Len(a) : d[j] = a[j]
        /\ d[Len(a) + 1] = Dot
        /\ \A j \in 1..Len(b) : d[Len(a) + 1 + j] = b[j]
    BY <1>1, DotBetween, Zenon
  <2> HIDE DEF d
  <2> QED BY <1>1, <2>1
<1> HIDE DEF c, d
<1>6. LowerCase(c) \in Seq(Byte) /\ Len(LowerCase(c)) = Len(d)
      /\ \A j \in 1..Len(d) : LowerCase(c)[j] = Lower(c[j])
  <2>1. Len(c) = Len(d)
    BY <1>4, <1>5, Zenon
  <2>2. LowerCase(c) \in Seq(Byte) /\ Len(LowerCase(c)) = Len(c)
        /\ \A j \in 1..Len(c) : LowerCase(c)[j] = Lower(c[j])
    BY <1>4, LowerCaseIs
  <2> QED BY <2>1, <2>2, Zenon
<1>7. ASSUME NEW j \in 1..Len(d) PROVE LowerCase(c)[j] = d[j]
  <2>1. \A x, y \in Nat : \A i \in 1..(x + 1 + y) :
           i \in 1..x \/ i = x + 1 \/ \E m \in 1..y : i = x + 1 + m
    <3> TAKE x, y \in Nat
    <3> TAKE i \in 1..(x + 1 + y)
    <3>1. CASE i > x + 1
      <4>1. i - (x + 1) \in 1..y /\ i = x + 1 + (i - (x + 1))
        BY <3>1
      <4> QED BY <4>1
    <3> QED BY <3>1
  <2>2. j \in 1..Len(s) \/ j = Len(s) + 1 \/ \E m \in 1..Len(w) : j = Len(s) + 1 + m
    <3>1. j \in 1..(Len(s) + 1 + Len(w)) /\ Len(s) \in Nat /\ Len(w) \in Nat
      BY <1>1, <1>5
    <3> QED BY <2>1, <3>1
  <2>3. LowerCase(c)[j] = Lower(c[j])
    BY <1>6, Zenon
  <2>4. CASE j \in 1..Len(s)
    BY <1>1, <1>4, <1>5, <2>3, <2>4, Zenon
  <2>5. CASE j = Len(s) + 1
    BY <1>2, <1>4, <1>5, <2>3, <2>5, Zenon
  <2>6. ASSUME NEW m \in 1..Len(w), j = Len(s) + 1 + m PROVE LowerCase(c)[j] = d[j]
    BY <1>1, <1>4, <1>5, <2>3, <2>6, Zenon
  <2> QED BY <2>2, <2>4, <2>5, <2>6, Zenon
<1>8. LowerCase(c) = d
  BY <1>5, <1>6, <1>7, SeqEqual
<1> QED BY <1>3, <1>8, Zenon DEF Joined, a, b, c, d

\* The recursion of TextUpTo.
LEMMA TextsAre ==
    ASSUME NEW n \in Name
    PROVE  /\ \A k \in 0..Len(n) : TextUpTo(n, k) \in Seq(Byte)
           /\ TextUpTo(n, 0) = <<>>
           /\ \A k \in 1..Len(n) : TextUpTo(n, k) =
                 IF k = 1 THEN n[1] ELSE TextUpTo(n, k - 1) \o <<Dot>> \o n[k]
<1> DEFINE m == Len(n)
           V == Seq(Byte)
           step == [i \in 1..m |-> [v \in V |-> IF i = 1 THEN n[1] ELSE v \o <<Dot>> \o n[i]]]
           upTo == CHOOSE h : h = [i \in 0..Len(n) |->
                      IF i = 0 THEN <<>> ELSE IF i = 1 THEN n[1] ELSE h[i - 1] \o <<Dot>> \o n[i]]
<1>1. m \in Nat /\ \A i \in 1..m : n[i] \in Seq(Byte)
  BY NameParts
<1>2. step \in [1..m -> [V -> V]] /\ <<>> \in V
  <2>1. <<Dot>> \in V
    BY DEF Dot, Byte
  <2>2. \A i \in 1..m, v \in V : (IF i = 1 THEN n[1] ELSE v \o <<Dot>> \o n[i]) \in V
    BY <1>1, <2>1
  <2>3. <<>> \in V
    OBVIOUS
  <2> HIDE DEF V
  <2> QED BY <2>2, <2>3
<1>3. PICK f \in [0..m -> V] :
         Follows(f, m, <<>>, step) /\ Determines(f, m, V, <<>>, step)
  <2> HIDE DEF step, V, m, upTo
  <2> QED BY <1>1, <1>2, RecursionDefines, Zenon
<1>4. \A i \in 1..m : f[i] = IF i = 1 THEN n[1] ELSE f[i - 1] \o <<Dot>> \o n[i]
  <2> TAKE i \in 1..m
  <2>1. f[i - 1] \in V
    BY <1>1
  <2> HIDE DEF V
  <2> QED BY <1>3, <2>1, Zenon DEF Follows
<1>5. f = [i \in 0..m |-> IF i = 0 THEN <<>>
                          ELSE IF i = 1 THEN n[1] ELSE f[i - 1] \o <<Dot>> \o n[i]]
  <2>1. f[0] = <<>>
    BY <1>3 DEF Follows
  <2>2. ASSUME NEW i \in 0..m, i # 0
        PROVE  f[i] = IF i = 1 THEN n[1] ELSE f[i - 1] \o <<Dot>> \o n[i]
    <3>1. i \in 1..m
      BY <1>1, <2>2
    <3> QED BY <1>4, <3>1, Zenon
  <2>3. f = [i \in 0..m |-> f[i]]
    BY <1>3
  <2>4. \A i \in 0..m : f[i] = IF i = 0 THEN <<>>
                               ELSE IF i = 1 THEN n[1] ELSE f[i - 1] \o <<Dot>> \o n[i]
    BY <2>1, <2>2, Zenon
  <2> QED BY <2>3, <2>4, Zenon
<1>6. upTo = [i \in 0..m |-> IF i = 0 THEN <<>>
                             ELSE IF i = 1 THEN n[1] ELSE upTo[i - 1] \o <<Dot>> \o n[i]]
  BY <1>5, Zenon
<1>7. \A k : TextUpTo(n, k) = upTo[k]
  BY Zenon DEF TextUpTo
<1> HIDE DEF upTo
<1>8. /\ upTo[0] = <<>>
      /\ \A i \in 1..m : upTo[i] = IF i = 1 THEN n[1] ELSE upTo[i - 1] \o <<Dot>> \o n[i]
  <2>1. \A i \in 0..m : upTo[i] = IF i = 0 THEN <<>>
                                  ELSE IF i = 1 THEN n[1] ELSE upTo[i - 1] \o <<Dot>> \o n[i]
    BY <1>6, Zenon
  <2>2. ASSUME NEW i \in 1..m
        PROVE  upTo[i] = IF i = 1 THEN n[1] ELSE upTo[i - 1] \o <<Dot>> \o n[i]
    <3>1. i \in 0..m /\ i # 0
      BY <1>1
    <3> QED BY <2>1, <3>1, Zenon
  <2>3. 0 \in 0..m
    BY <1>1
  <2> QED BY <2>1, <2>2, <2>3, Zenon
<1>9. \A i \in 0..m : upTo[i] = f[i]
  <2>1. \A i \in 1..m : upTo[i - 1] \in V => upTo[i] = step[i][upTo[i - 1]]
    <3> TAKE i \in 1..m
    <3> HIDE DEF V
    <3> QED BY <1>8, Zenon
  <2> HIDE DEF step, V, m
  <2> QED BY <1>3, <1>8, <2>1 DEF Determines
<1>10. \A k \in 0..m : upTo[k] \in V
  BY <1>3, <1>9
<1> HIDE DEF V, step
<1>11. \A k \in 0..Len(n) : TextUpTo(n, k) \in V
  BY <1>7, <1>10, Zenon
<1> QED BY <1>7, <1>8, <1>11, Zenon DEF V

\* The text of a name grows label by label, and does not end in a dot.
LEMMA TextsJoin ==
    ASSUME NEW n \in Names, NEW k \in 1..Len(n)
    PROVE  /\ TextUpTo(n, k) = Joined(TextUpTo(n, k - 1), n[k])
           /\ TextUpTo(n, k) \in Seq(Byte) /\ Len(TextUpTo(n, k)) >= 1
           /\ TextUpTo(n, k)[Len(TextUpTo(n, k))] # Dot
<1>1. n \in Name /\ Len(n) \in Nat
  BY NamesAre, NameParts
<1>2. ASSUME NEW i \in 1..Len(n)
      PROVE  n[i] \in Seq(Byte) /\ Len(n[i]) \in Nat /\ Len(n[i]) >= 1 /\ n[i][Len(n[i])] # Dot
  <2>1. n[i] \in Seq(Byte) /\ Len(n[i]) \in Nat
    BY <1>1, NameParts
  <2>2. Len(n[i]) >= 1
    BY NamesAre, Zenon DEF ShortLabels
  <2>3. i \in DOMAIN n /\ Len(n[i]) \in DOMAIN n[i]
    BY <1>1, <2>1, <2>2 DEF Name
  <2>4. n[i][Len(n[i])] \in (0..127) \ ({Dot} \cup 65..90)
    BY <2>3, NamesAssumption, Zenon
  <2>5. n[i][Len(n[i])] # Dot
    BY <2>4, Zenon
  <2> QED BY <2>1, <2>2, <2>5
<1>3. ASSUME NEW i \in 1..Len(n), i # 1
      PROVE  /\ i - 1 \in 1..Len(n) /\ TextUpTo(n, i - 1) \in Seq(Byte)
             /\ TextUpTo(n, i) = TextUpTo(n, i - 1) \o <<Dot>> \o n[i]
             /\ Len(TextUpTo(n, i)) = Len(TextUpTo(n, i - 1)) + 1 + Len(n[i])
             /\ TextUpTo(n, i)[Len(TextUpTo(n, i))] = n[i][Len(n[i])]
  <2>1. i - 1 \in 1..Len(n) /\ i - 1 \in 0..Len(n)
    BY <1>1, <1>3
  <2>2. TextUpTo(n, i - 1) \in Seq(Byte)
    BY <1>1, <2>1, TextsAre, Zenon
  <2>3. TextUpTo(n, i) = TextUpTo(n, i - 1) \o <<Dot>> \o n[i]
    BY <1>1, <1>3, TextsAre, Zenon
  <2>4. ASSUME NEW a \in Seq(Byte), NEW w \in Seq(Byte), Len(w) >= 1
        PROVE  /\ Len(a \o <<Dot>> \o w) = Len(a) + 1 + Len(w)
               /\ (a \o <<Dot>> \o w)[Len(a \o <<Dot>> \o w)] = w[Len(w)]
    <3>1. Len(w) \in 1..Len(w)
      BY <2>4
    <3>2. Len(a \o <<Dot>> \o w) = Len(a) + 1 + Len(w)
      BY DotBetween, Zenon
    <3>3. (a \o <<Dot>> \o w)[Len(a) + 1 + Len(w)] = w[Len(w)]
      BY <3>1, DotBetween, Zenon
    <3> QED BY <3>2, <3>3, Zenon
  <2>5. n[i] \in Seq(Byte) /\ Len(n[i]) >= 1
    BY <1>2
  <2>6. /\ Len(TextUpTo(n, i)) = Len(TextUpTo(n, i - 1)) + 1 + Len(n[i])
        /\ TextUpTo(n, i)[Len(TextUpTo(n, i))] = n[i][Len(n[i])]
    <3> DEFINE a == TextUpTo(n, i - 1)
               w == n[i]
    <3>1. a \in Seq(Byte) /\ w \in Seq(Byte) /\ Len(w) >= 1
      BY <2>2, <2>5
    <3>2. TextUpTo(n, i) = a \o <<Dot>> \o w
      BY <2>3
    <3> HIDE DEF a, w
    <3>3. /\ Len(a \o <<Dot>> \o w) = Len(a) + 1 + Len(w)
          /\ (a \o <<Dot>> \o w)[Len(a \o <<Dot>> \o w)] = w[Len(w)]
      BY <2>4, <3>1
    <3>4. /\ Len(TextUpTo(n, i)) = Len(a) + 1 + Len(w)
          /\ TextUpTo(n, i)[Len(TextUpTo(n, i))] = w[Len(w)]
      BY <3>2, <3>3, Zenon
    <3> QED BY <3>4 DEF a, w
  <2> QED BY <2>1, <2>2, <2>3, <2>6, Zenon
<1>4. \A i \in 1..Len(n) : TextUpTo(n, i) \in Seq(Byte)
  <2>1. \A i \in 1..Len(n) : i \in 0..Len(n)
    BY <1>1
  <2> QED BY <1>1, <2>1, TextsAre, Zenon
<1>5. 1 \in 1..Len(n) => TextUpTo(n, 1) = n[1]
  BY <1>1, TextsAre, Zenon
<1>6. ASSUME NEW i \in 1..Len(n)
      PROVE  Len(TextUpTo(n, i)) >= 1 /\ TextUpTo(n, i) # <<>>
  <2>1. Len(TextUpTo(n, i)) >= 1
    <3>1. CASE i = 1
      BY <1>2, <1>5, <3>1
    <3>2. CASE i # 1
      <4>1. /\ Len(TextUpTo(n, i)) = Len(TextUpTo(n, i - 1)) + 1 + Len(n[i])
            /\ Len(TextUpTo(n, i - 1)) \in Nat /\ Len(n[i]) \in Nat
        BY <1>2, <1>3, <3>2, LenProperties, Zenon
      <4>2. \A x, y \in Nat : x + 1 + y >= 1
        OBVIOUS
      <4> QED BY <4>1, <4>2, Zenon
    <3> QED BY <3>1, <3>2
  <2>2. Len(<<>>) = 0 /\ ~(0 >= 1)
    OBVIOUS
  <2> QED BY <2>1, <2>2, Zenon
<1>7. CASE k = 1
  <2>1. TextUpTo(n, k - 1) = <<>> /\ TextUpTo(n, k) = n[k] /\ n[k] # <<>>
    <3>1. k - 1 = 0
      BY <1>7
    <3>2. TextUpTo(n, 0) = <<>>
      BY <1>1, TextsAre, Zenon
    <3>3. TextUpTo(n, k) = n[k]
      BY <1>5, <1>7, Zenon
    <3> QED BY <1>6, <3>1, <3>2, <3>3, Zenon
  <2>2. TextUpTo(n, k)[Len(TextUpTo(n, k))] # Dot
    BY <1>2, <2>1, Zenon
  <2> QED BY <1>4, <1>6, <2>1, <2>2, Zenon DEF Joined
<1>8. CASE k # 1
  <2>1. TextUpTo(n, k - 1) # <<>>
    BY <1>3, <1>6, <1>8, Zenon
  <2>2. n[k] # <<>>
    BY <1>2
  <2>3. TextUpTo(n, k)[Len(TextUpTo(n, k))] # Dot
    BY <1>2, <1>3, <1>8, Zenon
  <2>4. TextUpTo(n, k) = TextUpTo(n, k - 1) \o <<Dot>> \o n[k]
    BY <1>3, <1>8, Zenon
  <2> QED BY <1>4, <1>6, <2>1, <2>2, <2>3, <2>4, Zenon DEF Joined
<1> QED BY <1>7, <1>8

\* A label is read where it stands.
LEMMA LabelRead ==
    ASSUME Inv, DecodeName, NEW n \in Names, NEW k \in 1..Len(n),
           LabelAt(n[k], offset), ReadUpTo(n, k - 1)
    PROVE  /\ ReadUpTo(n, k)' /\ offset' = offset + 1 + Len(n[k])
           /\ UNCHANGED <<data, pc, depth, end, reply>>
<1>1. /\ n \in Name /\ ShortLabels(n) /\ Len(n) \in Nat /\ k \in Nat
      /\ n[k] \in Seq(Byte) /\ Len(n[k]) \in Nat
  BY NamesAre, NameParts
<1> DEFINE l == Len(n[k])
<1>2. l \in Nat /\ l >= 1 /\ l <= 63
  BY <1>1 DEF ShortLabels
<1>3. data \in Seq(Byte) /\ Len(data) \in Nat /\ offset \in Nat /\ pc = "name"
  BY DEF Inv, TypeOK, DecodeName
<1>4. At(offset) = l /\ offset + 1 + l <= Len(data)
  BY DEF LabelAt
<1>5. \A j \in 1..l : Lower(At(offset + j)) = n[k][j]
  BY DEF LabelAt
<1> HIDE DEF l
<1> DEFINE label == SubSeq(data, offset + 2, offset + 1 + l)
<1>6. /\ label \in Seq(Byte) /\ Len(label) = l
      /\ \A j \in 1..l : label[j] = At(offset + j)
  <2>1. \A i \in (offset + 2)..(offset + 1 + l) : data[i] \in Byte
    BY <1>2, <1>3, <1>4
  <2>2. label \in Seq(Byte) /\ Len(label) = l
    BY <1>2, <1>3, <1>4, <2>1, SubSeqProperties
  <2>3. \A j \in 1..l : label[j] = data[offset + j + 1]
    BY <1>2, <1>3, <1>4, SubSeqProperties
  <2> QED BY <2>2, <2>3 DEF At
<1> HIDE DEF label
<1>7. Ascii(label) = label /\ label # <<>>
  <2>1. ASSUME NEW j \in 1..Len(label) PROVE label[j] < 128
    <3>1. j \in 1..l /\ label[j] = At(offset + j) /\ label[j] \in Byte
      BY <1>6
    <3>2. Lower(label[j]) = n[k][j]
      BY <1>5, <3>1, Zenon
    <3>3. n[k][j] \in (0..127) \ ({Dot} \cup 65..90)
      <4>1. k \in DOMAIN n /\ j \in DOMAIN n[k]
        BY <1>1, <3>1 DEF l, Name
      <4> QED BY <4>1, NamesAssumption, Zenon
    <3>4. \A b \in Byte : Lower(b) < 128 => b < 128
      BY DEF Byte, Lower
    <3>5. \A x \in (0..127) \ ({Dot} \cup 65..90) : x < 128
      OBVIOUS
    <3>6. Lower(label[j]) < 128
      BY <3>2, <3>3, <3>5, ZenonT(40)
    <3> QED BY <3>1, <3>4, <3>6, Zenon
  <2>2. Len(label) # 0
    BY <1>2, <1>6
  <2> QED BY <1>6, <2>1, <2>2, AsciiOfLabel
<1>8. /\ name' = Joined(name, label) /\ offset' = offset + 1 + l
      /\ UNCHANGED <<data, pc, depth, end, reply>>
  <2>1. /\ ~(offset >= Len(data)) /\ At(offset) # 0 /\ ~IsPointer(At(offset))
        /\ ~(offset + 1 + At(offset) > Len(data))
    BY <1>2, <1>3, <1>4 DEF IsPointer
  <2>2. /\ name' = Joined(name, Ascii(SubSeq(data, offset + 2, offset + 1 + At(offset))))
        /\ offset' = offset + 1 + At(offset)
        /\ UNCHANGED <<data, pc, depth, end, reply>>
    BY <2>1, Zenon DEF DecodeName
  <2> QED BY <1>4, <1>7, <2>2, Zenon DEF label
<1>9. name \in Text /\ LowerCase(name) = TextUpTo(n, k - 1)
  BY Zenon DEF ReadUpTo
<1>10. LowerCase(label) = n[k]
  <2>1. LowerCase(label) \in Seq(Byte) /\ Len(LowerCase(label)) = l
        /\ \A j \in 1..l : LowerCase(label)[j] = Lower(label[j])
    BY <1>6, LowerCaseIs, Zenon
  <2>2. \A j \in 1..l : LowerCase(label)[j] = n[k][j]
    BY <1>5, <1>6, <2>1, Zenon
  <2>3. Len(n[k]) = l
    BY DEF l
  <2> QED BY <1>1, <2>1, <2>2, <2>3, SeqEqual
<1>11. Joined(name, label) \in Text
  BY <1>6, <1>9, JoinedIsText
<1>12. LowerCase(Joined(name, label)) = TextUpTo(n, k)
  <2>1. LowerCase(Joined(name, label)) = Joined(LowerCase(name), LowerCase(label))
    BY <1>6, <1>9, LowerJoined, Zenon
  <2>2. TextUpTo(n, k) = Joined(TextUpTo(n, k - 1), n[k])
    BY <1>1, TextsJoin, Zenon
  <2> QED BY <1>9, <1>10, <2>1, <2>2, Zenon
<1>13. ReadUpTo(n, k)'
  BY <1>8, <1>11, <1>12, Zenon DEF ReadUpTo
<1> QED BY <1>8, <1>13 DEF l

\* A zero is read where it stands.
LEMMA ZeroRead ==
    ASSUME Inv, DecodeName, ZeroAt(offset)
    PROVE  pc' = "question" /\ end' = EndAt(offset + 1) /\ UNCHANGED <<data, name>>
<1>1. offset \in Nat /\ Len(data) \in Nat
  BY DEF Inv, TypeOK
<1>2. ~(offset >= Len(data)) /\ At(offset) = 0
  BY <1>1 DEF ZeroAt
<1> QED BY <1>2, Zenon DEF DecodeName

\* So is the pointer of a compressed question.
LEMMA PointerRead ==
    ASSUME Inv, DecodeName, depth = 0, end = None, offset + 1 < Len(data),
           At(offset) = PointerByte
    PROVE  /\ pc' = "name" /\ offset' = At(offset + 1) /\ depth' = 1 /\ end' = offset + 2
           /\ UNCHANGED <<data, name>>
<1>1. offset \in Nat /\ Len(data) \in Nat /\ data \in Seq(Byte) /\ pc = "name"
  BY DEF Inv, TypeOK, DecodeName
<1>2. ~(offset >= Len(data)) /\ ~(offset + 1 >= Len(data))
  BY <1>1
<1>3. At(offset) # 0 /\ IsPointer(At(offset)) /\ At(offset) % 64 = 0
  BY DEF IsPointer, PointerByte
<1>4. ~TooDeep(Deeper) /\ Deeper = 1
  BY DnsAssumption DEF TooDeep, Deeper
<1>5. /\ offset' = (At(offset) % 64) * 256 + At(offset + 1)
      /\ depth' = Deeper /\ end' = EndAt(offset + 2)
      /\ UNCHANGED <<data, pc, name, reply>>
  BY <1>2, <1>3, <1>4, Zenon DEF DecodeName
<1>6. At(offset + 1) \in Nat
  BY <1>1, AtByte
<1>7. EndAt(offset + 2) = offset + 2
  BY DEF EndAt
<1> QED BY <1>1, <1>3, <1>4, <1>5, <1>6, <1>7

\* The handler goes on along the layout.
LEMMA DecodeNameTells ==
    ASSUME Inv, DecodeName, NEW n \in Names, NEW t \in Types,
           NEW P, NEW i, NEW c, Layout(n, t, P, i, c), AtPlace(n, P, i, c)
    PROVE  AtPlace(n, P, i, c)' /\ Told(n, t)' /\ data' = data
<1>1. pc = "name" /\ n \in Name /\ Len(n) \in Nat
  BY NamesAre, NameParts DEF DecodeName
<1>2. PICK k \in 0..Len(n) : ReadUpTo(n, k) /\ (Before(P, i, k) \/ Behind(P, i, c, k))
  BY <1>1, Zenon DEF AtPlace
<1>3. /\ Places(n, P) /\ i \in 0..Len(n) /\ c \in {0, 1} /\ (c = 0 => i = Len(n))
      /\ \A m \in 1..i : LabelAt(n[m], 12 + P[m - 1])
      /\ \A m \in (i + 1)..Len(n) : LabelAt(n[m], 18 + P[m - 1])
      /\ ZeroAt(Base(c) + P[Len(n)])
      /\ c = 1 => /\ 13 + P[i] < Len(data)
                  /\ At(12 + P[i]) = PointerByte /\ At(13 + P[i]) = 18 + P[i]
  BY Zenon DEF Layout
<1>4. P[k] \in Nat /\ P[i] \in Nat
  BY <1>1, <1>3 DEF Places
\* Once the name is read, the rest is the same for both.
<1>5. ASSUME k = Len(n), ZeroAt(offset), EndAt(offset + 1) = NameEnd(P, i, c)
      PROVE  AtPlace(n, P, i, c)' /\ Told(n, t)' /\ data' = data
  <2>1. pc' = "question" /\ end' = EndAt(offset + 1) /\ UNCHANGED <<data, name>>
    BY <1>5, ZeroRead
  <2>2. ReadUpTo(n, Len(n))'
    BY <1>2, <1>5, <2>1, Zenon DEF ReadUpTo
  <2> QED BY <1>5, <2>1, <2>2, Zenon DEF AtPlace, Told
\* A label.
<1>6. ASSUME k < Len(n), LabelAt(n[k + 1], offset)
      PROVE  /\ pc' = "name" /\ ReadUpTo(n, k + 1)' /\ k + 1 \in 0..Len(n)
             /\ P[k + 1] \in Nat /\ offset' = offset + P[k + 1] - P[k]
             /\ UNCHANGED <<data, depth, end>>
  <2>1. k + 1 \in 1..Len(n) /\ (k + 1) - 1 = k
    BY <1>1, <1>6
  <2>2. P[k + 1] \in Nat /\ P[k + 1] = P[k] + 1 + Len(n[k + 1]) /\ Len(n[k + 1]) \in Nat
    BY <1>1, <1>3, <2>1, NextPlace
  <2>3. ReadUpTo(n, (k + 1) - 1)
    BY <1>2, <2>1, Zenon
  <2>4. /\ ReadUpTo(n, k + 1)' /\ offset' = offset + 1 + Len(n[k + 1])
        /\ UNCHANGED <<data, pc, depth, end, reply>>
    BY <1>6, <2>1, <2>3, LabelRead, Zenon
  <2>5. offset \in Nat
    BY DEF Inv, TypeOK
  <2>6. offset' = offset + P[k + 1] - P[k]
    <3>1. \A a, l, o \in Nat : o + 1 + l = o + (a + 1 + l) - a
      OBVIOUS
    <3>2. offset + 1 + Len(n[k + 1]) = offset + (P[k] + 1 + Len(n[k + 1])) - P[k]
      BY <1>4, <2>2, <2>5, <3>1, Zenon
    <3>3. offset + 1 + Len(n[k + 1]) = offset + P[k + 1] - P[k]
      BY <2>2, <3>2, Zenon
    <3> QED BY <2>4, <3>3, Zenon
  <2>7. k + 1 \in 0..Len(n)
    BY <1>1, <2>1
  <2>8. pc' = "name"
    BY <1>1, <2>4, Zenon
  <2>9. P[k + 1] \in Nat /\ UNCHANGED <<data, depth, end>>
    BY <2>2, <2>4, Zenon
  <2>10. ReadUpTo(n, k + 1)'
    BY <2>4, Zenon
  <2> QED BY <2>6, <2>7, <2>8, <2>9, <2>10, Zenon
<1>7. CASE Before(P, i, k)
  <2>1. k <= i /\ offset = 12 + P[k] /\ depth = 0 /\ end = None
    BY <1>7 DEF Before
  <2>2. CASE k < i
    <3>1. k < Len(n) /\ k + 1 \in 1..i /\ (k + 1) - 1 = k
      BY <1>1, <1>3, <2>2
    <3>2. LabelAt(n[k + 1], 12 + P[(k + 1) - 1])
      BY <1>3, <3>1, Zenon
    <3>3. LabelAt(n[k + 1], offset)
      BY <2>1, <3>1, <3>2, Zenon
    <3>4. Before(P, i, k + 1)'
      BY <1>3, <1>4, <1>6, <2>1, <2>2, <3>1, <3>3 DEF Before
    <3> QED BY <1>6, <3>1, <3>3, <3>4, Zenon DEF AtPlace, Told
  <2>3. CASE k = i /\ c = 0
    <3>1. k = Len(n) /\ Base(c) = 12
      BY <1>3, <2>3 DEF Base
    <3>2. ZeroAt(offset)
      BY <1>3, <2>1, <3>1, Zenon
    <3>3. EndAt(offset + 1) = NameEnd(P, i, c)
      BY <1>4, <2>1, <2>3 DEF EndAt, NameEnd
    <3> QED BY <1>5, <3>1, <3>2, <3>3
  <2>4. CASE k = i /\ c = 1
    <3>1. offset + 1 = 13 + P[i] /\ offset = 12 + P[i] /\ offset + 2 = NameEnd(P, i, c)
      BY <1>4, <2>1, <2>4 DEF NameEnd
    <3>2. offset + 1 < Len(data) /\ At(offset) = PointerByte /\ At(offset + 1) = 18 + P[i]
      BY <1>3, <2>4, <3>1, Zenon
    <3>3. /\ pc' = "name" /\ offset' = At(offset + 1) /\ depth' = 1 /\ end' = offset + 2
          /\ UNCHANGED <<data, name>>
      BY <2>1, <3>2, PointerRead
    <3>4. ReadUpTo(n, k)'
      BY <1>2, <3>3, Zenon DEF ReadUpTo
    <3>5. Behind(P, i, c, k)'
      BY <1>3, <2>1, <2>4, <3>1, <3>2, <3>3 DEF Behind
    <3> QED BY <3>3, <3>4, <3>5, Zenon DEF AtPlace, Told
  <2>5. k < i \/ k = i
    BY <1>3, <2>1
  <2> QED BY <1>3, <2>2, <2>3, <2>4, <2>5
<1>8. CASE Behind(P, i, c, k)
  <2>1. c = 1 /\ k >= i /\ offset = 18 + P[k] /\ depth = 1 /\ end = NameEnd(P, i, c)
    BY <1>8 DEF Behind
  <2>2. CASE k < Len(n)
    <3>1. k + 1 \in (i + 1)..Len(n) /\ (k + 1) - 1 = k
      BY <1>1, <1>3, <2>1, <2>2
    <3>2. LabelAt(n[k + 1], 18 + P[(k + 1) - 1])
      BY <1>3, <3>1, Zenon
    <3>3. LabelAt(n[k + 1], offset)
      BY <2>1, <3>1, <3>2, Zenon
    <3>4. Behind(P, i, c, k + 1)'
      BY <1>3, <1>4, <1>6, <2>1, <2>2, <3>1, <3>3, SMTT(30) DEF Behind
    <3> QED BY <1>6, <2>2, <3>3, <3>4, Zenon DEF AtPlace, Told
  <2>3. CASE k = Len(n)
    <3>1. Base(c) = 18
      BY <2>1 DEF Base
    <3>2. ZeroAt(offset)
      BY <1>3, <2>1, <2>3, <3>1, Zenon
    <3>3. EndAt(offset + 1) = NameEnd(P, i, c)
      <4>1. end \in Nat
        BY <1>4, <2>1 DEF NameEnd
      <4> QED BY <2>1, <4>1, DnsAssumption DEF EndAt
    <3> QED BY <1>5, <2>3, <3>2, <3>3
  <2> QED BY <1>1, <2>2, <2>3
<1> QED BY <1>2, <1>7, <1>8
\* A question with a layout is not refused at its header.
LEMMA ParseHeaderTells ==
    ASSUME Inv, Starting, ParseHeader, NEW n \in Names, NEW t \in Types,
           NEW P, NEW i, NEW c, Layout(n, t, P, i, c), AtPlace(n, P, i, c)
    PROVE  AtPlace(n, P, i, c)' /\ Told(n, t)' /\ data' = data
<1>1. pc = "header" /\ name = <<>> /\ offset = 12 /\ depth = 0 /\ end = None
  BY DEF ParseHeader, AtPlace, Starting
<1>2. Len(n) \in Nat
  BY NamesAre, NameParts
<1>3. Places(n, P) /\ i \in 0..Len(n) /\ Len(data) > 12 /\ Word(4) = 1
  BY Zenon DEF Layout
<1>4. Len(data) \in Nat
  BY DEF Inv, TypeOK
<1>5. ~(Len(data) < 12) /\ ~(Word(4) < 1)
  BY <1>3, <1>4
<1>6. pc' = "name" /\ UNCHANGED <<data, offset, depth, name, end, reply>>
  BY <1>5, Zenon DEF ParseHeader
<1>7. ReadUpTo(n, 0)'
  <2>1. name' = <<>>
    BY <1>1, <1>6
  <2>2. <<>> \in Seq(Byte) /\ Len(<<>>) = 0
    OBVIOUS
  <2>3. LowerCase(<<>>) = <<>>
    <3>1. LowerCase(<<>>) \in Seq(Byte) /\ Len(LowerCase(<<>>)) = 0
      BY <2>2, LowerCaseIs, Zenon
    <3> QED BY <3>1
  <2>4. TextUpTo(n, 0) = <<>>
    BY NamesAre, TextsAre, Zenon
  <2> QED BY <2>1, <2>2, <2>3, <2>4, Zenon DEF ReadUpTo, Text
<1>8. Before(P, i, 0)'
  <2>1. P[0] = 0
    BY <1>3 DEF Places
  <2>2. offset' = 12 + P[0]
    BY <1>1, <1>6, <2>1
  <2>3. 0 <= i
    BY <1>2, <1>3
  <2> QED BY <1>1, <1>6, <2>2, <2>3 DEF Before
<1>9. 0 \in 0..Len(n)
  BY <1>2
<1> QED BY <1>6, <1>7, <1>8, <1>9, Zenon DEF AtPlace, Told

\* A text that does not end in a dot keeps its length.
LEMMA NormalizedFull ==
    ASSUME NEW s \in Text, s = <<>> \/ s[Len(s)] # Dot
    PROVE  Normalized(s) = LowerCase(s)
<1>1. s \in Seq(Byte) /\ Len(s) \in Nat /\ (s = <<>> => Len(s) = 0)
  BY DEF Text
<1> DEFINE Fits(k) == (k = 0 \/ s[k] # Dot) /\ \A j \in (k + 1)..Len(s) : s[j] = Dot
<1>2. Len(s) \in 0..Len(s) /\ Fits(Len(s))
  BY <1>1
<1>3. ASSUME NEW k \in 0..Len(s), Fits(k) PROVE k = Len(s)
  <2>1. SUFFICES ASSUME k # Len(s) PROVE FALSE
    OBVIOUS
  <2>2. Len(s) \in (k + 1)..Len(s) /\ Len(s) # 0
    BY <1>1, <2>1
  <2>3. s[Len(s)] = Dot
    BY <1>3, <2>2, Zenon
  <2> QED BY <1>1, <2>2, <2>3
<1>4. DotsEnd(s) = CHOOSE k \in 0..Len(s) : Fits(k)
  BY Zenon DEF DotsEnd
<1> HIDE DEF Fits
<1>5. DotsEnd(s) = Len(s)
  BY <1>2, <1>3, <1>4
<1>6. SubSeq(s, 1, Len(s)) = s
  BY <1>1, SubSeqFull
<1> QED BY <1>5, <1>6, Zenon DEF Normalized

\* Read in any case, a name is looked up by its text.
LEMMA NormalizedName ==
    ASSUME NEW n \in Names, ReadUpTo(n, Len(n))
    PROVE  Normalized(name) = TextOf(n)
<1>1. n \in Name /\ Len(n) \in Nat
  BY NamesAre, NameParts
<1>2. name \in Text /\ LowerCase(name) = TextUpTo(n, Len(n))
  BY Zenon DEF ReadUpTo
<1>3. /\ name \in Seq(Byte) /\ Len(name) \in Nat /\ Len(TextUpTo(n, Len(n))) = Len(name)
      /\ \A j \in 1..Len(name) : TextUpTo(n, Len(n))[j] = Lower(name[j])
  BY <1>2, LowerCaseIs DEF Text
<1>4. name = <<>> \/ name[Len(name)] # Dot
  <2>1. CASE Len(n) = 0
    <3>1. TextUpTo(n, Len(n)) = <<>>
      BY <1>1, <2>1, TextsAre, Zenon
    <3> QED BY <1>3, <3>1
  <2>2. CASE Len(n) # 0
    <3>1. Len(n) \in 1..Len(n)
      BY <1>1, <2>2
    <3>2. Len(name) >= 1 /\ TextUpTo(n, Len(n))[Len(name)] # Dot
      BY <1>3, <3>1, TextsJoin, Zenon
    <3>3. Len(name) \in 1..Len(name)
      BY <1>3, <3>2
    <3>4. Lower(name[Len(name)]) # Dot
      BY <1>3, <3>2, <3>3, Zenon
    <3>5. Lower(Dot) = Dot
      BY DEF Lower, Dot
    <3> QED BY <3>4, <3>5, Zenon
  <2> QED BY <2>1, <2>2
<1> QED BY <1>2, <1>4, NormalizedFull, Zenon DEF TextOf

\* The members of a sequence.
Members(s) == {s[x] : x \in DOMAIN s}

\* The records that are sent for a text are the tables' records.
LEMMA RecordsFollowTables ==
    ASSUME NEW s, NEW t \in Types
    PROVE  Members(Records(t, s)) =
              {<<5, target>> : target \in Alias(s)}
              \cup {<<t, x>> : x \in Owners(s) \cap Table(t)}
<1>1. \A a : Members(<<a>>) = {a}
  BY DEF Members
<1>2. Members(<<>>) = {}
  BY DEF Members
<1>3. \A a, b : Members(<<a>> \o <<b>>) = {a, b}
  <2> TAKE a, b
  <2> DEFINE c == <<a>> \o <<b>>
  <2>1. <<a>> \in Seq({a, b}) /\ <<b>> \in Seq({a, b}) /\ Len(<<a>>) = 1 /\ Len(<<b>>) = 1
    OBVIOUS
  <2>2. c \in Seq({a, b}) /\ Len(c) = 2 /\ c[1] = <<a>>[1] /\ c[2] = <<b>>[2 - 1]
    BY <2>1, ConcatProperties
  <2>3. DOMAIN c = 1..2 /\ c[1] = a /\ c[2] = b
    BY <2>2
  <2> HIDE DEF c
  <2>4. Members(c) = {a, b}
    BY <2>3 DEF Members
  <2> QED BY <2>4 DEF c
<1>4. \A a : <<a>> \o <<>> = <<a>>
  OBVIOUS
<1>5. \A m : Members(Addresses(t, m)) = {<<t, x>> : x \in {m} \cap Table(t)}
  BY <1>1, <1>2 DEF Addresses
<1>6. CASE s \in DOMAIN CnameTable
  <2> DEFINE target == CnameTable[s]
             m == Normalized(target)
  <2>1. Alias(s) = {target} /\ Owners(s) = {s, m}
    BY <1>6 DEF Alias, Owners
  <2>0. Records(t, s) = <<<<5, target>>>> \o Addresses(t, m)
    BY <1>6, Zenon DEF Records
  <2>2. s \notin Table(t)
    BY <1>6, DnsAssumption DEF Table
  <2> HIDE DEF target, m
  <2>3. CASE m \in Table(t)
    <3>1. Addresses(t, m) = <<<<t, m>>>>
      BY <2>3, Zenon DEF Addresses
    <3>2. Members(Records(t, s)) = {<<5, target>>, <<t, m>>}
      BY <1>3, <2>0, <3>1, Zenon
    <3>3. Owners(s) \cap Table(t) = {m}
      BY <2>1, <2>2, <2>3
    <3> QED BY <2>1, <3>2, <3>3
  <2>4. CASE m \notin Table(t)
    <3>1. Addresses(t, m) = <<>>
      BY <2>4, Zenon DEF Addresses
    <3>2. Members(Records(t, s)) = {<<5, target>>}
      BY <1>1, <1>4, <2>0, <3>1, Zenon
    <3>3. Owners(s) \cap Table(t) = {}
      BY <2>1, <2>2, <2>4
    <3> QED BY <2>1, <3>2, <3>3
  <2> QED BY <2>3, <2>4
<1>7. CASE s \notin DOMAIN CnameTable
  <2>1. Alias(s) = {} /\ Owners(s) = {s} /\ Records(t, s) = Addresses(t, s)
    BY <1>7 DEF Alias, Owners, Records
  <2> QED BY <1>5, <2>1
<1> QED BY <1>6, <1>7

\* The answer to a question that was read along its layout.
LEMMA AnswerTells ==
    ASSUME Inv, Answer, NEW n \in Names, NEW t \in Types,
           NEW P, NEW i, NEW c, Layout(n, t, P, i, c), AtPlace(n, P, i, c)
    PROVE  AtPlace(n, P, i, c)' /\ Told(n, t)' /\ data' = data
<1> DEFINE s == TextOf(n)
<1>1. pc = "question" /\ ReadUpTo(n, Len(n)) /\ end = NameEnd(P, i, c)
  BY Zenon DEF Answer, AtPlace
<1>2. end + 4 <= Len(data) /\ Word(end) = t /\ Word(end + 2) = 1
  BY <1>1, Zenon DEF Layout
<1>3. end \in Nat /\ Len(data) \in Nat
  BY <1>1 DEF Inv, TypeOK, EndOK
<1>4. Normalized(name) = s
  BY <1>1, NormalizedName
<1>5. ~(end + 4 > Len(data)) /\ ~(Word(end + 2) # 1 \/ Word(end) \notin Types)
  BY <1>2, <1>3
<1> HIDE DEF s
<1>6. CASE NameExists(s)
  <2>1. Reply(0, SubSeq(data, 13, end + 4), Records(t, s))
    BY <1>2, <1>4, <1>5, <1>6, Zenon DEF Answer
  <2>2. /\ pc' = "done" /\ data' = data /\ reply'.rcode = 0
        /\ reply'.records = Records(t, s)
    BY <2>1 DEF Reply
  <2>3. Members(reply'.records) =
              {<<5, target>> : target \in Alias(s)}
              \cup {<<t, x>> : x \in Owners(s) \cap Table(t)}
    BY <2>2, RecordsFollowTables
  <2>4. Told(n, t)'
    BY <1>6, <2>2, <2>3, Zenon DEF Told, Members, s
  <2> QED BY <2>2, <2>4 DEF AtPlace
<1>7. CASE ~NameExists(s)
  <2>1. Reply(3, SubSeq(data, 13, end + 4), <<>>)
    BY <1>2, <1>4, <1>5, <1>7, Zenon DEF Answer
  <2>2. /\ pc' = "done" /\ data' = data /\ reply'.rcode = 3
        /\ reply'.records = <<>>
    BY <2>1 DEF Reply
  <2>3. {reply'.records[x] : x \in DOMAIN reply'.records} = {}
    BY <2>2
  <2>4. Alias(s) = {} /\ Owners(s) = {s} /\ s \notin Table(t)
    BY <1>7 DEF Alias, Owners, NameExists, Table
  <2>5. {<<5, target>> : target \in Alias(s)}
        \cup {<<t, x>> : x \in Owners(s) \cap Table(t)} = {}
    BY <2>4
  <2>6. Told(n, t)'
    BY <1>7, <2>2, <2>3, <2>5, Zenon DEF Told, s
  <2> QED BY <2>2, <2>6 DEF AtPlace
<1> QED BY <1>6, <1>7

\* Asked for any name in any case, compressed or not, the server answers with
\* all records that the tables give for its text and the alias of it, and a
\* text in none of them is reported as such: for all tables of texts, all names
\* of short labels in lower case without a dot, and whatever follows or precedes
\* the question in the payload.
THEOREM AnswersFollow == Spec => []AnswersFollowTables
<1>1. Init => TellInv
  <2> SUFFICES ASSUME Init PROVE TellInv
    OBVIOUS
  <2>1. Inv /\ Starting
    BY DnsAssumption DEF Init, Inv, TypeOK, EndOK, Text, Starting
  <2>2. \A n, P, i, c, t : AtPlace(n, P, i, c) /\ Told(n, t)
    BY DEF Init, AtPlace, Told
  <2> QED BY <2>1, <2>2, Zenon DEF TellInv
<1>2. TellInv /\ [Next]_vars => TellInv'
  <2> SUFFICES ASSUME TellInv, [Next]_vars PROVE TellInv'
    OBVIOUS
  <2>0. Inv /\ Starting
    BY Zenon DEF TellInv
  <2>1. Inv'
    <3>1. CASE UNCHANGED vars
      BY <2>0, <3>1 DEF vars, Inv, TypeOK, EndOK
    <3> QED BY <2>0, <3>1, ParseHeaderStep, DecodeNameStep, AnswerStep DEF Next
  <2>2. data' = data
    BY DEF Next, vars, ParseHeader, DecodeName, Answer, FormErr, Reply
  <2>3. Starting'
    <3>1. CASE UNCHANGED vars
      BY <2>0, <3>1 DEF vars, Starting
    <3>2. CASE Next
      BY <3>2, <2>0 DEF Next, Starting, ParseHeader, DecodeName, Answer, FormErr, Reply
    <3> QED BY <3>1, <3>2
  <2>4. ASSUME NEW n \in Names, NEW t \in Types, NEW P, NEW i, NEW c,
               Layout(n, t, P, i, c)'
        PROVE  AtPlace(n, P, i, c)' /\ Told(n, t)'
    <3>1. Layout(n, t, P, i, c)
      BY <2>2, <2>4, LayoutStays
    <3>2. AtPlace(n, P, i, c) /\ Told(n, t)
      BY <3>1, Zenon DEF TellInv
    <3>3. CASE UNCHANGED vars
      <4>1. UNCHANGED <<pc, offset, depth, name, end, reply>>
        BY <3>3 DEF vars
      <4>2. \A k : (ReadUpTo(n, k)' <=> ReadUpTo(n, k)) /\ (Before(P, i, k)' <=> Before(P, i, k))
                   /\ (Behind(P, i, c, k)' <=> Behind(P, i, c, k))
        BY <4>1, Zenon DEF ReadUpTo, Before, Behind
      <4>3. AtPlace(n, P, i, c)'
        BY <3>2, <4>1, <4>2, Zenon DEF AtPlace
      <4> QED BY <3>2, <4>1, <4>3, Zenon DEF Told
    <3> QED BY <2>0, <3>1, <3>2, <3>3, ParseHeaderTells, DecodeNameTells, AnswerTells DEF Next
  <2> QED BY <2>1, <2>3, <2>4, Zenon DEF TellInv
<1>3. TellInv => AnswersFollowTables
  <2> SUFFICES ASSUME TellInv, NEW n \in Names, NEW t \in Types,
                      pc = "done", Asks(n, t)
               PROVE  Told(n, t)
    BY Zenon DEF AnswersFollowTables, Told
  <2>1. data \in Seq(Byte)
    BY DEF TellInv, Inv, TypeOK
  <2>2. \E P, i, c : Layout(n, t, P, i, c)
    BY <2>1, AsksLayout
  <2> QED BY <2>2, Zenon DEF TellInv
<1> QED BY <1>1, <1>2, <1>3, PTL DEF Spec
-----------------------------------------------------------------------------
(***************************************************************************)
(* The steps that are left.                                                *)
(***************************************************************************)

LEMMA ProductIsNatural ==
    ASSUME NEW a \in Nat, NEW b \in Nat
    PROVE  a * b \in Nat
  OBVIOUS

\* One factor less takes the other one away.
LEMMA ProductShrinks ==
    ASSUME NEW a \in Nat \ {0}, NEW b \in Nat
    PROVE  (a - 1) * b = a * b - b
  OBVIOUS

\* What is left of a payload of length l at offset o.
Ahead(l, o) == IF o < l THEN l - o ELSE 0

\* The steps a name takes at most from offset o and depth d on.
NameSteps(l, o, d) == 2 + (MaxDepth - d) * (l + 1) + Ahead(l, o)

LEMMA NameStepsNatural ==
    ASSUME NEW l \in Nat, NEW o \in Nat, NEW d \in 0..MaxDepth
    PROVE  Ahead(l, o) \in 0..l /\ NameSteps(l, o, d) \in Nat /\ NameSteps(l, o, d) >= 2
<1>1. Ahead(l, o) \in 0..l
  BY DEF Ahead
<1>2. (MaxDepth - d) * (l + 1) \in Nat
  <2>1. MaxDepth - d \in Nat /\ l + 1 \in Nat
    BY DnsAssumption
  <2> QED BY <2>1, ProductIsNatural
<1>3. \A x, y \in Nat : 2 + x + y \in Nat /\ 2 + x + y >= 2
  OBVIOUS
<1> QED BY <1>1, <1>2, <1>3 DEF NameSteps

\* A pointer takes the handler deeper, wherever it leads.
LEMMA DeeperIsFewer ==
    ASSUME NEW l \in Nat, NEW o \in Nat, NEW d \in 0..MaxDepth, NEW p \in Nat,
           d + 1 <= MaxDepth
    PROVE  NameSteps(l, p, d + 1) < NameSteps(l, o, d)
<1> DEFINE a == MaxDepth - d
<1>1. a \in Nat \ {0} /\ l + 1 \in Nat /\ MaxDepth - (d + 1) = a - 1
  BY DnsAssumption
<1>2. NameSteps(l, o, d) = 2 + a * (l + 1) + Ahead(l, o)
  BY DEF NameSteps
<1>3. NameSteps(l, p, d + 1) = 2 + (a - 1) * (l + 1) + Ahead(l, p)
  BY <1>1, Zenon DEF NameSteps
<1> HIDE DEF a
<1>4. a * (l + 1) \in Nat /\ (a - 1) * (l + 1) = a * (l + 1) - (l + 1)
  BY <1>1, ProductIsNatural, ProductShrinks
<1>5. Ahead(l, o) \in 0..l /\ Ahead(l, p) \in 0..l
  BY NameStepsNatural
<1>6. \A w \in Nat, x, y \in 0..l : 2 + (w - (l + 1)) + y < 2 + w + x
  OBVIOUS
<1> QED BY <1>2, <1>3, <1>4, <1>5, <1>6, Zenon

\* A label takes it forward.
LEMMA ForwardIsFewer ==
    ASSUME NEW l \in Nat, NEW o \in Nat, NEW d \in 0..MaxDepth, NEW p \in Nat,
           o < l, o < p
    PROVE  NameSteps(l, p, d) < NameSteps(l, o, d)
<1>1. Ahead(l, p) \in Nat /\ Ahead(l, o) \in Nat /\ Ahead(l, p) < Ahead(l, o)
  BY DEF Ahead
<1>2. (MaxDepth - d) * (l + 1) \in Nat
  <2>1. MaxDepth - d \in Nat /\ l + 1 \in Nat
    BY DnsAssumption
  <2> QED BY <2>1, ProductIsNatural
<1>3. \A w, x, y \in Nat : y < x => 2 + w + y < 2 + w + x
  OBVIOUS
<1> QED BY <1>1, <1>2, <1>3, Zenon DEF NameSteps

LEMMA DecodeNameCounts ==
    ASSUME Inv, offset' \in Nat, DecodeName
    PROVE  \/ pc' = "done" \/ pc' = "question"
           \/ /\ pc' = "name" /\ data' = data
              /\ NameSteps(Len(data), offset', depth') < NameSteps(Len(data), offset, depth)
<1>1. /\ offset \in Nat /\ Len(data) \in Nat /\ MaxDepth \in Nat /\ depth \in 0..MaxDepth
      /\ offset' # None /\ pc = "name" /\ data \in Seq(Byte)
  BY DnsAssumption DEF Inv, TypeOK, DecodeName
<1>2. CASE FormErr
  BY <1>2 DEF FormErr, Reply
<1>3. CASE /\ depth' = depth + 1 /\ ~TooDeep(Deeper) /\ UNCHANGED <<data, pc>>
  <2>1. depth + 1 <= MaxDepth
    BY <1>1, <1>3 DEF TooDeep, Deeper
  <2> QED BY <1>1, <1>3, <2>1, DeeperIsFewer
<1>4. CASE /\ offset < Len(data) /\ At(offset) \div 64 # 3 /\ offset' = Following(offset)
           /\ UNCHANGED <<data, pc, depth>>
  <2>1. offset' = offset + 1 + At(offset)
    BY <1>1, <1>4, Zenon DEF Following
  <2>2. At(offset) \in Nat
    BY <1>1, <1>4, AtByte
  <2>3. offset < offset'
    BY <1>1, <2>1, <2>2
  <2> QED BY <1>1, <1>4, <2>3, ForwardIsFewer
<1> QED BY <1>2, <1>3, <1>4, DecodeNameCases

\* Whatever the payload, the handler is done with it after at most
\* 3 + MaxDepth * (Len(data) + 1) + Len(data) steps: each step uses up one.
THEOREM WorkAlwaysBounded == Spec => WorkIsBounded
<1>1. Inv /\ Starting /\ Inv' /\ [Next]_vars => [StepsLeft' \in 0..(StepsLeft - 1)]_vars
  <2> SUFFICES ASSUME Inv, Starting, Inv', Next PROVE StepsLeft' \in 0..(StepsLeft - 1)
    OBVIOUS
  <2> DEFINE now == NameSteps(Len(data), offset, depth)
             then == NameSteps(Len(data), offset', depth')
  <2>1. /\ data \in Seq(Byte) /\ Len(data) \in Nat /\ MaxDepth \in Nat
        /\ offset \in Nat /\ depth \in 0..MaxDepth
        /\ offset' \in Nat /\ depth' \in 0..MaxDepth
    BY DnsAssumption DEF Inv, TypeOK
  <2>2. now \in Nat /\ now >= 2 /\ then \in Nat /\ then >= 2
    BY <2>1, NameStepsNatural
  <2>3. /\ pc = "name" => StepsLeft = now
        /\ pc = "question" => StepsLeft = 1
        /\ pc' = "name" /\ data' = data => StepsLeft' = then
        /\ pc' = "question" => StepsLeft' = 1
        /\ pc' = "done" => StepsLeft' = 0
    BY DEF StepsLeft, NameSteps, Ahead
  <2>4. CASE ParseHeader
    <3>1. pc = "header" /\ offset = 12 /\ depth = 0
      BY <2>4 DEF ParseHeader, Starting
    <3> DEFINE w == MaxDepth * (Len(data) + 1)
    <3>2. StepsLeft = 3 + w + Len(data)
      BY <3>1 DEF StepsLeft
    <3>3. w \in Nat
      <4>1. Len(data) + 1 \in Nat
        BY <2>1
      <4> QED BY <2>1, <4>1, ProductIsNatural
    <3>4. CASE pc' = "done"
      <4>1. \A x, y \in Nat : 0 \in 0..((3 + x + y) - 1)
        OBVIOUS
      <4> HIDE DEF w
      <4> QED BY <2>1, <2>3, <3>2, <3>3, <3>4, <4>1
    <3>5. CASE pc' = "name" /\ UNCHANGED <<data, offset, depth>>
      <4>1. then = 2 + w + Ahead(Len(data), offset)
        <5>1. MaxDepth - depth' = MaxDepth
          BY <2>1, <3>1, <3>5
        <5> QED BY <3>5, <5>1, Zenon DEF NameSteps
      <4>2. Ahead(Len(data), offset) \in 0..Len(data)
        BY <2>1, NameStepsNatural
      <4>3. \A x, l \in Nat : \A y \in 0..l : 2 + x + y \in 0..((3 + x + l) - 1)
        OBVIOUS
      <4>4. StepsLeft' = then
        <5> HIDE DEF then
        <5> QED BY <2>3, <3>5
      <4> HIDE DEF w, then
      <4>5. 2 + w + Ahead(Len(data), offset) \in 0..((3 + w + Len(data)) - 1)
        BY <2>1, <3>3, <4>2, <4>3
      <4> QED BY <3>2, <4>1, <4>4, <4>5, Zenon
    <3> QED BY <2>4, <3>4, <3>5 DEF ParseHeader, FormErr, Reply
  <2>5. CASE DecodeName
    <3>1. pc = "name"
      BY <2>5 DEF DecodeName
    <3>2. \/ pc' = "done" \/ pc' = "question"
          \/ pc' = "name" /\ data' = data /\ then < now
      BY <2>1, <2>5, DecodeNameCounts
    <3> HIDE DEF now, then
    <3> QED BY <2>2, <2>3, <3>1, <3>2
  <2>6. CASE Answer
    <3>1. pc = "question" /\ pc' = "done"
      BY <2>6 DEF Answer, FormErr, Reply
    <3> QED BY <2>3, <3>1
  <2> QED BY <2>4, <2>5, <2>6 DEF Next
<1>2. Spec => []Starting
  <2>1. Init => Starting
    BY DEF Init, Starting
  <2>2. Starting /\ [Next]_vars => Starting'
    BY DEF Starting, Next, vars, ParseHeader, DecodeName, Answer, FormErr, Reply
  <2> QED BY <2>1, <2>2, PTL DEF Spec
<1> QED BY <1>1, <1>2, Invariance, PTL DEF Spec, WorkIsBounded

=============================================================================
