------------------------------ MODULE DnsServer ------------------------------
(***************************************************************************)
(* The DNS server (src/dns_server.py): one query, a sequence of bytes, is  *)
(* read and answered from static tables.  Reading a name is the part that  *)
(* can go wrong: a pointer may lead anywhere, to itself or in circles.     *)
(* _decode_qname recurses at a pointer and does nothing after it but add   *)
(* up, so the model reads on from there in a loop; depth is the depth of   *)
(* the recursion.                                                          *)
(*                                                                         *)
(* A text is a sequence of bytes: the handler joins the labels of a name   *)
(* with dots and looks the text up, so what it finds does not tell a dot   *)
(* between two labels from one in a label.  Offsets count from 0.          *)
(*                                                                         *)
(* An operator whose name starts with Fault_ is a plausible mistake in the *)
(* operator that follows it; no specification uses it.                     *)
(***************************************************************************)
EXTENDS Naturals, Sequences, FiniteSets

CONSTANTS
    Queries,      \* the UDP payloads to be answered
    ATable,       \* the keys of DNS_TABLE
    AAAATable,    \* the keys of DNS_AAAA_TABLE
    CnameTable,   \* DNS_CNAME_TABLE
    Names,        \* names, as their labels, that AnswersFollowTables asks for
    MaxDepth,     \* the deepest recursion of _decode_qname
    None

Byte == 0..255
Text == Seq(Byte)

ASSUME DnsAssumption ==
    /\ Queries \subseteq Seq(Byte)
    /\ ATable \subseteq Text /\ AAAATable \subseteq Text
    /\ DOMAIN CnameTable \subseteq Text
    /\ \A s \in DOMAIN CnameTable : CnameTable[s] \in Text \ {<<>>}
    /\ DOMAIN CnameTable \cap (ATable \cup AAAATable) = {}
    /\ Names \subseteq Seq(Text)
    /\ MaxDepth \in Nat \ {0}
    /\ None \notin Nat

VARIABLES
    data,     \* the payload
    pc,       \* where the handler stands
    offset,   \* the next byte of the name
    depth,    \* pointers followed so far
    name,     \* the text of the labels read so far
    end,      \* the offset after the name in the question, None in its middle
    reply     \* the answer: its code, question and records, or None

vars == <<data, pc, offset, depth, name, end, reply>>

Init ==
    /\ data \in Queries
    /\ pc = "header"
    /\ offset = 12
    /\ depth = 0
    /\ name = <<>>
    /\ end = None
    /\ reply = None

-----------------------------------------------------------------------------
At(o) == data[o + 1]

Word(o) == At(o) * 256 + At(o + 1)

Reply(rcode, question, records) ==
    /\ pc' = "done"
    /\ reply' = [rcode |-> rcode, question |-> question, records |-> records]
    /\ UNCHANGED <<data, offset, depth, name, end>>

FormErr == Reply(1, <<>>, <<>>)

\* The header: too short to be answered, no question, or on to the name.
ParseHeader ==
    /\ pc = "header"
    /\ IF Len(data) < 12 THEN pc' = "done" /\ UNCHANGED <<data, offset, depth, name, end, reply>>
       ELSE IF Word(4) < 1 THEN FormErr
       ELSE pc' = "name" /\ UNCHANGED <<data, offset, depth, name, end, reply>>

\* A byte with its two top bits set begins a pointer; 64 to 191 are lengths.
IsPointer(length) == length >= 192

Fault_Deeper == depth

\* The depth of the call for the name pointed to.
Deeper == depth + 1

Fault_TooDeep(d) == d > MaxDepth + 1

TooDeep(d) == d > MaxDepth

Fault_EndAt(o) == o

\* The end of the outer name is where its first pointer or its zero ends.
EndAt(o) == IF end = None THEN o ELSE end

\* The bytes of a label that are not ASCII are ignored.
Ascii(label) ==
    LET kept[i \in 0..Len(label)] ==
            IF i = 0 THEN <<>>
            ELSE IF label[i] < 128 THEN Append(kept[i - 1], label[i]) ELSE kept[i - 1]
    IN  kept[Len(label)]

Dot == 46

\* Text s with one more label; empty labels are left out.
Joined(s, label) ==
    IF label = <<>> THEN s ELSE IF s = <<>> THEN label ELSE s \o <<Dot>> \o label

\* One turn of the loop of _decode_qname.
DecodeName ==
    /\ pc = "name"
    /\ IF offset >= Len(data) THEN FormErr
       ELSE LET length == At(offset) IN
            IF length = 0
            THEN /\ end' = EndAt(offset + 1)
                 /\ pc' = "question"
                 /\ UNCHANGED <<data, offset, depth, name, reply>>
            ELSE IF IsPointer(length)
            THEN IF offset + 1 >= Len(data) \/ TooDeep(Deeper) THEN FormErr
                 ELSE /\ offset' = (length % 64) * 256 + At(offset + 1)
                      /\ depth' = Deeper
                      /\ end' = EndAt(offset + 2)
                      /\ UNCHANGED <<data, pc, name, reply>>
            ELSE IF offset + 1 + length > Len(data) THEN FormErr
            ELSE LET label == Ascii(SubSeq(data, offset + 2, offset + 1 + length))
                 IN  /\ name' = Joined(name, label)
                     /\ offset' = offset + 1 + length
                     /\ UNCHANGED <<data, pc, depth, end, reply>>

-----------------------------------------------------------------------------
(***************************************************************************)
(* Looking the name up.                                                    *)
(***************************************************************************)

Lower(c) == IF c \in 65..90 THEN c + 32 ELSE c

LowerCase(s) == [j \in DOMAIN s |-> Lower(s[j])]

\* The length of text s without the dots at its end.
DotsEnd(s) ==
    CHOOSE k \in 0..Len(s) : /\ k = 0 \/ s[k] # Dot
                            /\ \A j \in (k + 1)..Len(s) : s[j] = Dot

Normalized(s) == LowerCase(SubSeq(s, 1, DotsEnd(s)))

NameExists(s) == s \in ATable \cup AAAATable \cup DOMAIN CnameTable

\* The address tables by query type: A and AAAA; CNAME has none.
Table(qtype) == IF qtype = 1 THEN ATable ELSE IF qtype = 28 THEN AAAATable ELSE {}

Addresses(qtype, s) == IF s \in Table(qtype) THEN <<<<qtype, s>>>> ELSE <<>>

Fault_Records(qtype, s) ==
    IF s \in DOMAIN CnameTable THEN <<<<5, CnameTable[s]>>>>
    ELSE Addresses(qtype, s)

\* An alias is answered with its target and, asked for addresses, those of the
\* target; <<t, s>> is a record of type t that the tables give for s.
Records(qtype, s) ==
    IF s \in DOMAIN CnameTable
    THEN <<<<5, CnameTable[s]>>>> \o Addresses(qtype, Normalized(CnameTable[s]))
    ELSE Addresses(qtype, s)

\* A, CNAME and AAAA.
Types == {1, 5, 28}

\* The rest of _parse_query and of _build_response.
Answer ==
    /\ pc = "question"
    /\ IF end + 4 > Len(data) THEN FormErr
       ELSE LET question == SubSeq(data, 13, end + 4)
                qtype == Word(end)
                text == Normalized(name)
            IN  IF Word(end + 2) # 1 \/ qtype \notin Types THEN Reply(4, question, <<>>)
                ELSE IF NameExists(text) THEN Reply(0, question, Records(qtype, text))
                ELSE Reply(3, question, <<>>)

Next == ParseHeader \/ DecodeName \/ Answer

\* The handler runs on until it is done.
Spec == Init /\ [][Next]_vars /\ WF_vars(Next)

-----------------------------------------------------------------------------
(***************************************************************************)
(* Correctness.                                                            *)
(***************************************************************************)

TypeOK ==
    /\ data \in Seq(Byte)
    /\ pc \in {"header", "name", "question", "done"}
    /\ offset \in Nat
    /\ depth \in 0..MaxDepth
    /\ name \in Text
    /\ end \in Nat \cup {None}
    /\ reply = None \/ reply.rcode \in {0, 1, 3, 4}

\* The offset that follows o in the reading of a name, None where it breaks off.
Following(o) ==
    IF o = None \/ o >= Len(data) THEN None
    ELSE IF At(o) \div 64 = 3 THEN
        IF o + 1 < Len(data) THEN (At(o) % 64) * 256 + At(o + 1) ELSE None
    ELSE IF o + 1 + At(o) <= Len(data) THEN o + 1 + At(o) ELSE None

\* On trail t, a name has its zero at place k.
EndsAt(t, k) == t[k] # None /\ t[k] < Len(data) /\ At(t[k]) = 0

PointersBefore(t, k) == {j \in 0..(k - 1) : At(t[j]) \div 64 = 3}

\* The offset after a name with its zero at place k.
AfterName(t, k) ==
    IF PointersBefore(t, k) = {} THEN t[k] + 1
    ELSE t[CHOOSE j \in PointersBefore(t, k) : \A i \in PointersBefore(t, k) : j <= i] + 2

\* A name that ends comes to its zero without passing an offset twice.
Readable ==
    LET trail[k \in 0..Len(data)] ==
            IF k = 0 THEN 12 ELSE Following(trail[k - 1])
    IN  \E k \in 0..Len(data) :
            /\ EndsAt(trail, k) /\ \A j \in 0..(k - 1) : ~EndsAt(trail, j)
            /\ Cardinality(PointersBefore(trail, k)) <= MaxDepth
            /\ AfterName(trail, k) + 4 <= Len(data)

\* A query with a question is refused as malformed exactly when its name
\* breaks off, goes in circles or has too many pointers, or its type and class
\* are missing: no end is misplaced and no bound is off by one, whatever the
\* bytes (_decode_qname, _parse_query).
UnreadableIsRefused ==
    (pc = "done" /\ reply # None /\ Word(4) >= 1) =>
        ((reply.rcode = 1) <=> ~Readable)

\* The first k labels of name n, each after its length.
Labels(n, k) ==
    LET upTo[i \in 0..Len(n)] ==
            IF i = 0 THEN <<>> ELSE upTo[i - 1] \o <<Len(n[i])>> \o n[i]
    IN  upTo[k]

\* What _encode_qname makes of a name.
EncodeQname(n) == Labels(n, Len(n)) \o <<0>>

\* The questions for name n: spelled out, or its tail left to a pointer to a
\* copy behind the question.
Questions(n, fixed) ==
    {EncodeQname(n) \o fixed}
    \cup {Labels(n, i) \o <<192, 14 + Len(Labels(n, i)) + Len(fixed)>> \o fixed
              \o EncodeQname(SubSeq(n, i + 1, Len(n))) : i \in 0..Len(n)}

\* The first k labels of name n with a dot between each two.
TextUpTo(n, k) ==
    LET upTo[i \in 0..Len(n)] ==
            IF i = 0 THEN <<>> ELSE IF i = 1 THEN n[1] ELSE upTo[i - 1] \o <<Dot>> \o n[i]
    IN  upTo[k]

TextOf(n) == TextUpTo(n, Len(n))

\* The names asked for have labels without a dot, so that the text of a name is
\* its own, and are spelled in lower case; they are short enough for a pointer
\* to their copy to be no letter.
ASSUME NamesAssumption ==
    \A n \in Names :
        /\ \A i \in DOMAIN n :
              /\ Len(n[i]) \in 1..63
              /\ \A j \in DOMAIN n[i] : n[i][j] \in (0..127) \ ({Dot} \cup 65..90)
        /\ Len(EncodeQname(n)) < 80

\* The payload has one question, for name n and type t, in any case.
Asks(n, t) ==
    /\ Len(data) > 12 /\ Word(4) = 1
    /\ LowerCase(SubSeq(data, 13, Len(data))) \in Questions(n, <<0, t, 0, 1>>)

\* What s is an alias of, if anything, and the texts whose addresses it has.
Alias(s) == IF s \in DOMAIN CnameTable THEN {CnameTable[s]} ELSE {}

Owners(s) == {s} \cup {Normalized(target) : target \in Alias(s)}

\* Asked for a name of the tables in any case, spelled out or compressed, the
\* server gives all they have for it and its alias, perhaps nothing of that
\* type; asked for another name it answers NXDOMAIN (_decode_qname,
\* _build_response).
AnswersFollowTables ==
    \A n \in Names, t \in Types :
        (pc = "done" /\ Asks(n, t)) =>
            /\ reply.rcode = IF NameExists(TextOf(n)) THEN 0 ELSE 3
            /\ {reply.records[i] : i \in DOMAIN reply.records} =
                  {<<5, target>> : target \in Alias(TextOf(n))}
                  \cup {<<t, s>> : s \in Owners(TextOf(n)) \cap Table(t)}

\* The steps the handler can still take: between two pointers it goes forward
\* through the payload, and it follows MaxDepth of them.
StepsLeft ==
    CASE pc = "header" -> 3 + MaxDepth * (Len(data) + 1) + Len(data)
      [] pc = "name" -> 2 + (MaxDepth - depth) * (Len(data) + 1)
                          + (IF offset < Len(data) THEN Len(data) - offset ELSE 0)
      [] pc = "question" -> 1
      [] pc = "done" -> 0

\* No payload keeps the handler, and with it the controller's event loop, busy
\* for longer than its length and the bound on the depth allow: pointers may
\* lead back to where it has been, but not without end (_decode_qname).
WorkIsBounded == [][StepsLeft' \in 0..(StepsLeft - 1)]_vars

\* Every query is done with (the bound on the depth of _decode_qname).
Returns == <>(pc = "done")

=============================================================================
