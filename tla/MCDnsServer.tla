---------------------------- MODULE MCDnsServer ----------------------------
(***************************************************************************)
(* Instances of DnsServer for TLC.                                         *)
(***************************************************************************)
EXTENDS DnsServer

\* A header with the recursion-desired bit and q questions.
Header(q) == <<0, 0, 1, 0, 0, q, 0, 0, 0, 0, 0, 0>>

\* Up to five bytes of a name: zeros, labels of one byte, a length that is too
\* large, and pointers to the name itself, into its middle and to the header.
Bytes == UNION {[1..n -> {0, 1, 97, 192, 12, 14}] : n \in 0..5}

\* Questions of class IN for A and for TXT, of another class, and cut short.
Tails == {<<0, 1, 0, 1>>, <<0, 16, 0, 1>>, <<0, 1, 0, 3>>, <<0, 1, 0>>}

\* h has both addresses, a a single one; w stands for h.l, written with a dot at
\* its end, v for a name that has no address.
NameH == <<<<104>>, <<108>>>>
NameA == <<<<97>>>>
NameW == <<<<119>>, <<108>>>>
NameV == <<<<118>>>>
NotListed == <<<<120>>, <<108>>>>

TheATable == {TextOf(NameH), TextOf(NameA)}
TheAAAATable == {TextOf(NameH)}
TheCnameTable ==
    [s \in {TextOf(NameW), TextOf(NameV)} |->
        IF s = TextOf(NameW) THEN Append(TextOf(NameH), Dot) ELSE <<120>>]
SomeNames == {NameH, NameA, NameW, NameV, NotListed}

\* Every question AnswersFollowTables is about, one in upper case, and one whose
\* only label holds dots.
Asked ==
    UNION {Questions(n, <<0, t, 0, 1>>) :
        n \in SomeNames \cup {<<<<72>>, <<108>>>>, <<<<104, Dot, 108, Dot>>>>},
        t \in {1, 5, 28}}

\* The root by n pointers, each to the next, the first one ending the question.
Chain(n) ==
    <<192, 18, 0, 1, 0, 1>>
    \o [i \in 1..(2 * (n - 1)) |-> IF i % 2 = 1 THEN 192 ELSE 18 + i] \o <<0>>

TheQueries ==
    {Header(1) \o n \o t : n \in Bytes, t \in Tails}
    \cup {Header(1) \o q : q \in Asked}
    \cup {Header(1) \o Chain(n) : n \in 9..12}
    \cup {Header(0) \o q : q \in Questions(NameA, <<0, 1, 0, 1>>)}
    \cup {SubSeq(Header(1), 1, 11)}

=============================================================================
