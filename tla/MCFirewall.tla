----------------------------- MODULE MCFirewall -----------------------------
(***************************************************************************)
(* Instances of Firewall for TLC.                                          *)
(***************************************************************************)
EXTENDS Firewall

CONSTANTS a, b

\* Rules that vary in one field at a time, those install_rules skips among
\* them: an unknown protocol, ports without TCP or UDP, a port that is out of
\* range or no number, an address that does not parse, another action.
Rule(src, proto, port, action) ==
    [src |-> src, dst |-> Any, proto |-> proto,
     src_port |-> Any, dst_port |-> port, action |-> action]

SomeRules ==
    {Rule(src, proto, port, "deny") :
        src \in {a, Any, Malformed}, proto \in {Any, "tcp", "icmp", "other"},
        port \in {Any, 2}}
    \cup {Rule(a, "udp", port, "deny") : port \in {0, 65535, 65536, Malformed}}
    \cup {Rule(a, "tcp", Any, "other")}
    \cup {[Rule(a, "tcp", 2, "deny") EXCEPT !.dst = b, !.src_port = 1]}

\* The ports of packets: the last one there is, too.
SomePorts == {1, 2, 65535}

\* Every list of up to two of them.
Lists == {<<>>} \cup (SomeRules \X SomeRules)

=============================================================================
