----------------------------- MODULE MCFlooding -----------------------------
(***************************************************************************)
(* Instances of Flooding for TLC.                                          *)
(***************************************************************************)
EXTENDS Flooding

CONSTANTS a, b, x

\* Three switches in a ring, ports named after the neighbour.
Ring == [d \in Dpid |-> [n \in Dpid |-> IF n = d THEN None ELSE n]]

\* a and the external host x on switch 1, b on switch 2.
HomeOf == [h \in Host |-> IF h = b THEN 2 ELSE 1]

\* A neighbour, a host further on and an external host are asked for.
SomeWants == {<<x, a>>, <<x, b>>, <<b, x>>}

\* A host further on that does not ask for anything itself.
FarWants == {<<a, b>>}

=============================================================================
