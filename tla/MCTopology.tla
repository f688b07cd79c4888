----------------------------- MODULE MCTopology -----------------------------
(***************************************************************************)
(* Instances of Topology for TLC.                                          *)
(***************************************************************************)
EXTENDS Topology

CONSTANTS h1, h2, ip1

Both(a, b) == {<<a, b>>, <<b, a>>}

\* A triangle of switches, the topology of the repository's own experiments
\* with a redundant link; ports 3 and 4 of each switch are free.
Triangle ==
    Both(<<1, 1>>, <<2, 1>>) \cup Both(<<2, 2>>, <<3, 1>>) \cup Both(<<3, 2>>, <<1, 2>>)

\* Two switches joined by two cables, so that a link can be replaced.
Parallel == Both(<<1, 1>>, <<2, 1>>) \cup Both(<<1, 2>>, <<2, 2>>)

\* The triangle with a second cable between two of its switches: a link can be
\* replaced, and there is a way round it.
DoubledTriangle == Triangle \cup Both(<<1, 4>>, <<2, 4>>)

\* On the two switches a host may be heard at every port.
HeardAnywhere == Mac \X Loc

\* On the triangle h1 is heard at its own port, at the one it is moved to, and
\* at the end of the link by which its flooded packets come back to its own
\* switch; h2 stays where it is, which the doubled triangle makes an end of the
\* second cable.
HeardOnTriangle ==
    {<<h1, <<1, 3>>>>, <<h1, <<3, 3>>>>, <<h1, <<1, 1>>>>, <<h2, <<2, 4>>>>}

\* Host h1 is at home on switch 1; the address of h2 names no switch.
HomeOfHosts == [m \in Mac |-> IF m = h1 THEN 1 ELSE None]

EmptyArp == [i \in Ip |-> None]

=============================================================================
