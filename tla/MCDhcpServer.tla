---------------------------- MODULE MCDhcpServer ----------------------------
(***************************************************************************)
(* Instances of DhcpServer for TLC.                                        *)
(***************************************************************************)
EXTENDS DhcpServer

CONSTANTS c1, c2, c3

=============================================================================
