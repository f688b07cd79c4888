------------------------------ MODULE MCRouting ------------------------------
(***************************************************************************)
(* Instances of Routing for TLC.                                           *)
(***************************************************************************)
EXTENDS Routing, SequencesExt

\* Dijkstra does not look at the order of the dictionary, and Bellman-Ford
\* looks at nothing else of a dpid: with every graph on the keys, one order
\* stands for all of them.  One key may be missing.
Ascending ==
    {SetToSortSeq(ns, <) : ns \in {ns \in SUBSET Dpid : Cardinality(ns) >= 4}}

=============================================================================
