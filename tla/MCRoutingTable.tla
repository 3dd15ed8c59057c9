--------------------------- MODULE MCRoutingTable ---------------------------
(* The table of node 1 in a fabric of four.                                  *)
EXTENDS RoutingTable

\* Every list of distinct nodes: HELLOs of forming, broken and full rings.
MCHelloPaths == SetToAllKPermutations(Others \cup {Me})
=============================================================================
