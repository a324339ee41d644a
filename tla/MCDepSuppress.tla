--------------------------- MODULE MCDepSuppress ---------------------------
(* Every dependency graph over three nodes, every set of failed ones.       *)
EXTENDS DepSuppress
CONSTANTS h1, h2, m1

\* Two hosts before a monitor.
MCRank == [n \in Nodes |-> CASE n = h1 -> 0 [] n = h2 -> 1 [] n = m1 -> 2]
=============================================================================
