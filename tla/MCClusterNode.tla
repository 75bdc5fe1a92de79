---------------------------- MODULE MCClusterNode ----------------------------
(***************************************************************************)
(* Clusters of two to four nodes for TLC.  The nodes whose vote timer may  *)
(* fire are interchangeable, and so are the others.                        *)
(***************************************************************************)
EXTENDS ElectionInvariant, LogInvariant, TLC

CONSTANTS n1, n2, n3, n4

Symmetry == Permutations(Electable) \cup Permutations(Node \ Electable)
=============================================================================
