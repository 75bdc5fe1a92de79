--------------------------- MODULE MCSimpleClient ---------------------------
(***************************************************************************)
(* SimpleClient with two clients and two servers, each interchangeable.    *)
(***************************************************************************)
EXTENDS SimpleClient, TLC

Symmetry == Permutations(Client) \cup Permutations(Server)
=============================================================================
