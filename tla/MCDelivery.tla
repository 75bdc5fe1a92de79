----------------------------- MODULE MCDelivery -----------------------------
(***************************************************************************)
(* Small instances of Delivery for TLC.  Connections are interchangeable,  *)
(* and so are partitions; message ids are not, the loop of                 *)
(* trigger_message_delivery goes through them in order.                    *)
(***************************************************************************)
EXTENDS Delivery

CONSTANTS p1, p2, c1, c2

Symmetry == Permutations(Client) \cup Permutations(Partition)
=============================================================================
