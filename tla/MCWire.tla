------------------------------- MODULE MCWire -------------------------------
(***************************************************************************)
(* The numbers of the Wire run: both sides of every change of varint size  *)
(* that small fields meet, the largest 32 bit number, and ids that are     *)
(* negative, which take ten bytes.                                         *)
(***************************************************************************)
EXTENDS Wire

MCEdge == <<0, 127, 128, 16384, 2147483647>>
MCMessageId == <<0, -1, 300, -2147483647, 2147483647>>
=============================================================================
