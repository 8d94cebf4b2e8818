------------------------------- MODULE MCVcat -------------------------------
(***************************************************************************)
(* Instances of Vcat for TLC.                                              *)
(***************************************************************************)
EXTENDS Vcat

CONSTANTS p1, p2

MCPeers == {p1, p2}
=============================================================================
