--------------------------- MODULE MCPrimaryCore ---------------------------
(***************************************************************************)
(* Instances of PrimaryCore for TLC: one core, a short line buffer and a   *)
(* clock that counts a few seconds.                                        *)
(***************************************************************************)
EXTENDS PrimaryCore

MCDelays == {-2, 0, 2}
=============================================================================
