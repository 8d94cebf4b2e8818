---------------------------- MODULE MCPageTable ----------------------------
(***************************************************************************)
(* The instance of PageTable for TLC: its constants have values in the     *)
(* configuration.                                                          *)
(***************************************************************************)
EXTENDS PageTable
=============================================================================
