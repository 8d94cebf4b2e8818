-------------------------- MODULE MCSecondaryCpus --------------------------
(***************************************************************************)
(* Instances of SecondaryCpus for TLC.  The interrupt numbers are those of *)
(* the QEMU platform.                                                      *)
(***************************************************************************)
EXTENDS SecondaryCpus, TLC

CONSTANTS cpu0, cpu1, cpu2

MCCores == {cpu0, cpu1, cpu2}

(* Secondary cores are interchangeable, and so are stacks. *)
MCSymmetry == Permutations(Secondaries) \union Permutations(Stacks)
=============================================================================
