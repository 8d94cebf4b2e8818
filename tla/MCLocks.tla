------------------------------ MODULE MCLocks ------------------------------
(***************************************************************************)
(* Instances of Locks for TLC.                                             *)
(***************************************************************************)
EXTENDS Locks, TLC

CONSTANTS cpu0, cpu1, cpu2

MCCores == {cpu0, cpu1, cpu2}

MCSymmetry == Permutations(Secondaries)
=============================================================================
