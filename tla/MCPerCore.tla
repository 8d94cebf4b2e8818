----------------------------- MODULE MCPerCore -----------------------------
(***************************************************************************)
(* Instances of PerCore for TLC: three cores in two clusters, and every    *)
(* list of up to four of their IDs and of one that no core has.            *)
(***************************************************************************)
EXTENDS PerCore, SequencesExt

CONSTANTS cpu0, cpu1, cpu2

MCCores == {cpu0, cpu1, cpu2}

(* The flag RES1 is set on all of them, U and MT on one each. *)
MCMPIDR ==
  [c \in MCCores |->
     CASE c = cpu0 -> <<0, 0, 0, 192, 0, 0, 0, 0>>
       [] c = cpu1 -> <<1, 0, 0, 128, 0, 0, 0, 0>>
       [] c = cpu2 -> <<0, 0, 0, 129, 1, 0, 0, 0>>]

MCDeviceTrees ==
  BoundedSeq({DeviceTreeId(c) : c \in MCCores} \union {MCMPIDR[cpu0]}, 4)
=============================================================================
