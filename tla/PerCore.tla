------------------------------ MODULE PerCore ------------------------------
(***************************************************************************)
(* Core indices and per-core state: src/cpus.rs, and the use of            *)
(* PRIVATE_IRQ_HANDLERS in src/interrupts.rs.  A core finds its element by *)
(* looking up the affinity fields of its MPIDR among the IDs in the device *)
(* tree, and borrows the RefCell there with exceptions masked but with no  *)
(* lock: mutably to change the table, and for as long as a handler runs.   *)
(***************************************************************************)
EXTENDS Naturals, Sequences

CONSTANTS
  Cores,       \* the cores that run
  MPIDR,       \* the register of each core: its eight bytes, lowest first
  DeviceTrees  \* lists of core IDs that a device tree may have

(* The architecture has Aff0, Aff1 and Aff2 in the three lowest bytes of   *)
(* MPIDR_EL1 and Aff3 in the fifth; the flags U and MT are in the fourth.  *)
AffinityFields == {1, 2, 3, 5}

(* No two cores have the same affinity fields. *)
ASSUME PerCoreAssumption ==
  /\ MPIDR \in [Cores -> [1..8 -> 0..255]]
  /\ \A c, d \in Cores :
       (\A k \in AffinityFields : MPIDR[c][k] = MPIDR[d][k]) => c = d
  /\ \A t \in DeviceTrees : Len(t) \in Nat

(* The ID of a core in a device tree: its affinity fields where MPIDR_EL1  *)
(* has them, and zero in between.                                          *)
DeviceTreeId(c) ==
  [k \in 1..8 |-> IF k \in AffinityFields THEN MPIDR[c][k] ELSE 0]

VARIABLES
  ids,       \* the IDs of the device tree, in order
  masked,    \* cores that have exceptions masked
  mutable,   \* the element each core's thread has borrowed mutably, 0 if none
  borrowed,  \* the element each core's IRQ handler has borrowed, 0 if none
  failed     \* cores that did not find their index, which panics

vars == <<ids, masked, mutable, borrowed, failed>>

TypeOK ==
  /\ ids \in DeviceTrees
  /\ masked \subseteq Cores
  /\ mutable \in [Cores -> 0..Len(ids)]
  /\ borrowed \in [Cores -> 0..Len(ids)]
  /\ failed \subseteq Cores

Init ==
  /\ ids \in DeviceTrees
  /\ masked = {}
  /\ mutable = [c \in Cores |-> 0]
  /\ borrowed = [c \in Cores |-> 0]
  /\ failed = {}

(* Mutant: 0xffffffffff. *)
MutantMask40 == <<255, 255, 255, 255, 255, 0, 0, 0>>

(* 0xff00ffffff, lowest byte first. *)
MPIDR_AFFINITY_MASK == <<255, 255, 255, 0, 255, 0, 0, 0>>

(* What core c reads from MPIDR_EL1, and the mask, bit by bit: every byte  *)
(* of the mask keeps all of a byte or nothing.                             *)
mpidr_affinity(c) ==
  [k \in 1..8 |-> IF MPIDR_AFFINITY_MASK[k] = 255 THEN MPIDR[c][k] ELSE 0]

(* i is the position that mpidr_to_cpu_index finds for core c. *)
IsPosition(c, i) ==
  /\ ids[i] = mpidr_affinity(c)
  /\ \A j \in 1..(i - 1) : ids[j] # mpidr_affinity(c)

(* Mutant: the table is changed with exceptions unmasked. *)
MutantExceptionFree(c) == UNCHANGED masked

exception_free(c) == masked' = masked \union {c}

(* current_cpu_index unwraps the position. *)
current_cpu_index_fails(c) ==
  /\ c \notin failed
  /\ mutable[c] = 0 /\ borrowed[c] = 0
  /\ \A i \in 1..Len(ids) : ~IsPosition(c, i)
  /\ failed' = failed \union {c}
  /\ UNCHANGED <<ids, masked, mutable, borrowed>>

(* Mutant: one is added to the index. *)
MutantCoreIndex(i) == i + 1

(* The element that a core of index i uses. *)
core_index(i) == i

(* set_private_irq_handler and remove_private_irq_handler, on a thread. *)
borrow_mut(c) ==
  /\ c \notin failed \union masked
  /\ mutable[c] = 0 /\ borrowed[c] = 0
  /\ exception_free(c)
  /\ \E i \in 1..Len(ids) :
       IsPosition(c, i) /\ mutable' = [mutable EXCEPT ![c] = core_index(i)]
  /\ UNCHANGED <<ids, borrowed, failed>>

end_borrow_mut(c) ==
  /\ mutable[c] # 0 /\ borrowed[c] = 0
  /\ mutable' = [mutable EXCEPT ![c] = 0]
  /\ masked' = masked \ {c}
  /\ UNCHANGED <<ids, borrowed, failed>>

(* handle_irq, from the lookup of the handler to its return. *)
handle_irq(c) ==
  /\ c \notin failed \union masked
  /\ masked' = masked \union {c}
  /\ \E i \in 1..Len(ids) :
       IsPosition(c, i) /\ borrowed' = [borrowed EXCEPT ![c] = core_index(i)]
  /\ UNCHANGED <<ids, mutable, failed>>

end_handle_irq(c) ==
  /\ borrowed[c] # 0
  /\ borrowed' = [borrowed EXCEPT ![c] = 0]
  /\ masked' = masked \ {c}
  /\ UNCHANGED <<ids, mutable, failed>>

Next ==
  \E c \in Cores :
    \/ borrow_mut(c) \/ end_borrow_mut(c)
    \/ handle_irq(c) \/ end_handle_irq(c)
    \/ current_cpu_index_fails(c)

Spec == Init /\ [][Next]_vars

(* An element that is borrowed mutably is borrowed by nobody else: not by  *)
(* another core, since current_cpu_index "can never return the same index  *)
(* for different affinity values" (the SAFETY comment of CoresImpl), and   *)
(* not by a handler on the same core.  Neither the order of the IDs in the *)
(* device tree nor an ID that is listed twice matters.                     *)
ExclusiveBorrow ==
  \A c, d \in Cores :
    mutable[c] # 0 => /\ mutable[c] = mutable[d] => c = d
                      /\ mutable[c] # borrowed[d]

(* A core that the device tree lists finds its index, whatever the flags   *)
(* in its MPIDR: MPIDR_AFFINITY_MASK keeps exactly what the device tree's  *)
(* IDs consist of, and the unwrap in current_cpu_index does not fail.      *)
ListedCoreHasIndex ==
  \A c \in failed : \A i \in 1..Len(ids) : ids[i] # DeviceTreeId(c)
=============================================================================
