--------------------------- MODULE PerCoreProofs ---------------------------
(***************************************************************************)
(* Per-core state is not shared, for any cores and any device tree.        *)
(***************************************************************************)
EXTENDS PerCore, WellFoundedInduction, TLAPS

(* What makes ExclusiveBorrow inductive: a core that borrows is masked,    *)
(* only a handler or only a thread of it borrows, and the element is the   *)
(* one its ID is at.                                                       *)
Borrows(c) == mutable[c] # 0 \/ borrowed[c] # 0

IInv ==
  /\ TypeOK
  /\ \A c \in Cores :
       /\ Borrows(c) => c \in masked
       /\ mutable[c] # 0 => borrowed[c] = 0
       /\ mutable[c] # 0 => ids[mutable[c]] = DeviceTreeId(c)
       /\ borrowed[c] # 0 => ids[borrowed[c]] = DeviceTreeId(c)
  /\ ListedCoreHasIndex

(* The list of IDs has a length. *)
LEMMA LenType ==
  ASSUME ids \in DeviceTrees
  PROVE  Len(ids) \in Nat /\ 0 \in 0..Len(ids)
<1>1. Len(ids) \in Nat
  BY PerCoreAssumption, Zenon
<1> QED BY <1>1

(* MPIDR_AFFINITY_MASK keeps the affinity fields and nothing else. *)
LEMMA MaskKeepsAffinity ==
  ASSUME NEW c \in Cores
  PROVE  mpidr_affinity(c) = DeviceTreeId(c)
<1>1. ASSUME NEW k \in 1..8
      PROVE  MPIDR_AFFINITY_MASK[k] = 255 <=> k \in AffinityFields
  BY DEF MPIDR_AFFINITY_MASK, AffinityFields
<1> HIDE DEF AffinityFields, MPIDR_AFFINITY_MASK
<1> QED BY <1>1 DEF mpidr_affinity, DeviceTreeId

(* Different cores have different IDs. *)
LEMMA IdsDiffer ==
  ASSUME NEW c \in Cores, NEW d \in Cores, DeviceTreeId(c) = DeviceTreeId(d)
  PROVE  c = d
<1>1. ASSUME NEW k \in AffinityFields
      PROVE  MPIDR[c][k] = MPIDR[d][k]
  <2>1. k \in 1..8
    BY DEF AffinityFields
  <2>2. DeviceTreeId(c)[k] = MPIDR[c][k] /\ DeviceTreeId(d)[k] = MPIDR[d][k]
    BY <2>1 DEF DeviceTreeId
  <2> QED BY <2>2
<1> QED BY <1>1, PerCoreAssumption, Zenon

(* The position found for a core has its ID. *)
LEMMA PositionHasId ==
  ASSUME NEW c \in Cores, NEW i \in Nat, IsPosition(c, i)
  PROVE  ids[core_index(i)] = DeviceTreeId(c)
  BY MaskKeepsAffinity, Zenon DEF IsPosition, core_index

(* Different cores do not find the same position. *)
LEMMA IInvExclusive == IInv => ExclusiveBorrow
<1> SUFFICES ASSUME IInv, NEW c \in Cores, NEW d \in Cores, mutable[c] # 0
             PROVE  /\ mutable[c] = mutable[d] => c = d
                    /\ mutable[c] # borrowed[d]
  BY DEF ExclusiveBorrow
<1>1. mutable[c] = mutable[d] => c = d
  BY IdsDiffer DEF IInv
<1>2. ASSUME mutable[c] = borrowed[d] PROVE FALSE
  <2>1. c = d
    BY <1>2, IdsDiffer DEF IInv
  <2> QED BY <1>2, <2>1 DEF IInv
<1> QED BY <1>1, <1>2

(* A set of numbers that is not empty has a least element. *)
LEMMA LeastElement ==
  ASSUME NEW S \in SUBSET Nat, S # {}
  PROVE  \E i \in S : \A j \in S : i <= j
<1> DEFINE Less == {ss \in Nat \X Nat : ss[1] < ss[2]}
<1>1. IsWellFoundedOn(Less, Nat)
  BY NatLessThanWellFounded, Zenon DEF OpToRel
<1>2. PICK i \in S : \A j \in S : <<j, i>> \notin Less
  <2> HIDE DEF Less
  <2> QED BY <1>1, WFMin, Zenon
<1>3. ASSUME NEW j \in S
      PROVE  i <= j
  <2>1. i \in Nat /\ j \in Nat
    OBVIOUS
  <2>2. <<j, i>> \in Nat \X Nat /\ <<j, i>>[1] = j /\ <<j, i>>[2] = i
    BY <2>1
  <2>3. ~(<<j, i>>[1] < <<j, i>>[2])
    BY <1>2, <2>2, Zenon
  <2> QED BY <2>1, <2>2, <2>3
<1> QED BY <1>3

(* position finds an ID that is in the list. *)
LEMMA ListedHasPosition ==
  ASSUME IInv, NEW c \in Cores, NEW k \in 1..Len(ids), ids[k] = DeviceTreeId(c)
  PROVE  \E i \in 1..Len(ids) : IsPosition(c, i)
<1> DEFINE S == {j \in 1..Len(ids) : ids[j] = DeviceTreeId(c)}
<1>1. Len(ids) \in Nat
  BY LenType, Zenon DEF IInv, TypeOK
<1>2. S \in SUBSET Nat /\ S # {}
  BY <1>1
<1>3. PICK i \in S : \A j \in S : i <= j
  <2> HIDE DEF S
  <2> QED BY <1>2, LeastElement
<1>4. \A j \in 1..(i - 1) : ids[j] # DeviceTreeId(c)
  BY <1>1, <1>3
<1> QED BY <1>3, <1>4, MaskKeepsAffinity DEF IsPosition

LEMMA NextKeepsIInv ==
  ASSUME IInv, [Next]_vars
  PROVE  IInv'
<1> USE DEF IInv, TypeOK, Borrows
<1>0. Len(ids) \in Nat /\ 0 \in 0..Len(ids)
  BY LenType, Zenon
<1>1. ASSUME NEW c \in Cores, borrow_mut(c) PROVE IInv'
  <2>1. PICK i \in 1..Len(ids) :
          IsPosition(c, i) /\ mutable' = [mutable EXCEPT ![c] = core_index(i)]
    BY <1>1, Zenon DEF borrow_mut
  <2>2. i \in Nat /\ i # 0 /\ core_index(i) = i
    BY <1>0 DEF core_index
  <2>3. ids[i] = DeviceTreeId(c)
    BY <2>1, <2>2, PositionHasId
  <2>4. TypeOK'
    BY <1>1, <2>1, <2>2 DEF borrow_mut, exception_free
  <2>5. ListedCoreHasIndex'
    BY <1>1 DEF borrow_mut, ListedCoreHasIndex
  <2> QED BY <1>1, <2>1, <2>2, <2>3, <2>4, <2>5 DEF borrow_mut, exception_free
<1>2. ASSUME NEW c \in Cores, end_borrow_mut(c) PROVE IInv'
  <2>1. TypeOK'
    BY <1>0, <1>2, Zenon DEF end_borrow_mut
  <2>2. ListedCoreHasIndex'
    BY <1>2, Zenon DEF end_borrow_mut, ListedCoreHasIndex
  <2> QED BY <1>2, <2>1, <2>2 DEF end_borrow_mut
<1>3. ASSUME NEW c \in Cores, handle_irq(c) PROVE IInv'
  <2>1. PICK i \in 1..Len(ids) :
          IsPosition(c, i) /\ borrowed' = [borrowed EXCEPT ![c] = core_index(i)]
    BY <1>3, Zenon DEF handle_irq
  <2>2. i \in Nat /\ i # 0 /\ core_index(i) = i
    BY <1>0 DEF core_index
  <2>3. ids[i] = DeviceTreeId(c)
    BY <2>1, <2>2, PositionHasId
  <2>4. TypeOK'
    BY <1>3, <2>1, <2>2 DEF handle_irq
  <2>5. ListedCoreHasIndex'
    BY <1>3 DEF handle_irq, ListedCoreHasIndex
  <2> QED BY <1>3, <2>1, <2>2, <2>3, <2>4, <2>5 DEF handle_irq
<1>4. ASSUME NEW c \in Cores, end_handle_irq(c) PROVE IInv'
  <2>1. TypeOK'
    BY <1>0, <1>4, Zenon DEF end_handle_irq
  <2>2. ListedCoreHasIndex'
    BY <1>4, Zenon DEF end_handle_irq, ListedCoreHasIndex
  <2> QED BY <1>4, <2>1, <2>2 DEF end_handle_irq
<1>5. ASSUME NEW c \in Cores, current_cpu_index_fails(c) PROVE IInv'
  <2>1. \A k \in 1..Len(ids) : ids[k] # DeviceTreeId(c)
    BY <1>5, ListedHasPosition DEF current_cpu_index_fails
  <2> QED BY <1>5, <2>1 DEF current_cpu_index_fails, ListedCoreHasIndex
<1>6. CASE UNCHANGED vars
  BY <1>6 DEF vars, ListedCoreHasIndex
<1> QED BY <1>1, <1>2, <1>3, <1>4, <1>5, <1>6 DEF Next

LEMMA InitIInv == Init => IInv
<1> SUFFICES ASSUME Init PROVE IInv
  OBVIOUS
<1>1. ids \in DeviceTrees /\ masked = {} /\ failed = {}
  BY Zenon DEF Init
<1>2. Len(ids) \in Nat
  BY <1>1, LenType, Zenon
<1>3. \A c \in Cores : mutable[c] = 0 /\ borrowed[c] = 0
  BY Zenon DEF Init
<1>4. TypeOK
  BY <1>1, <1>2 DEF Init, TypeOK
<1>5. ListedCoreHasIndex
  BY <1>1, Zenon DEF ListedCoreHasIndex
<1> QED BY <1>3, <1>4, <1>5, Zenon DEF IInv, Borrows

(* Type correctness of the borrows: every index borrowed through PerCore   *)
(* is an index of an element that the slice has.                           *)
THEOREM PerCoreTypeCorrect == Spec => []TypeOK
<1>1. IInv => TypeOK
  BY DEF IInv
<1> QED BY <1>1, InitIInv, NextKeepsIInv, PTL DEF Spec

(* The SAFETY comment of CoresImpl, for any number of cores and any list   *)
(* of IDs: an element borrowed mutably is borrowed by nobody else.         *)
THEOREM BorrowsExclude == Spec => []ExclusiveBorrow
<1>1. IInv => ExclusiveBorrow
  BY IInvExclusive DEF IInv
<1> QED BY <1>1, InitIInv, NextKeepsIInv, PTL DEF Spec

(* No core that the device tree lists panics in current_cpu_index. *)
THEOREM ListedCoresFound == Spec => []ListedCoreHasIndex
<1>1. IInv => ListedCoreHasIndex
  BY DEF IInv
<1> QED BY <1>1, InitIInv, NextKeepsIInv, PTL DEF Spec
=============================================================================
