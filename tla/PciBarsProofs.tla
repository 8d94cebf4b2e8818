--------------------------- MODULE PciBarsProofs ---------------------------
(***************************************************************************)
(* Proofs about PciBars, for any ranges, BARs and sizes of blocks that     *)
(* satisfy its assumptions.                                                *)
(*                                                                         *)
(* IInv follows the address space from the ranges of the root to the       *)
(* BARs: free blocks and assigned BARs are naturally aligned, lie in a     *)
(* range of the pool they belong to or came from, and never overlap.       *)
(***************************************************************************)
EXTENDS PciBars, WellFoundedInduction, TLAPS

Apart(a, m, b, n) == a + m <= b \/ b + n <= a

(* The size addresses from base are in a range of a pool. *)
Within(pool, base, size) ==
  \E r \in ranges : /\ IsMemory(r) /\ PoolOf(r) = pool
                    /\ r.cpu_physical <= base /\ base + size <= End(r)

(* The pools that a BAR may get its address from. *)
PoolsFor(info) ==
  {p \in Pools : IF info.width = "Width32" THEN p = "memory32"
                 ELSE p = "prefetchable_memory64" => info.prefetchable}

Bars == [fn : Functions, slot : Slots]
Assigned == {w \in Bars : Base(w) # NoAddress}

(* The steps after the allocator is made. *)
Allocating ==
  {"allocate_bars", "done", "bars", "no_space", "truncated", "unimplemented"}

RangesInv ==
  /\ ranges \subseteq PciRange
  /\ \A r, q \in ranges : IsMemory(r) /\ IsMemory(q) /\ r # q =>
                            Apart(r.cpu_physical, r.size, q.cpu_physical, q.size)
  /\ \A r \in ranges : r.type = "Memory32" => r.bus_address + r.size <= U32_MAX + 1
  /\ step # "find_pci_roots" => \A r \in ranges : IsMemory(r) => End(r) <= PageTableSize
  /\ step \in Allocating => \A r \in ranges : IsMemory(r) => r.cpu_physical = r.bus_address
  /\ mapped = IF step \in {"find_pci_roots", "map_ranges"} THEN {}
              ELSE UNION {Addresses(r.cpu_physical, r.size) :
                            r \in {q \in ranges : IsMemory(q)}}

FreeInv ==
  /\ free \in [Pools -> SUBSET [base : Nat, size : BlockSizes]]
  /\ \A p \in Pools : \A b \in free[p] : b.base % b.size = 0 /\ Within(p, b.base, b.size)
  /\ \A p, q \in Pools : \A b \in free[p], c \in free[q] :
       p # q \/ b # c => Apart(b.base, b.size, c.base, c.size)
  /\ step \notin Allocating => \A p \in Pools : free[p] = {}

BarsInv ==
  /\ bars \in [Functions -> [Slots -> BarInfos]]
  /\ \A w \in Assigned :
       /\ NeedsAddress(BarInfoOf(w)) /\ Base(w) % BarInfoOf(w).size = 0
       /\ \E p \in PoolsFor(BarInfoOf(w)) : Within(p, Base(w), BarInfoOf(w).size)
       /\ \A p \in Pools : \A b \in free[p] :
            Apart(Base(w), BarInfoOf(w).size, b.base, b.size)
  /\ \A v, w \in Assigned :
       v # w => Apart(Base(v), BarInfoOf(v).size, Base(w), BarInfoOf(w).size)
  /\ \A w \in Bars : /\ w.fn \in command \/ (w.fn = f /\ w.slot < slot)
                     /\ NeedsAddress(BarInfoOf(w))
                     => w \in Assigned
  /\ step \notin Allocating => Assigned = {}
  /\ step \notin Allocating => command = {} /\ f = 1 /\ slot = 1

IInv == TypeOK /\ step # "truncated" /\ RangesInv /\ FreeInv /\ BarsInv

-----------------------------------------------------------------------------
(* Arithmetic *)

LEMMA Quotient ==
  ASSUME NEW x \in Nat, NEW n \in Nat \ {0}
  PROVE  \E k \in Nat : /\ x - (x % n) = k * n /\ k * n \in Nat
                       /\ k * n <= x /\ x < k * n + n
<1>1. x \div n \in Nat /\ x % n \in 0..(n - 1) /\ x = (x \div n) * n + (x % n)
  OBVIOUS
<1>2. PICK k, m \in Nat : k = x \div n /\ m = x % n /\ x = k * n + m /\ m < n
  BY <1>1
<1>3. k * n \in Nat
  OBVIOUS
<1>4. x - m = k * n /\ k * n <= x /\ x < k * n + n
  BY <1>2, <1>3
<1> QED BY <1>2, <1>3, <1>4, Zenon

LEMMA Multiple ==
  ASSUME NEW x \in Nat, NEW n \in Nat \ {0}, x % n = 0
  PROVE  \E k \in Nat : x = k * n
<1>1. PICK k \in Nat : x - (x % n) = k * n
  BY Quotient, Zenon
<1> QED BY <1>1

LEMMA MultipleMod ==
  ASSUME NEW k \in Nat, NEW n \in Nat \ {0}
  PROVE  (k * n) % n = 0
  OBVIOUS

LEMMA Monotone ==
  ASSUME NEW a \in Nat, NEW b \in Nat, NEW n \in Nat \ {0}
  PROVE  (a * n < b * n + n => a <= b) /\ (a <= b => a * n <= b * n)
  OBVIOUS

LEMMA SizeType == \A s \in BlockSizes : s \in Nat \ {0}
  BY BlockSizesAssumption

(* Two sizes of blocks. *)
LEMMA LargerSize ==
  ASSUME NEW s \in BlockSizes, NEW t \in BlockSizes, s < t
  PROVE  /\ s \in Nat \ {0} /\ t \in Nat \ {0} /\ 2 * s \in BlockSizes
         /\ \E m \in Nat : t = m * (2 * s) /\ 2 * s <= t
<1>1. s \in Nat \ {0} /\ t \in Nat \ {0} /\ 2 * s \in BlockSizes /\ t % (2 * s) = 0
  BY BlockSizesAssumption
<1>2. 2 * s \in Nat \ {0}
  BY <1>1
<1>3. PICK m \in Nat : t = m * (2 * s)
  BY <1>1, <1>2, Multiple, Zenon
<1>4. m # 0
  BY <1>1, <1>3
<1>5. 1 <= m => 1 * (2 * s) <= m * (2 * s)
  BY <1>2, Monotone
<1>6. 2 * s <= t
  BY <1>2, <1>3, <1>4, <1>5
<1> QED BY <1>1, <1>3, <1>6

LEMMA SmallerAligned ==
  ASSUME NEW s \in BlockSizes, NEW t \in BlockSizes, s <= t, NEW x \in Nat, x % t = 0
  PROVE  x % s = 0
<1>1. CASE s = t
  BY <1>1
<1>2. CASE s < t
  <2>1. PICK m \in Nat : t = m * (2 * s)
    BY <1>2, LargerSize
  <2>2. s \in Nat \ {0} /\ t \in Nat \ {0}
    BY SizeType
  <2>3. PICK k \in Nat : x = k * t
    BY <2>2, Multiple, Zenon
  <2>4. x = (k * m * 2) * s /\ k * m * 2 \in Nat
    <3>1. k * (m * (2 * s)) = (k * m * 2) * s
      BY <2>2
    <3>2. k * m \in Nat
      OBVIOUS
    <3>3. k * m * 2 \in Nat
      BY <3>2
    <3> QED BY <2>1, <2>3, <3>1, <3>3
  <2> QED BY <2>2, <2>4, MultipleMod
<1>3. s \in Nat /\ t \in Nat
  BY SizeType
<1> QED BY <1>1, <1>2, <1>3

(* The upper half of the part of a block that is twice size s. *)
LEMMA UpperHalf ==
  ASSUME NEW s \in BlockSizes, NEW t \in BlockSizes, s < t, NEW x \in Nat, x % t = 0
  PROVE  (x + s) % s = 0 /\ x + s + s <= x + t
<1>1. s \in Nat \ {0} /\ t \in Nat \ {0} /\ 2 * s <= t
  BY LargerSize
<1>2. x % s = 0
  <2>1. s <= t
    BY <1>1
  <2> QED BY <2>1, SmallerAligned
<1>3. PICK k \in Nat : x = k * s
  BY <1>1, <1>2, Multiple, Zenon
<1>4. x + s = (k + 1) * s /\ k + 1 \in Nat
  BY <1>1, <1>3
<1>5. (x + s) % s = 0
  BY <1>1, <1>4, MultipleMod, Zenon
<1> QED BY <1>1, <1>5

(* Blocks that overlap are nested: the larger one holds the part of twice  *)
(* size s that the smaller one is in.                                      *)
LEMMA Nested ==
  ASSUME NEW s \in BlockSizes, NEW t \in BlockSizes, s < t, NEW x \in Nat, NEW y \in Nat,
         x % s = 0, y % t = 0, ~Apart(x, s, y, t)
  PROVE  y <= x - (x % (2 * s)) /\ (x - (x % (2 * s))) + 2 * s <= y + t
<1>1. PICK m \in Nat : t = m * (2 * s) /\ 2 * s <= t
  BY LargerSize
<1>2. s \in Nat \ {0} /\ t \in Nat \ {0}
  BY SizeType
<1>3. PICK u \in Nat \ {0} : u = 2 * s
  BY <1>2
<1>4. PICK k \in Nat : y = k * t
  BY <1>2, Multiple, Zenon
<1>5. PICK a \in Nat : a = k * m /\ y = a * u
  <2>1. k * (m * u) = (k * m) * u /\ k * m \in Nat
    OBVIOUS
  <2> QED BY <1>1, <1>3, <1>4, <2>1
<1>6. PICK j \in Nat : x - (x % u) = j * u /\ j * u <= x /\ x < j * u + u /\ j * u \in Nat
  BY Quotient, Zenon
<1>7. y < x + s /\ x < y + t
  BY <1>2 DEF Apart
<1>8. a <= j
  <2>1. PICK i \in Nat : x = i * s
    BY <1>2, Multiple
  <2>2. a * u = (2 * a) * s /\ 2 * a \in Nat
    BY <1>2, <1>3
  <2>3. (2 * a) * s < i * s + s
    BY <1>5, <1>7, <2>1, <2>2
  <2>4. 2 * a <= i
    BY <1>2, <2>2, <2>3, Monotone
  <2>5. (2 * a) * s <= i * s
    BY <1>2, <2>2, <2>4, Monotone, Zenon
  <2>6. a * u < j * u + u
    BY <1>5, <1>6, <2>1, <2>2, <2>5
  <2> QED BY <2>6, Monotone
<1>9. j + 1 <= a + m
  <2>1. (a + m) * u = y + t /\ a + m \in Nat
    BY <1>1, <1>3, <1>5
  <2>2. j * u < (a + m) * u
    BY <1>2, <1>6, <1>7, <2>1
  <2>3. a + m <= j => (a + m) * u <= j * u
    BY <2>1, Monotone
  <2>4. (a + m) * u \in Nat
    BY <2>1, <1>2
  <2> QED BY <2>1, <2>2, <2>3, <2>4, <1>6
<1>10. a * u <= j * u
  BY <1>8, Monotone
<1>11. (j + 1) * u <= (a + m) * u
  BY <1>9, Monotone
<1>12. (j + 1) * u = j * u + u /\ (a + m) * u = y + t
  BY <1>1, <1>3, <1>5
<1> QED BY <1>3, <1>5, <1>6, <1>10, <1>11, <1>12

LEMMA SameSize ==
  ASSUME NEW s \in Nat \ {0}, NEW x \in Nat, NEW y \in Nat,
         x % s = 0, y % s = 0, ~Apart(x, s, y, s)
  PROVE  x = y
<1>1. PICK k \in Nat : x = k * s
  BY Multiple, Zenon
<1>2. PICK m \in Nat : y = m * s
  BY Multiple, Zenon
<1>3. k * s < m * s + s /\ m * s < k * s + s
  BY <1>1, <1>2 DEF Apart
<1>4. k <= m /\ m <= k
  BY <1>3, Monotone
<1> QED BY <1>1, <1>2, <1>4

-----------------------------------------------------------------------------
(* FrameAllocator *)

LEMMA Least ==
  ASSUME NEW T, T \subseteq Nat, T # {}
  PROVE  \E m \in T : \A n \in T : m <= n
<1> DEFINE R == OpToRel(<, Nat)
<1>1. PICK m \in T : \A n \in T : ~(<<n, m>> \in R)
  <2>1. IsWellFoundedOn(R, Nat)
    BY NatLessThanWellFounded, Zenon
  <2> HIDE DEF R
  <2> QED BY <2>1, WFMin, Zenon
<1>2. ASSUME NEW n \in T PROVE m <= n
  <2>1. n \in Nat /\ m \in Nat
    OBVIOUS
  <2>2. <<n, m>> \in R <=> n < m
    BY <2>1 DEF OpToRel
  <2> HIDE DEF R
  <2>3. ~(n < m)
    BY <1>1, <2>2
  <2> QED BY <2>1, <2>3
<1> QED BY <1>2

(* There is a best fit when any block fits. *)
LEMMA BestFitFits ==
  ASSUME FreeInv, NEW p \in Pools, NEW s \in BlockSizes, Fitting(p, s) # {}
  PROVE  BestFit(p, s) \in free[p] /\ BestFit(p, s).size >= s
<1> DEFINE F == Fitting(p, s)
           sizes == {b.size : b \in F}
<1>1. ASSUME NEW b \in F PROVE b.base \in Nat /\ b.size \in Nat
  <2>1. b \in [base : Nat, size : BlockSizes]
    BY DEF FreeInv, Fitting
  <2> QED BY <2>1, SizeType
<1>2. sizes \subseteq Nat /\ sizes # {}
  BY <1>1
<1>3. PICK m \in sizes : \A n \in sizes : m <= n
  <2> HIDE DEF sizes
  <2> QED BY <1>2, Least, Zenon
<1> DEFINE G == {b \in F : b.size = m}
           bases == {b.base : b \in G}
<1>4. bases \subseteq Nat /\ bases # {}
  BY <1>1
<1>5. PICK x \in bases : \A y \in bases : x <= y
  <2> HIDE DEF bases
  <2> QED BY <1>4, Least, Zenon
<1>6. PICK b \in F : b.size = m /\ b.base = x
  OBVIOUS
<1>7. ASSUME NEW c \in F PROVE b.size < c.size \/ (b.size = c.size /\ b.base <= c.base)
  <2>1. m <= c.size /\ m \in Nat /\ c.size \in Nat
    BY <1>1, <1>3
  <2>2. CASE c.size = m
    <3>1. x <= c.base
      BY <1>5, <2>2
    <3> QED BY <1>6, <2>2, <3>1
  <2>3. CASE c.size # m
    BY <1>6, <2>1, <2>3
  <2> QED BY <2>2, <2>3
<1>8. BestFit(p, s) \in F
  BY <1>6, <1>7 DEF BestFit
<1> QED BY <1>8 DEF Fitting

LEMMA BlockFields ==
  ASSUME NEW r \in PciRange, NEW b \in Blocks(r)
  PROVE  /\ b \in [base : Nat, size : BlockSizes] /\ b.base % b.size = 0
         /\ r.cpu_physical <= b.base /\ b.base + b.size <= End(r)
<1>1. r.cpu_physical \in Nat /\ r.size \in Nat
  BY DEF PciRange
<1>2. Addresses(r.cpu_physical, r.size) \subseteq Nat
  BY <1>1 DEF Addresses
<1> QED BY <1>2 DEF Blocks

LEMMA BlocksApart ==
  ASSUME NEW r \in PciRange, NEW b \in Blocks(r), NEW c \in Blocks(r), b # c
  PROVE  Apart(b.base, b.size, c.base, c.size)
<1>1. ASSUME NEW x \in Blocks(r), NEW y \in Blocks(r), x.size < y.size
      PROVE  Apart(x.base, x.size, y.base, y.size)
  <2> SUFFICES ASSUME ~Apart(x.base, x.size, y.base, y.size) PROVE FALSE
    OBVIOUS
  <2> DEFINE z == x.base - (x.base % (2 * x.size))
  <2>1. /\ x.base \in Nat /\ x.size \in BlockSizes /\ x.base % x.size = 0
        /\ y.base \in Nat /\ y.size \in BlockSizes /\ y.base % y.size = 0
        /\ r.cpu_physical <= y.base /\ y.base + y.size <= End(r)
    BY BlockFields, Zenon
  <2>2. y.base <= z /\ z + 2 * x.size <= y.base + y.size
    BY <1>1, <2>1, Nested
  <2>3. 2 * x.size \in BlockSizes
    BY <1>1, <2>1, LargerSize, ZenonT(30)
  <2>4. ~(z >= r.cpu_physical /\ z + 2 * x.size <= End(r))
    BY <2>3 DEF Blocks
  <2>5. z \in Int /\ r.cpu_physical \in Nat /\ End(r) \in Nat /\ x.size \in Nat /\ y.size \in Nat
    <3>1. x.size \in Nat \ {0} /\ y.size \in Nat
      BY <2>1, SizeType
    <3>2. x.base % (2 * x.size) \in Int
      BY <2>1, <3>1
    <3> QED BY <2>1, <3>1, <3>2 DEF PciRange, End
  <2> HIDE DEF z
  <2> QED BY <2>1, <2>2, <2>4, <2>5
<1>2. CASE b.size = c.size
  <2>1. b.base # c.base
    BY <1>2, BlockFields
  <2>2. b.size \in Nat \ {0}
    BY BlockFields, SizeType
  <2> QED BY <1>2, <2>1, <2>2, BlockFields, SameSize, Zenon
<1>3. CASE b.size < c.size
  BY <1>1, <1>3
<1>4. CASE c.size < b.size
  BY <1>1, <1>4 DEF Apart
<1>5. b.size \in Nat /\ c.size \in Nat
  BY BlockFields, SizeType
<1> QED BY <1>2, <1>3, <1>4, <1>5

-----------------------------------------------------------------------------
(* Ranges *)

LEMMA Constants ==
  /\ U32_MAX \in Nat /\ PageTableSize \in Nat /\ FUNCTIONS \in Nat /\ SLOTS \in Nat
  /\ NoAddress \in Nat /\ NoAddress > PageTableSize
  BY PciBarsAssumption DEF NoAddress

LEMMA InitIInv == Init => IInv
<1> SUFFICES ASSUME Init PROVE IInv
  OBVIOUS
<1>1. Assigned = {}
  BY DEF Assigned, Bars, Base, Init
<1>2. TypeOK
  <2>1. address \in [Functions -> [Slots -> 0..NoAddress]]
    BY Constants DEF Init
  <2>2. 1 \in 1..(FUNCTIONS + 1) /\ 1 \in 1..(SLOTS + 1)
    BY Constants
  <2> QED BY <2>1, <2>2 DEF TypeOK, Init
<1>3. step = "find_pci_roots" /\ step \notin Allocating
  BY DEF Init, Allocating
<1>4. RangesInv
  <2>1. ranges \in RootRanges /\ mapped = {}
    BY DEF Init
  <2> QED BY <1>3, <2>1, RootRangesAssumption DEF RangesInv, Apart, End
<1>5. FreeInv
  BY DEF FreeInv, Init
<1>6. BarsInv
  <2>1. ASSUME NEW w \in Bars, w.fn \in command \/ (w.fn = f /\ w.slot < slot) PROVE FALSE
    <3>1. w.slot \in 1..SLOTS /\ slot = 1 /\ command = {}
      BY DEF Bars, Slots, Init
    <3> QED BY <2>1, <3>1, Constants
  <2> QED BY <1>1, <2>1 DEF BarsInv, Init
<1> QED BY <1>2, <1>3, <1>4, <1>5, <1>6 DEF IInv

LEMMA TrimmedFields ==
  ASSUME NEW r \in PciRange, IsMemory(r) => r.cpu_physical < PageTableSize
  PROVE  /\ Trimmed(r) \in PciRange
         /\ Trimmed(r).type = r.type /\ Trimmed(r).cpu_physical = r.cpu_physical
         /\ Trimmed(r).bus_address = r.bus_address /\ Trimmed(r).size <= r.size
         /\ IsMemory(r) => End(Trimmed(r)) <= PageTableSize
<1>1. r.cpu_physical \in Nat /\ r.size \in Nat /\ PageTableSize \in Nat
  BY Constants DEF PciRange
<1>2. CASE ~IsMemory(r)
  BY <1>1, <1>2 DEF Trimmed
<1>3. CASE IsMemory(r)
  <2> DEFINE n == PageTableSize - r.cpu_physical
             m == Min({r.size, n})
  <2>1. n \in Nat
    BY <1>1, <1>3
  <2>2. m \in {r.size, n} /\ m <= r.size /\ m <= n
    <3> HIDE DEF n
    <3>1. \E x \in {r.size, n} : \A y \in {r.size, n} : x <= y
      BY <1>1, <2>1
    <3> QED BY <3>1 DEF Min
  <2>3. Trimmed(r) = [r EXCEPT !.size = m]
    BY <1>3 DEF Trimmed
  <2> HIDE DEF m
  <2>4. m \in Nat /\ r.cpu_physical + m <= PageTableSize
    BY <1>1, <2>1, <2>2
  <2>5. /\ Trimmed(r) \in PciRange /\ Trimmed(r).size = m
        /\ Trimmed(r).type = r.type /\ Trimmed(r).cpu_physical = r.cpu_physical
        /\ Trimmed(r).bus_address = r.bus_address
    BY <2>3, <2>4 DEF PciRange
  <2> QED BY <2>2, <2>4, <2>5 DEF End
<1> QED BY <1>2, <1>3

(* Nothing is free and nothing assigned before the allocator is made. *)
LEMMA EarlyStep ==
  ASSUME IInv, step \notin Allocating, step' \notin Allocating,
         UNCHANGED <<free, bars, address, command, f, slot>>
  PROVE  FreeInv' /\ BarsInv'
<1>1. /\ free \in [Pools -> SUBSET [base : Nat, size : BlockSizes]]
      /\ \A p \in Pools : free[p] = {}
  BY Zenon DEF IInv, FreeInv
<1>2. FreeInv'
  BY <1>1, Zenon DEF FreeInv
<1>3. /\ Assigned = {} /\ command = {} /\ f = 1 /\ slot = 1
      /\ bars \in [Functions -> [Slots -> BarInfos]]
      /\ \A w \in Bars : w.fn \in command \/ (w.fn = f /\ w.slot < slot) =>
                         ~NeedsAddress(BarInfoOf(w))
  BY Zenon DEF IInv, BarsInv
<1>4. Assigned' = {} /\ \A w \in Bars : BarInfoOf(w)' = BarInfoOf(w)
  BY <1>3, Zenon DEF Assigned, Base, BarInfoOf
<1>5. BarsInv'
  BY <1>3, <1>4, Zenon DEF BarsInv
<1> QED BY <1>2, <1>5

LEMMA FdtStep ==
  ASSUME IInv, for_fdt_node
  PROVE  IInv'
<1> DEFINE Kept == {q \in ranges : IsMemory(q) => q.cpu_physical < PageTableSize}
<1>1. /\ step = "find_pci_roots" /\ step' = "map_ranges"
      /\ ranges' = {Trimmed(r) : r \in Kept}
      /\ UNCHANGED <<mapped, free, bars, address, command, f, slot>>
  BY DEF for_fdt_node
<1>2. step \notin Allocating /\ step' \notin Allocating
  BY <1>1 DEF Allocating
<1>3. TypeOK' /\ step' # "truncated"
  BY <1>1 DEF IInv, TypeOK
<1>4. ASSUME NEW r \in Kept
      PROVE  /\ r \in ranges /\ r \in PciRange /\ Trimmed(r) \in PciRange
             /\ Trimmed(r).type = r.type /\ Trimmed(r).cpu_physical = r.cpu_physical
             /\ Trimmed(r).bus_address = r.bus_address /\ Trimmed(r).size <= r.size
             /\ IsMemory(r) => End(Trimmed(r)) <= PageTableSize
  <2>1. r \in PciRange
    BY DEF IInv, RangesInv
  <2> QED BY <2>1, TrimmedFields, Zenon
<1> HIDE DEF Kept
<1>5. ranges' \subseteq PciRange
  BY <1>1, <1>4
<1>6. ASSUME NEW r \in ranges', NEW q \in ranges', IsMemory(r), IsMemory(q), r # q
      PROVE  Apart(r.cpu_physical, r.size, q.cpu_physical, q.size)
  <2>1. PICK r0 \in Kept : r = Trimmed(r0)
    BY <1>1
  <2>2. PICK q0 \in Kept : q = Trimmed(q0)
    BY <1>1
  <2>3. r0 # q0 /\ IsMemory(r0) /\ IsMemory(q0) /\ r0 \in ranges /\ q0 \in ranges
    BY <1>4, <1>6, <2>1, <2>2, Zenon DEF IsMemory
  <2>4. Apart(r0.cpu_physical, r0.size, q0.cpu_physical, q0.size)
    BY <2>3 DEF IInv, RangesInv
  <2>5. /\ r.cpu_physical = r0.cpu_physical /\ r.size <= r0.size
        /\ q.cpu_physical = q0.cpu_physical /\ q.size <= q0.size
    BY <1>4, <2>1, <2>2, Zenon
  <2>6. /\ r \in PciRange /\ q \in PciRange /\ r0 \in PciRange /\ q0 \in PciRange
    BY <1>4, <1>5, <2>1, <2>2, Zenon
  <2>7. \A x \in PciRange : x.cpu_physical \in Nat /\ x.size \in Nat
    BY Zenon DEF PciRange
  <2> QED BY <2>4, <2>5, <2>6, <2>7 DEF Apart
<1>7. ASSUME NEW r \in ranges'
      PROVE  /\ r.type = "Memory32" => r.bus_address + r.size <= U32_MAX + 1
             /\ IsMemory(r) => End(r) <= PageTableSize
  <2>1. PICK r0 \in Kept : r = Trimmed(r0)
    BY <1>1
  <2>2. /\ r0 \in ranges /\ r.type = r0.type /\ r.bus_address = r0.bus_address
        /\ r.size <= r0.size /\ r0 \in PciRange /\ r \in PciRange
        /\ IsMemory(r0) => End(r) <= PageTableSize
    BY <1>4, <2>1, Zenon
  <2>3. r0.type = "Memory32" => r0.bus_address + r0.size <= U32_MAX + 1
    BY <2>2 DEF IInv, RangesInv
  <2>4. \A x \in PciRange : x.bus_address \in Nat /\ x.size \in Nat
    BY Zenon DEF PciRange
  <2> QED BY <2>2, <2>3, <2>4, Constants DEF IsMemory
<1>8. RangesInv'
  <2>1. mapped' = {}
    BY <1>1 DEF IInv, RangesInv
  <2> QED BY <1>1, <1>2, <1>5, <1>6, <1>7, <2>1, Zenon DEF RangesInv
<1> QED BY <1>1, <1>2, <1>3, <1>8, EarlyStep, ZenonT(30) DEF IInv

LEMMA MapStep ==
  ASSUME IInv, map_ranges
  PROVE  IInv'
<1>1. /\ step = "map_ranges" /\ step' = "init_pci"
      /\ mapped' = UNION {Addresses(r.cpu_physical, r.size) :
                             r \in {q \in ranges : IsMemory(q)}}
      /\ UNCHANGED <<ranges, free, bars, address, command, f, slot>>
  BY DEF map_ranges
<1>2. step \notin Allocating /\ step' \notin Allocating
  BY <1>1 DEF Allocating
<1>3. mapped' \subseteq 0..(PageTableSize - 1)
  <2>1. ASSUME NEW r \in ranges, IsMemory(r)
        PROVE  Addresses(r.cpu_physical, r.size) \subseteq 0..(PageTableSize - 1)
    <3>1. r \in PciRange /\ End(r) <= PageTableSize
      BY <1>1, <2>1 DEF IInv, RangesInv
    <3>2. r.cpu_physical \in Nat /\ r.size \in Nat
      BY <3>1, Zenon DEF PciRange
    <3> QED BY <3>1, <3>2, Constants DEF Addresses, End
  <2> QED BY <1>1, <2>1
<1>4. TypeOK' /\ step' # "truncated"
  BY <1>1, <1>3, Zenon DEF IInv, TypeOK
<1>5. RangesInv'
  BY <1>1, <1>2, Zenon DEF IInv, RangesInv
<1> QED BY <1>1, <1>2, <1>4, <1>5, EarlyStep, Zenon DEF IInv

-----------------------------------------------------------------------------
(* The allocator *)

LEMMA NewStep ==
  ASSUME IInv, PciBarAllocator_new
  PROVE  IInv'
<1>1. /\ step = "init_pci" /\ step \notin Allocating
      /\ UNCHANGED <<ranges, mapped, bars, address, command, f, slot>>
  BY DEF PciBarAllocator_new, Allocating
<1>2. CASE step' = "bus_address" /\ UNCHANGED free
  <2>1. step' \notin Allocating
    BY <1>2, Zenon DEF Allocating
  <2>2. TypeOK' /\ step' # "truncated"
    BY <1>1, <1>2, Zenon DEF IInv, TypeOK, Outcomes
  <2>3. RangesInv'
    BY <1>1, <1>2, <2>1 DEF IInv, RangesInv
  <2> QED BY <1>1, <1>2, <2>1, <2>2, <2>3, EarlyStep, Zenon DEF IInv
<1>3. CASE /\ \A r \in ranges : IsMemory(r) => r.cpu_physical = r.bus_address
           /\ free' = [p \in Pools |->
                         UNION {Blocks(r) : r \in {q \in ranges :
                                                     IsMemory(q) /\ PoolOf(q) = p}}]
           /\ step' = "allocate_bars"
  <2>1. ASSUME NEW p \in Pools, NEW b \in free'[p]
        PROVE  \E r \in ranges : /\ IsMemory(r) /\ PoolOf(r) = p /\ r \in PciRange
                                 /\ b \in Blocks(r)
    <3>1. PICK r \in ranges : IsMemory(r) /\ PoolOf(r) = p /\ b \in Blocks(r)
      BY <1>3, Zenon
    <3> QED BY <3>1 DEF IInv, RangesInv
  <2>2. ASSUME NEW p \in Pools, NEW b \in free'[p]
        PROVE  /\ b \in [base : Nat, size : BlockSizes] /\ b.base % b.size = 0
               /\ Within(p, b.base, b.size)'
    <3>1. PICK r \in ranges : /\ IsMemory(r) /\ PoolOf(r) = p /\ r \in PciRange
                              /\ b \in Blocks(r)
      BY <2>1, Zenon
    <3>2. /\ b \in [base : Nat, size : BlockSizes] /\ b.base % b.size = 0
          /\ r.cpu_physical <= b.base /\ b.base + b.size <= End(r)
      BY <3>1, BlockFields, Zenon
    <3>3. Within(p, b.base, b.size)'
      BY <1>1, <3>1, <3>2, Zenon DEF Within
    <3> QED BY <3>2, <3>3, Zenon
  <2>3. ASSUME NEW p \in Pools, NEW q \in Pools, NEW b \in free'[p], NEW c \in free'[q],
               p # q \/ b # c
        PROVE  Apart(b.base, b.size, c.base, c.size)
    <3>1. PICK r \in ranges : /\ IsMemory(r) /\ PoolOf(r) = p /\ r \in PciRange
                              /\ b \in Blocks(r)
      BY <2>1, Zenon
    <3>2. PICK s \in ranges : /\ IsMemory(s) /\ PoolOf(s) = q /\ s \in PciRange
                              /\ c \in Blocks(s)
      BY <2>1, Zenon
    <3>3. CASE r = s
      <4>1. b # c
        BY <2>3, <3>1, <3>2, <3>3, ZenonT(30)
      <4> QED BY <3>1, <3>2, <3>3, <4>1, BlocksApart, Zenon
    <3>4. CASE r # s
      <4>1. Apart(r.cpu_physical, r.size, s.cpu_physical, s.size)
        BY <3>1, <3>2, <3>4, Zenon DEF IInv, RangesInv
      <4>2. /\ r.cpu_physical <= b.base /\ b.base + b.size <= r.cpu_physical + r.size
            /\ s.cpu_physical <= c.base /\ c.base + c.size <= s.cpu_physical + s.size
            /\ b.base \in Nat /\ b.size \in BlockSizes
            /\ c.base \in Nat /\ c.size \in BlockSizes
        BY <3>1, <3>2, BlockFields, Zenon DEF End
      <4>3. b.size \in Nat /\ c.size \in Nat
        BY <4>2, SizeType
      <4>4. \A x \in PciRange : x.cpu_physical \in Nat /\ x.size \in Nat
        BY DEF PciRange
      <4> QED BY <3>1, <3>2, <4>1, <4>2, <4>3, <4>4 DEF Apart
    <3> QED BY <3>3, <3>4, Zenon
  <2>4. free' \in [Pools -> SUBSET [base : Nat, size : BlockSizes]]
    <3>1. \A p \in Pools : free'[p] \subseteq [base : Nat, size : BlockSizes]
      BY <2>2, Zenon
    <3>2. free' = [p \in Pools |-> free'[p]]
      BY <1>3, Zenon
    <3> QED BY <3>1, <3>2, Zenon
  <2>5. step' \in Allocating
    BY <1>3, Zenon DEF Allocating
  <2>6. FreeInv'
    BY <2>2, <2>3, <2>4, <2>5, Zenon DEF FreeInv
  <2>7. TypeOK' /\ step' # "truncated"
    BY <1>1, <1>3, Zenon DEF IInv, TypeOK
  <2>8. RangesInv'
    BY <1>1, <1>3, Zenon DEF IInv, RangesInv
  <2>9. BarsInv'
    <3>1. Assigned = {} /\ bars \in [Functions -> [Slots -> BarInfos]]
          /\ \A w \in Bars : w.fn \in command \/ (w.fn = f /\ w.slot < slot) =>
                             ~NeedsAddress(BarInfoOf(w))
      BY <1>1, Zenon DEF IInv, BarsInv
    <3>2. Assigned' = {} /\ \A w \in Bars : BarInfoOf(w)' = BarInfoOf(w)
      BY <1>1, <3>1 DEF Assigned, Base, BarInfoOf
    <3> QED BY <1>1, <2>5, <3>1, <3>2, Zenon DEF BarsInv
  <2> QED BY <2>6, <2>7, <2>8, <2>9, ZenonT(30) DEF IInv
<1> QED BY <1>2, <1>3, Zenon DEF PciBarAllocator_new

LEMMA ApartInside ==
  ASSUME NEW x \in Nat, NEW m \in Nat, NEW y \in Nat, NEW n \in Nat,
         NEW z \in Nat, NEW k \in Nat, Apart(x, m, y, n), y <= z, z + k <= y + n
  PROVE  Apart(x, m, z, k) /\ Apart(z, k, x, m)
  BY DEF Apart

(* What alloc_aligned frees of block b, of which size s is taken. *)
Halves(b, s) ==
  {[base |-> b.base + x, size |-> x] : x \in {y \in BlockSizes : s <= y /\ y < b.size}}

LEMMA HalvesInside ==
  ASSUME NEW b \in [base : Nat, size : BlockSizes], b.base % b.size = 0,
         NEW s \in BlockSizes, NEW c \in Halves(b, s)
  PROVE  /\ c \in [base : Nat, size : BlockSizes] /\ c.base % c.size = 0
         /\ b.base + s <= c.base /\ c.base + c.size <= b.base + b.size
<1>1. PICK x \in BlockSizes : s <= x /\ x < b.size /\ c = [base |-> b.base + x, size |-> x]
  BY DEF Halves
<1>2. x \in Nat /\ s \in Nat /\ b.base \in Nat /\ b.size \in BlockSizes
  BY SizeType, Zenon
<1>3. (b.base + x) % x = 0 /\ b.base + x + x <= b.base + b.size
  BY <1>1, <1>2, UpperHalf, Zenon
<1>4. c.base = b.base + x /\ c.size = x
  BY <1>1
<1>5. c \in [base : Nat, size : BlockSizes]
  BY <1>1, <1>2
<1>6. c.base % c.size = 0 /\ c.base + c.size <= b.base + b.size
  BY <1>3, <1>4
<1>7. b.base + s <= c.base
  BY <1>1, <1>2, <1>4
<1> QED BY <1>5, <1>6, <1>7, Zenon

LEMMA HalvesApart ==
  ASSUME NEW b \in [base : Nat, size : BlockSizes], NEW s \in BlockSizes,
         NEW c \in Halves(b, s), NEW d \in Halves(b, s), c # d
  PROVE  Apart(c.base, c.size, d.base, d.size)
<1>1. PICK x \in BlockSizes : c = [base |-> b.base + x, size |-> x]
  BY DEF Halves
<1>2. PICK y \in BlockSizes : d = [base |-> b.base + y, size |-> y]
  BY Zenon DEF Halves
<1>3. x \in Nat /\ y \in Nat /\ x # y /\ b.base \in Nat
  BY <1>1, <1>2, SizeType, Zenon
<1>4. \A u, v \in BlockSizes : u < v => 2 * u <= v
  BY LargerSize, Zenon
<1>5. c.base = b.base + x /\ c.size = x /\ d.base = b.base + y /\ d.size = y
  BY <1>1, <1>2, Zenon
<1>6. CASE x < y
  <2>1. 2 * x <= y
    BY <1>4, <1>6, Zenon
  <2> QED BY <1>3, <1>5, <2>1 DEF Apart
<1>7. CASE y < x
  <2>1. 2 * y <= x
    BY <1>4, <1>7, Zenon
  <2> QED BY <1>3, <1>5, <2>1 DEF Apart
<1> QED BY <1>3, <1>6, <1>7

(* The free blocks after size s was taken from block b of a pool. *)
LEMMA TakenFree ==
  ASSUME IInv, step = "allocate_bars", step' = step, ranges' = ranges,
         NEW pool \in Pools, NEW b \in free[pool], NEW s \in BlockSizes, s <= b.size,
         free' = [free EXCEPT ![pool] = (free[pool] \ {b}) \union Halves(b, s)]
  PROVE  /\ FreeInv'
         /\ b \in [base : Nat, size : BlockSizes] /\ b.base % s = 0
         /\ Within(pool, b.base, s)'
         /\ \A q \in Pools : \A c \in free'[q] : Apart(b.base, s, c.base, c.size)
         /\ \A q \in Pools : \A c \in free'[q] :
              c \in free[q] \/ (b.base <= c.base /\ c.base + c.size <= b.base + b.size)
<1>1. /\ free \in [Pools -> SUBSET [base : Nat, size : BlockSizes]]
      /\ \A p \in Pools : \A c \in free[p] : c.base % c.size = 0 /\ Within(p, c.base, c.size)
      /\ \A p, q \in Pools : \A c \in free[p], d \in free[q] :
           p # q \/ c # d => Apart(c.base, c.size, d.base, d.size)
  BY Zenon DEF IInv, FreeInv
<1>2. /\ b \in [base : Nat, size : BlockSizes] /\ b.base % b.size = 0
      /\ Within(pool, b.base, b.size)
  BY <1>1, Zenon
<1>3. \A c \in [base : Nat, size : BlockSizes] :
        c.base \in Nat /\ c.size \in BlockSizes /\ c.size \in Nat
  BY SizeType, Zenon
<1>4. ASSUME NEW q \in Pools, NEW c \in free'[q]
      PROVE  \/ c \in free[q] /\ (q # pool \/ c # b)
             \/ q = pool /\ c \in Halves(b, s)
  BY <1>1, Zenon
<1>5. ASSUME NEW c \in Halves(b, s)
      PROVE  /\ c \in [base : Nat, size : BlockSizes] /\ c.base % c.size = 0
             /\ b.base + s <= c.base /\ c.base + c.size <= b.base + b.size
             /\ b.base <= c.base
  <2>1. /\ c \in [base : Nat, size : BlockSizes] /\ c.base % c.size = 0
        /\ b.base + s <= c.base /\ c.base + c.size <= b.base + b.size
    BY <1>2, HalvesInside, Zenon
  <2> QED BY <1>2, <1>3, <2>1, SizeType
<1>6. ASSUME NEW z \in Nat, NEW k \in Nat, b.base <= z, z + k <= b.base + b.size
      PROVE  Within(pool, z, k)'
  <2>1. PICK r \in ranges : /\ IsMemory(r) /\ PoolOf(r) = pool
                            /\ r.cpu_physical <= b.base /\ b.base + b.size <= End(r)
    BY <1>2, Zenon DEF Within
  <2>2. r.cpu_physical \in Nat /\ End(r) \in Nat
    BY DEF IInv, RangesInv, PciRange, End
  <2>3. r.cpu_physical <= z /\ z + k <= End(r)
    BY <1>2, <1>3, <1>6, <2>1, <2>2
  <2> QED BY <2>1, <2>3, Zenon DEF Within
<1>7. ASSUME NEW q \in Pools, NEW c \in free[q], q # pool \/ c # b,
             NEW z \in Nat, NEW k \in Nat, b.base <= z, z + k <= b.base + b.size
      PROVE  Apart(z, k, c.base, c.size) /\ Apart(c.base, c.size, z, k)
  <2>1. Apart(c.base, c.size, b.base, b.size) /\ c \in [base : Nat, size : BlockSizes]
    BY <1>1, <1>7
  <2> QED BY <1>2, <1>3, <1>7, <2>1, ApartInside, Zenon
<1>8. s \in Nat /\ b.base + s <= b.base + b.size /\ b.base <= b.base
  BY <1>2, <1>3, SizeType
<1>9. ASSUME NEW q \in Pools, NEW c \in free'[q]
      PROVE  /\ c \in [base : Nat, size : BlockSizes] /\ c.base % c.size = 0
             /\ Within(q, c.base, c.size)' /\ Apart(b.base, s, c.base, c.size)
             /\ c \in free[q] \/ (b.base <= c.base /\ c.base + c.size <= b.base + b.size)
  <2>1. CASE c \in free[q] /\ (q # pool \/ c # b)
    <3>1. Within(q, c.base, c.size)'
      BY <1>1, <2>1, Zenon DEF Within
    <3>2. Apart(b.base, s, c.base, c.size)
      BY <1>2, <1>3, <1>7, <1>8, <2>1, Zenon
    <3> QED BY <1>1, <2>1, <3>1, <3>2
  <2>2. CASE q = pool /\ c \in Halves(b, s)
    <3>1. Within(q, c.base, c.size)'
      BY <1>3, <1>5, <1>6, <2>2, Zenon
    <3> QED BY <1>5, <2>2, <3>1, Zenon DEF Apart
  <2> QED BY <1>4, <2>1, <2>2
<1>10. ASSUME NEW p \in Pools, NEW q \in Pools, NEW c \in free'[p], NEW d \in free'[q],
              p # q \/ c # d
       PROVE  Apart(c.base, c.size, d.base, d.size)
  <2>1. CASE c \in free[p] /\ d \in free[q]
    BY <1>1, <1>10, <2>1, Zenon
  <2>2. CASE c \in Halves(b, s) /\ d \in free[q] /\ (q # pool \/ d # b)
    BY <1>3, <1>5, <1>7, <2>2, Zenon
  <2>3. CASE c \in free[p] /\ (p # pool \/ c # b) /\ d \in Halves(b, s)
    BY <1>3, <1>5, <1>7, <2>3, Zenon
  <2>4. CASE p = pool /\ c \in Halves(b, s) /\ q = pool /\ d \in Halves(b, s)
    BY <1>2, <1>10, <2>4, HalvesApart, Zenon
  <2> QED BY <1>4, <2>1, <2>2, <2>3, <2>4, Zenon
<1>11. free' \in [Pools -> SUBSET [base : Nat, size : BlockSizes]]
  <2>1. Halves(b, s) \subseteq [base : Nat, size : BlockSizes]
    BY <1>5, Zenon
  <2> QED BY <1>1, <2>1, Zenon
<1>12. FreeInv'
  <2>1. step' \in Allocating
    BY Zenon DEF Allocating
  <2> QED BY <1>9, <1>10, <1>11, <2>1, Zenon DEF FreeInv
<1>13. b.base % s = 0
  BY <1>2, <1>3, SmallerAligned, Zenon
<1>14. Within(pool, b.base, s)'
  BY <1>2, <1>3, <1>6, <1>8, Zenon
<1> QED BY <1>2, <1>9, <1>12, <1>13, <1>14, Zenon

-----------------------------------------------------------------------------
(* BARs *)

LEMMA InfoFields ==
  ASSUME IInv, f \in Functions, slot \in Slots, NeedsAddress(Info)
  PROVE  /\ Info \in BarInfos /\ Info.size \in BlockSizes
         /\ Info.width \in {"Width32", "Width64", "Below1MiB", "None"}
<1>1. Info \in BarInfos
  BY Zenon DEF IInv, BarsInv, Info
<1>2. Info.size \in BlockSizes \union {0} /\ Info.size > 0
  BY <1>1, BarInfosAssumption, Zenon DEF NeedsAddress
<1>3. ~(0 > 0)
  OBVIOUS
<1>4. Info.size \in BlockSizes
  BY <1>2, <1>3, Zenon
<1> QED BY <1>1, <1>4, BarInfosAssumption, Zenon

(* The BAR that allocate_bars looks at gets the start of a block. *)
LEMMA AssignStep ==
  ASSUME IInv, step = "allocate_bars", f \in Functions, slot \in Slots,
         NeedsAddress(Info), NEW pool \in PoolsFor(Info), Assign(pool, Info.size),
         UNCHANGED <<ranges, mapped, bars, command, f>>
  PROVE  IInv'
<1>1. pool \in Pools
  BY Zenon DEF PoolsFor
<1>2. PICK s \in BlockSizes : s = Info.size
  BY InfoFields, Zenon
<1>3. PICK b \in free[pool] : b = BestFit(pool, s) /\ s <= b.size
  <2>1. Fitting(pool, s) # {}
    BY <1>2, Zenon DEF Assign
  <2>2. BestFit(pool, s) \in free[pool] /\ BestFit(pool, s).size >= s
    BY <1>1, <2>1, BestFitFits, Zenon DEF IInv
  <2> QED BY <2>2, Zenon
<1>4. /\ step' = step /\ slot' = slot + 1
      /\ address' = [address EXCEPT ![f][slot] = b.base]
      /\ free' = [free EXCEPT ![pool] = (free[pool] \ {b}) \union Halves(b, s)]
  BY <1>2, <1>3, Zenon DEF Assign, alloc_aligned, Halves
<1>5. /\ FreeInv'
      /\ b \in [base : Nat, size : BlockSizes] /\ b.base % s = 0
      /\ Within(pool, b.base, s)'
      /\ \A q \in Pools : \A c \in free'[q] : Apart(b.base, s, c.base, c.size)
      /\ \A q \in Pools : \A c \in free'[q] :
           c \in free[q] \/ (b.base <= c.base /\ c.base + c.size <= b.base + b.size)
  BY <1>1, <1>3, <1>4, TakenFree, Zenon
<1>6. b.base \in Nat /\ b.size \in Nat /\ s \in Nat \ {0}
  BY <1>5, SizeType
<1>7. b.base < PageTableSize
  <2>1. PICK r \in ranges : IsMemory(r) /\ b.base + s <= End(r)
    BY <1>5, Zenon DEF Within
  <2>2. End(r) <= PageTableSize /\ End(r) \in Nat
    BY <2>1 DEF IInv, RangesInv, PciRange, End
  <2> QED BY <1>6, <2>1, <2>2, Constants
<1>8. RangesInv'
  BY <1>4, Zenon DEF IInv, RangesInv
<1>9. TypeOK' /\ step' # "truncated"
  <2>1. b.base \in 0..NoAddress
    BY <1>6, <1>7, Constants
  <2>2. address' \in [Functions -> [Slots -> 0..NoAddress]]
    BY <1>4, <2>1, Zenon DEF IInv, TypeOK
  <2>3. slot' \in 1..(SLOTS + 1)
    BY <1>4, Constants DEF Slots
  <2>4. DOMAIN free' = Pools
    BY <1>4, ZenonT(30) DEF IInv, TypeOK
  <2> QED BY <1>4, <2>2, <2>3, <2>4, Zenon DEF IInv, TypeOK
<1>10. PICK u \in Bars : u = [fn |-> f, slot |-> slot]
  BY ZenonT(30) DEF Bars
<1>11. ASSUME NEW w \in Bars
       PROVE  /\ BarInfoOf(w)' = BarInfoOf(w)
              /\ Base(w)' = IF w = u THEN b.base ELSE Base(w)
  <2>1. w.fn \in Functions /\ w.slot \in Slots /\ w = [fn |-> w.fn, slot |-> w.slot]
    BY DEF Bars
  <2>2. w = u <=> w.fn = f /\ w.slot = slot
    BY <1>10, <2>1
  <2>3. address \in [Functions -> [Slots -> 0..NoAddress]]
    BY Zenon DEF IInv, TypeOK
  <2>4. Base(w)' = IF w.fn = f /\ w.slot = slot THEN b.base ELSE Base(w)
    BY <1>4, <2>1, <2>3, Zenon DEF Base
  <2> QED BY <2>2, <2>4, SMTT(30) DEF BarInfoOf
<1>12. BarInfoOf(u) = Info
  BY <1>10, Zenon DEF BarInfoOf, Info
<1>13. Assigned' = Assigned \union {u}
  <2>1. b.base # NoAddress
    BY <1>6, <1>7, Constants
  <2>2. Base(u)' = b.base /\ u \in Bars
    BY <1>11, Zenon
  <2>3. \A w \in Bars : w # u => Base(w)' = Base(w)
    BY <1>11, Zenon
  <2>4. Assigned' = {w \in Bars : Base(w)' # NoAddress}
    BY Zenon DEF Assigned
  <2>5. \A w : w \in Assigned' <=> w \in Assigned \union {u}
    <3> TAKE w
    <3>1. w \in Assigned' <=> w \in Bars /\ Base(w)' # NoAddress
      BY <2>4, Zenon
    <3>2. w \in Assigned <=> w \in Bars /\ Base(w) # NoAddress
      BY Zenon DEF Assigned
    <3>3. CASE w = u
      BY <3>1, <3>3, <2>1, <2>2, Zenon
    <3>4. CASE w # u
      BY <3>1, <3>2, <3>4, <2>3, ZenonT(30)
    <3> QED BY <3>3, <3>4, Zenon
  <2> QED BY <2>5, Zenon
<1>14. ASSUME NEW w \in Assigned, w # u
       PROVE  /\ Base(w)' = Base(w) /\ BarInfoOf(w)' = BarInfoOf(w)
              /\ Base(w) \in Nat /\ BarInfoOf(w).size \in Nat
              /\ Apart(Base(w), BarInfoOf(w).size, b.base, b.size)
  <2>1. w \in Bars
    BY Zenon DEF Assigned
  <2>2. w.fn \in Functions /\ w.slot \in Slots
    BY <2>1, Zenon DEF Bars
  <2>3. Base(w) \in Nat
    <3>1. address \in [Functions -> [Slots -> 0..NoAddress]]
      BY Zenon DEF IInv, TypeOK
    <3>2. Base(w) \in 0..NoAddress
      BY <2>2, <3>1, Zenon DEF Base
    <3> QED BY <3>2, Constants
  <2>4. BarInfoOf(w) \in BarInfos
    BY <2>2, Zenon DEF BarInfoOf, IInv, BarsInv
  <2>5. BarInfoOf(w).size \in Nat
    BY <2>4, BarInfosAssumption, SizeType
  <2>6. Apart(Base(w), BarInfoOf(w).size, b.base, b.size)
    BY <1>1, Zenon DEF IInv, BarsInv
  <2> QED BY <1>11, <1>14, <2>1, <2>3, <2>5, <2>6, Zenon
<1>15. ASSUME NEW w \in Assigned'
       PROVE  /\ NeedsAddress(BarInfoOf(w)') /\ Base(w)' % (BarInfoOf(w)').size = 0
              /\ \E p \in PoolsFor(BarInfoOf(w)') : Within(p, Base(w), BarInfoOf(w).size)'
              /\ \A p \in Pools : \A c \in free'[p] :
                   Apart(Base(w)', (BarInfoOf(w)').size, c.base, c.size)
  <2>1. CASE w = u
    <3>1. Base(w)' = b.base /\ BarInfoOf(w)' = Info /\ (BarInfoOf(w)').size = s
      BY <1>2, <1>10, <1>11, <1>12, <2>1, Zenon
    <3>2. Within(pool, Base(w), BarInfoOf(w).size)'
      BY <1>5, <3>1, Zenon DEF Within
    <3> QED BY <1>5, <3>1, <3>2, Zenon
  <2>2. CASE w # u
    <3>1. w \in Assigned
      BY <1>13, <2>2, Zenon
    <3>2. Base(w)' = Base(w) /\ BarInfoOf(w)' = BarInfoOf(w)
      BY <1>14, <2>2, <3>1, Zenon
    <3>3. /\ NeedsAddress(BarInfoOf(w)) /\ Base(w) % BarInfoOf(w).size = 0
          /\ \E p \in PoolsFor(BarInfoOf(w)) : Within(p, Base(w), BarInfoOf(w).size)
          /\ \A p \in Pools : \A c \in free[p] :
               Apart(Base(w), BarInfoOf(w).size, c.base, c.size)
      BY <3>1, Zenon DEF IInv, BarsInv
    <3>4. \A p \in Pools : Within(p, Base(w), BarInfoOf(w).size)' <=>
                           Within(p, Base(w), BarInfoOf(w).size)
      BY <3>2, Zenon DEF Within
    <3>5. ASSUME NEW p \in Pools, NEW c \in free'[p]
          PROVE  Apart(Base(w), BarInfoOf(w).size, c.base, c.size)
      <4>1. CASE c \in free[p]
        BY <3>3, <4>1, ZenonT(30)
      <4>2. CASE b.base <= c.base /\ c.base + c.size <= b.base + b.size
        <5>1. c.base \in Nat /\ c.size \in Nat
          <6>1. c \in [base : Nat, size : BlockSizes]
            BY <1>5, Zenon DEF FreeInv
          <6> QED BY <6>1, SizeType
        <5> QED BY <1>6, <1>14, <2>2, <3>1, <4>2, <5>1, ApartInside, ZenonT(30)
      <4> QED BY <1>5, <4>1, <4>2, Zenon
    <3>6. \E p \in PoolsFor(BarInfoOf(w)) : Within(p, Base(w), BarInfoOf(w).size)'
      BY <3>3, <3>4, Zenon DEF PoolsFor
    <3> QED BY <3>2, <3>3, <3>5, <3>6, Zenon
  <2> QED BY <2>1, <2>2, Zenon
<1>16. ASSUME NEW v \in Assigned', NEW w \in Assigned', v # w
       PROVE  Apart(Base(v)', (BarInfoOf(v)').size, Base(w)', (BarInfoOf(w)').size)
  <2>1. Base(u)' = b.base /\ (BarInfoOf(u)').size = s /\ b.base + s <= b.base + b.size
    BY <1>2, <1>3, <1>6, <1>10, <1>11, <1>12
  <2>2. ASSUME NEW x \in Assigned, x # u
        PROVE  /\ Apart(Base(x)', (BarInfoOf(x)').size, Base(u)', (BarInfoOf(u)').size)
               /\ Apart(Base(u)', (BarInfoOf(u)').size, Base(x)', (BarInfoOf(x)').size)
    <3>1. /\ Apart(Base(x), BarInfoOf(x).size, b.base, s)
          /\ Apart(b.base, s, Base(x), BarInfoOf(x).size)
      <4>1. /\ Base(x) \in Nat /\ BarInfoOf(x).size \in Nat
            /\ Apart(Base(x), BarInfoOf(x).size, b.base, b.size)
        BY <1>14, <2>2
      <4>2. b.base <= b.base /\ b.base + s <= b.base + b.size /\ s \in Nat
        BY <1>6, <2>1
      <4> QED BY <1>6, <4>1, <4>2, ApartInside, ZenonT(30)
    <3>2. Base(x)' = Base(x) /\ BarInfoOf(x)' = BarInfoOf(x)
      BY <1>14, <2>2, Zenon
    <3> QED BY <2>1, <3>1, <3>2, Zenon
  <2>3. CASE v # u /\ w # u
    <3>1. v \in Assigned /\ w \in Assigned
      BY <1>13, <2>3, Zenon
    <3>2. Apart(Base(v), BarInfoOf(v).size, Base(w), BarInfoOf(w).size)
      BY <1>16, <3>1, Zenon DEF IInv, BarsInv
    <3> QED BY <1>14, <2>3, <3>1, <3>2, Zenon
  <2>4. CASE v = u
    BY <1>13, <1>16, <2>2, <2>4, ZenonT(30)
  <2>5. CASE w = u
    BY <1>13, <1>16, <2>2, <2>5, Zenon
  <2> QED BY <2>3, <2>4, <2>5, Zenon
<1>17. ASSUME NEW w \in Bars, w.fn \in command' \/ (w.fn = f' /\ w.slot < slot'),
              NeedsAddress(BarInfoOf(w)')
       PROVE  w \in Assigned'
  <2>1. w.slot \in Nat /\ slot \in Nat /\ w = [fn |-> w.fn, slot |-> w.slot]
    BY Constants DEF Bars, Slots
  <2>2. CASE w = u
    BY <1>13, <2>2, Zenon
  <2>3. CASE w # u
    <3>1. w.fn \in command \/ (w.fn = f /\ w.slot < slot)
      BY <1>4, <1>10, <1>17, <2>1, <2>3
    <3>2. NeedsAddress(BarInfoOf(w))
      BY <1>11, <1>17, Zenon
    <3>3. w \in Assigned
      BY <3>1, <3>2, Zenon DEF IInv, BarsInv
    <3> QED BY <1>13, <3>3, ZenonT(30)
  <2> QED BY <2>2, <2>3, Zenon
<1>18. BarsInv'
  <2>1. step' \in Allocating
    BY <1>4, Zenon DEF Allocating
  <2>2. bars' \in [Functions -> [Slots -> BarInfos]]
    BY Zenon DEF IInv, BarsInv
  <2> QED BY <1>15, <1>16, <1>17, <2>1, <2>2, ZenonT(30) DEF BarsInv
<1> QED BY <1>5, <1>8, <1>9, <1>18, Zenon DEF IInv

(* A step after which the same BARs have the same addresses. *)
LEMMA KeepingStep ==
  ASSUME IInv, step = "allocate_bars", step' \in Allocating \ {"truncated"}, TypeOK',
         UNCHANGED <<ranges, mapped, free, bars, address>>,
         \A w \in Bars : /\ w.fn \in command' \/ (w.fn = f' /\ w.slot < slot')
                         /\ NeedsAddress(BarInfoOf(w))
                         => w \in Assigned
  PROVE  IInv'
<1>1. step' # "truncated" /\ step \in Allocating /\ step' \in Allocating
      /\ step' # "find_pci_roots" /\ step' # "map_ranges"
  BY Zenon DEF Allocating
<1>2. RangesInv'
  BY <1>1, Zenon DEF IInv, RangesInv
<1>3. FreeInv'
  BY <1>1, Zenon DEF IInv, FreeInv, Within
<1>4. Assigned' = Assigned /\ \A w \in Bars : BarInfoOf(w)' = BarInfoOf(w) /\ Base(w)' = Base(w)
  BY Zenon DEF Assigned, BarInfoOf, Base
<1>5. Assigned \subseteq Bars
  BY ZenonT(30) DEF Assigned
<1>6. BarsInv'
  BY <1>1, <1>4, <1>5 DEF IInv, BarsInv, Within
<1> QED BY <1>1, <1>2, <1>3, <1>6, Zenon DEF IInv

LEMMA PanicStep ==
  ASSUME IInv, step = "allocate_bars", NEW reason \in {"bars", "no_space", "unimplemented"},
         Panic(reason), UNCHANGED <<ranges, mapped, bars, command, f>>
  PROVE  IInv'
<1>1. step' = reason /\ UNCHANGED <<free, address, slot>>
  BY Zenon DEF Panic
<1>2. TypeOK'
  BY <1>1 DEF IInv, TypeOK, Outcomes
<1>3. step' \in Allocating \ {"truncated"}
  BY <1>1, Zenon DEF Allocating
<1>4. \A w \in Bars : /\ w.fn \in command' \/ (w.fn = f' /\ w.slot < slot')
                      /\ NeedsAddress(BarInfoOf(w))
                      => w \in Assigned
  BY <1>1, Zenon DEF IInv, BarsInv
<1> QED BY <1>1, <1>2, <1>3, <1>4, KeepingStep

(* A block of the 32-bit pool is within the reach of 32 bits. *)
LEMMA Pool32 ==
  ASSUME RangesInv, step \in Allocating, NEW base \in Nat, NEW size \in Nat \ {0},
         Within("memory32", base, size)
  PROVE  base + size <= U32_MAX + 1 /\ base <= U32_MAX
<1>1. PICK r \in ranges : IsMemory(r) /\ PoolOf(r) = "memory32" /\ base + size <= End(r)
  BY Zenon DEF Within
<1>2. r.cpu_physical = r.bus_address /\ r \in PciRange
  BY <1>1 DEF RangesInv
<1>3. r.cpu_physical \in Nat /\ r.size \in Nat
  BY <1>2, Zenon DEF PciRange
<1>4. Treated32(r)
  BY <1>1, Zenon DEF PoolOf, PoolOf64
<1>5. r.bus_address + r.size <= U32_MAX + 1
  <2>1. CASE r.type = "Memory32"
    BY <1>1, <2>1, Zenon DEF RangesInv
  <2>2. CASE r.bus_address + r.size < U32_MAX
    BY <1>2, <1>3, <2>2, Constants
  <2> QED BY <1>4, <2>1, <2>2, Zenon DEF Treated32
<1> QED BY <1>1, <1>2, <1>3, <1>5, Constants DEF End

LEMMA Allocate32Step ==
  ASSUME IInv, step = "allocate_bars", f \in Functions, slot \in Slots,
         NeedsAddress(Info), "memory32" \in PoolsFor(Info), allocate32(Info.size),
         UNCHANGED <<ranges, mapped, bars, command, f>>
  PROVE  IInv'
<1> DEFINE found == Fitting("memory32", Info.size) # {}
           fits == BestFit("memory32", Info.size).base <= U32_MAX
<1>1. CASE Assign("memory32", Info.size)
  BY <1>1, AssignStep, Zenon
<1>2. CASE ~(found /\ fits) /\ Panic(IF found THEN "truncated" ELSE "no_space")
  <2>1. found => fits
    <3> HAVE found
    <3>1. Info.size \in BlockSizes
      BY InfoFields, Zenon
    <3>2. PICK b \in free["memory32"] : b = BestFit("memory32", Info.size)
      BY <3>1, BestFitFits, Zenon DEF IInv, Pools
    <3>3. b \in [base : Nat, size : BlockSizes] /\ Within("memory32", b.base, b.size)
      BY Zenon DEF IInv, FreeInv, Pools
    <3>4. b.base \in Nat /\ b.size \in Nat \ {0}
      BY <3>3, SizeType, Zenon
    <3>5. b.base <= U32_MAX
      BY <3>3, <3>4, Pool32, ZenonT(30) DEF IInv, Allocating
    <3> QED BY <3>2, <3>5, Zenon
  <2>2. Panic("no_space")
    BY <1>2, <2>1, Zenon
  <2> QED BY <2>2, PanicStep, Zenon
<1> QED BY <1>1, <1>2, Zenon DEF allocate32

LEMMA AllocateBarStep ==
  ASSUME IInv, allocate_bar
  PROVE  IInv'
<1>1. /\ step = "allocate_bars" /\ f <= FUNCTIONS /\ slot <= SLOTS
      /\ UNCHANGED <<ranges, mapped, bars, command, f>>
  BY ZenonT(30) DEF allocate_bar
<1>2. f \in Functions /\ slot \in Slots /\ slot \in Nat
  BY <1>1, Constants DEF IInv, TypeOK, Functions, Slots
<1>3. CASE ~NeedsAddress(Info) /\ slot' = slot + 1 /\ UNCHANGED <<step, free, address>>
  <2>1. TypeOK'
    <3>1. slot' \in 1..(SLOTS + 1)
      BY <1>2, <1>3, Constants DEF Slots
    <3> QED BY <1>1, <1>3, <3>1, Zenon DEF IInv, TypeOK
  <2>2. ASSUME NEW w \in Bars, w.fn \in command' \/ (w.fn = f' /\ w.slot < slot'),
               NeedsAddress(BarInfoOf(w))
        PROVE  w \in Assigned
    <3>1. w.slot \in Nat
      BY Constants DEF Bars, Slots
    <3>2. ~(w.fn = f /\ w.slot = slot)
      BY <1>3, <2>2, ZenonT(30) DEF BarInfoOf, Info
    <3>3. w.fn \in command \/ (w.fn = f /\ w.slot < slot)
      BY <1>1, <1>2, <1>3, <2>2, <3>1, <3>2, SMTT(30)
    <3> QED BY <2>2, <3>3, Zenon DEF IInv, BarsInv
  <2>3. step' \in Allocating \ {"truncated"}
    BY <1>1, <1>3, Zenon DEF Allocating
  <2> QED BY <1>1, <1>3, <2>1, <2>2, <2>3, KeepingStep, ZenonT(30)
<1>4. CASE NeedsAddress(Info) /\ Info.width = "Width32" /\ allocate32(Info.size)
  <2>1. "memory32" \in PoolsFor(Info)
    BY <1>4, Zenon DEF PoolsFor, Pools
  <2> QED BY <1>1, <1>2, <1>4, <2>1, Allocate32Step, ZenonT(30)
<1>5. CASE NeedsAddress(Info) /\ Info.width = "Width64"
           /\ allocate64(Info.size, Info.prefetchable)
  <2>1. /\ "memory32" \in PoolsFor(Info) /\ "memory64" \in PoolsFor(Info)
        /\ Info.prefetchable => "prefetchable_memory64" \in PoolsFor(Info)
    BY <1>5, Zenon DEF PoolsFor, Pools
  <2>2. CASE Info.prefetchable /\ Assign("prefetchable_memory64", Info.size)
    BY <1>1, <1>2, <1>5, <2>1, <2>2, AssignStep, ZenonT(30)
  <2>3. CASE Assign("memory64", Info.size)
    BY <1>1, <1>2, <1>5, <2>1, <2>3, AssignStep, ZenonT(30)
  <2>4. CASE allocate32(Info.size)
    BY <1>1, <1>2, <1>5, <2>1, <2>4, Allocate32Step
  <2> QED BY <1>5, <2>2, <2>3, <2>4, Zenon DEF allocate64
<1>6. CASE Panic("bars") \/ Panic("unimplemented")
  BY <1>1, <1>6, PanicStep, Zenon
<1> QED BY <1>3, <1>4, <1>5, <1>6, Zenon DEF allocate_bar

(* All BARs of function f have been looked at. *)
LEMMA SetCommandStep ==
  ASSUME IInv, set_command
  PROVE  IInv'
<1>1. /\ step = "allocate_bars" /\ f <= FUNCTIONS /\ slot = SLOTS + 1
      /\ command' = command \union {f} /\ f' = f + 1 /\ slot' = 1
      /\ UNCHANGED <<step, ranges, mapped, free, bars, address>>
  BY Zenon DEF set_command
<1>2. f \in Functions /\ f' \in 1..(FUNCTIONS + 1) /\ slot' \in 1..(SLOTS + 1)
  BY <1>1, Constants DEF IInv, TypeOK, Functions
<1>3. TypeOK'
  BY <1>1, <1>2, ZenonT(30) DEF IInv, TypeOK
<1>4. ASSUME NEW w \in Bars, w.fn \in command' \/ (w.fn = f' /\ w.slot < slot'),
             NeedsAddress(BarInfoOf(w))
      PROVE  w \in Assigned
  <2>1. w.slot \in 1..SLOTS
    BY Zenon DEF Bars, Slots
  <2>2. w.slot < slot /\ ~(w.slot < slot')
    BY <1>1, <2>1, Constants
  <2>3. w.fn \in command \/ (w.fn = f /\ w.slot < slot)
    BY <1>1, <1>4, <2>2, Zenon
  <2> QED BY <1>4, <2>3 DEF IInv, BarsInv
<1>5. step' \in Allocating \ {"truncated"}
  BY <1>1, Zenon DEF Allocating
<1> QED BY <1>1, <1>3, <1>4, <1>5, KeepingStep, Zenon

LEMMA DoneStep ==
  ASSUME IInv, init_pci_done
  PROVE  IInv'
<1>1. /\ step = "allocate_bars" /\ step' = "done"
      /\ UNCHANGED <<ranges, mapped, free, bars, address, command, f, slot>>
  BY Zenon DEF init_pci_done
<1>2. TypeOK'
  BY <1>1, Zenon DEF IInv, TypeOK
<1>3. \A w \in Bars : /\ w.fn \in command' \/ (w.fn = f' /\ w.slot < slot')
                      /\ NeedsAddress(BarInfoOf(w))
                      => w \in Assigned
  BY <1>1, Zenon DEF IInv, BarsInv
<1>4. step' \in Allocating \ {"truncated"}
  BY <1>1 DEF Allocating
<1> QED BY <1>1, <1>2, <1>3, <1>4, KeepingStep, Zenon

LEMMA NextKeepsIInv == IInv /\ [Next]_vars => IInv'
<1> SUFFICES ASSUME IInv, [Next]_vars PROVE IInv'
  OBVIOUS
<1>1. CASE UNCHANGED vars
  <2>1. UNCHANGED <<step, ranges, mapped, free, bars, address, command, f, slot>>
    BY <1>1, Zenon DEF vars
  <2>2. TypeOK' /\ RangesInv' /\ step' # "truncated"
    BY <2>1, Zenon DEF IInv, TypeOK, RangesInv
  <2>3. FreeInv'
    BY <2>1, ZenonT(30) DEF IInv, FreeInv, Within
  <2>4. BarsInv'
    BY <2>1, ZenonT(30) DEF IInv, BarsInv, Within, Assigned, Base, BarInfoOf
  <2> QED BY <2>2, <2>3, <2>4, Zenon DEF IInv
<1> QED BY <1>1, FdtStep, MapStep, NewStep, AllocateBarStep, SetCommandStep, DoneStep, Zenon DEF Next

-----------------------------------------------------------------------------
(* Theorems *)

LEMMA AlwaysIInv == Spec => []IInv
  BY InitIInv, NextKeepsIInv, PTL DEF Spec

(* A BAR that may be used has an address. *)
LEMMA UsableAssigned ==
  ASSUME IInv, NEW w \in Usable
  PROVE  /\ w \in Assigned /\ step \in Allocating
         /\ Base(w) \in Nat /\ BarInfoOf(w).size \in Nat \ {0}
         /\ Base(w) % BarInfoOf(w).size = 0
         /\ \E p \in PoolsFor(BarInfoOf(w)) : Within(p, Base(w), BarInfoOf(w).size)
<1>1. w.fn \in command /\ NeedsAddress(BarInfoOf(w)) /\ w \in [fn : command, slot : Slots]
  BY Zenon DEF Usable, BarInfoOf
<1>2. w \in Bars
  BY <1>1, Zenon DEF Bars, IInv, TypeOK
<1>3. w \in Assigned
  BY <1>1, <1>2, Zenon DEF IInv, BarsInv
<1>4. step \in Allocating
  BY <1>1, Zenon DEF IInv, BarsInv
<1>5. w.fn \in Functions /\ w.slot \in Slots
  BY <1>2 DEF Bars
<1>6. Base(w) \in Nat
  <2>1. address \in [Functions -> [Slots -> 0..NoAddress]]
    BY DEF IInv, TypeOK
  <2>2. Base(w) \in 0..NoAddress
    BY <1>5, <2>1, Zenon DEF Base
  <2> QED BY <2>2, Constants
<1>7. BarInfoOf(w).size \in Nat \ {0}
  <2>1. BarInfoOf(w) \in BarInfos
    BY <1>5, Zenon DEF BarInfoOf, IInv, BarsInv
  <2>2. BarInfoOf(w).size \in BlockSizes \union {0} /\ BarInfoOf(w).size > 0
    BY <1>1, <2>1, BarInfosAssumption, Zenon DEF NeedsAddress
  <2>3. ~(0 > 0)
    OBVIOUS
  <2> QED BY <2>2, <2>3, SizeType, Zenon
<1> QED BY <1>3, <1>4, <1>6, <1>7, Zenon DEF IInv, BarsInv

LEMMA IInvDisjoint == IInv => WindowsDisjoint
<1> SUFFICES ASSUME IInv, NEW v \in Usable, NEW w \in Usable
             PROVE  /\ Base(v) % BarInfoOf(v).size = 0
                    /\ v # w => Window(v) \intersect Window(w) = {}
  BY Zenon DEF WindowsDisjoint
<1>1. Base(v) % BarInfoOf(v).size = 0
  BY UsableAssigned, Zenon
<1>2. ASSUME v # w PROVE Window(v) \intersect Window(w) = {}
  <2>1. /\ Base(v) \in Nat /\ BarInfoOf(v).size \in Nat
        /\ Base(w) \in Nat /\ BarInfoOf(w).size \in Nat
    BY UsableAssigned, Zenon
  <2>2. Apart(Base(v), BarInfoOf(v).size, Base(w), BarInfoOf(w).size)
    BY <1>2, UsableAssigned, Zenon DEF IInv, BarsInv
  <2> QED BY <2>1, <2>2 DEF Apart, Window, Addresses
<1> QED BY <1>1, <1>2, Zenon

LEMMA IInvMapped == IInv => WindowsMapped
<1> SUFFICES ASSUME IInv, NEW w \in Usable PROVE Window(w) \subseteq mapped
  BY Zenon DEF WindowsMapped
<1>1. PICK p \in PoolsFor(BarInfoOf(w)) : Within(p, Base(w), BarInfoOf(w).size)
  BY UsableAssigned, Zenon
<1>2. PICK r \in ranges : /\ IsMemory(r) /\ r.cpu_physical <= Base(w)
                          /\ Base(w) + BarInfoOf(w).size <= End(r)
  BY <1>1, Zenon DEF Within
<1>3. r.cpu_physical \in Nat /\ r.size \in Nat
  BY Zenon DEF IInv, RangesInv, PciRange
<1>4. Base(w) \in Nat /\ BarInfoOf(w).size \in Nat
  BY UsableAssigned, Zenon
<1>5. Window(w) \subseteq Addresses(r.cpu_physical, r.size)
  BY <1>2, <1>3, <1>4 DEF Window, Addresses, End
<1>6. step \notin {"find_pci_roots", "map_ranges"}
  BY UsableAssigned, Zenon DEF Allocating
<1>7. mapped = UNION {Addresses(q.cpu_physical, q.size) : q \in {x \in ranges : IsMemory(x)}}
  BY <1>6, Zenon DEF IInv, RangesInv
<1> QED BY <1>2, <1>5, <1>7, Zenon

LEMMA IInvReach32 == IInv => Reach32
<1> SUFFICES ASSUME IInv, NEW w \in Usable, BarInfoOf(w).width = "Width32"
             PROVE  Base(w) + BarInfoOf(w).size - 1 <= U32_MAX
  BY Zenon DEF Reach32, IInv
<1>1. Within("memory32", Base(w), BarInfoOf(w).size)
  BY UsableAssigned, Zenon DEF PoolsFor
<1>2. Base(w) \in Nat /\ BarInfoOf(w).size \in Nat \ {0} /\ step \in Allocating
  BY UsableAssigned, Zenon
<1>3. Base(w) + BarInfoOf(w).size <= U32_MAX + 1
  BY <1>1, <1>2, Pool32, ZenonT(30) DEF IInv
<1> QED BY <1>2, <1>3, Constants

LEMMA IInvKeptApart == IInv => PrefetchableKeptApart
<1> SUFFICES ASSUME IInv, NEW w \in Usable, NEW r \in ranges, ~BarInfoOf(w).prefetchable,
                    r.type = "Memory64", r.prefetchable, End(r) > U32_MAX
             PROVE  Window(w) \intersect Addresses(r.cpu_physical, r.size) = {}
  BY Zenon DEF PrefetchableKeptApart
<1>1. PICK p \in PoolsFor(BarInfoOf(w)) : Within(p, Base(w), BarInfoOf(w).size)
  BY UsableAssigned, Zenon
<1>2. p # "prefetchable_memory64"
  BY Zenon DEF PoolsFor
<1>3. PICK q \in ranges : /\ IsMemory(q) /\ PoolOf(q) = p /\ q.cpu_physical <= Base(w)
                          /\ Base(w) + BarInfoOf(w).size <= End(q)
  BY <1>1, Zenon DEF Within
<1>4. /\ r.cpu_physical \in Nat /\ r.size \in Nat /\ q.cpu_physical \in Nat /\ q.size \in Nat
      /\ Base(w) \in Nat /\ BarInfoOf(w).size \in Nat
  BY UsableAssigned, Zenon DEF IInv, RangesInv, PciRange
<1>5. IsMemory(r) /\ r.cpu_physical = r.bus_address
  BY UsableAssigned, Zenon DEF IInv, RangesInv, IsMemory
<1>6. PoolOf(r) = "prefetchable_memory64"
  <2>1. ~(r.bus_address + r.size < U32_MAX)
    BY <1>4, <1>5, Constants DEF End
  <2> QED BY <2>1, Zenon DEF PoolOf, PoolOf64, Treated32
<1>7. Apart(r.cpu_physical, r.size, q.cpu_physical, q.size)
  BY <1>2, <1>3, <1>5, <1>6 DEF IInv, RangesInv
<1> QED BY <1>3, <1>4, <1>7 DEF Apart, Window, Addresses, End

(* Only addresses within the page table are mapped, whatever ranges the    *)
(* device tree gives, and every BAR holds an address in reach of the pools *)
(* or none.                                                                *)
THEOREM PciTypeCorrect == Spec => []TypeOK
<1>1. IInv => TypeOK
  BY DEF IInv
<1> QED BY <1>1, AlwaysIInv, PTL

(* The windows of the BARs that functions may use are naturally aligned    *)
(* and disjoint, for any ranges that are disjoint themselves and any BARs. *)
THEOREM BarWindowsDisjoint == Spec => []WindowsDisjoint
  BY IInvDisjoint, AlwaysIInv, PTL

(* The page table maps every window. *)
THEOREM BarWindowsMapped == Spec => []WindowsMapped
  BY IInvMapped, AlwaysIInv, PTL

(* The conversion to u32 in allocate32 never fails, and a 32-bit BAR gets  *)
(* a window that 32 bits reach.                                            *)
THEOREM Bars32Reached == Spec => []Reach32
  BY IInvReach32, AlwaysIInv, PTL

(* The fallbacks of allocate64 give no BAR that is not prefetchable a      *)
(* window in a prefetchable range beyond 32-bit address space.             *)
THEOREM PrefetchableBarsApart == Spec => []PrefetchableKeptApart
  BY IInvKeptApart, AlwaysIInv, PTL
=============================================================================
