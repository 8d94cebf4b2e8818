----------------------------- MODULE BootProofs -----------------------------
(***************************************************************************)
(* Proofs about Boot for page tables of any size and for any platforms and *)
(* device trees that the assumptions allow: what a core accesses is mapped *)
(* by the translation it uses.                                             *)
(***************************************************************************)
EXTENDS Boot, PageTableProofs, WellFoundedInduction, TLAPS

-----------------------------------------------------------------------------
(* Inductive invariant *)

(* main before it activates the page table. *)
MapSteps ==
  {"create", "map_fdt_regions", "map_fdt_node_regions", "find_pci_roots",
   "find_pcie_roots", "map_ranges"}

(* main has the initial map until it has finished the page table; other    *)
(* cores are started by the shell.                                         *)
MmuInv ==
  /\ mmu["primary"] = IF step \in MapSteps THEN "initial" ELSE "idmap"
  /\ step # "shell" => mmu["secondary"] = "off"

(* The loops over the memory node and over the tree are past a region. *)
MemoryPassed(j) ==
  /\ step # "create"
  /\ step = "map_fdt_regions" => j < i

RegionPassed(m, j) ==
  /\ step \notin {"create", "map_fdt_regions"}
  /\ step = "map_fdt_node_regions" => m < n \/ (m = n /\ j < i)

(* The pages of the image stay mapped as memory. *)
ImageInv ==
  \A j \in DOMAIN board.memory : MemoryPassed(j) =>
    \A p \in Touched(board.image) \intersect fdt_to_pagetable_region(board.memory[j]) :
      Lookup(p) = "memory"

DeviceMapped(r) ==
  End(r) <= SIZE /\ \A p \in fdt_to_pagetable_region(r) : Lookup(p) = "device"

(* The regions of known devices stay mapped as devices. *)
RegionsInv ==
  \A m \in DOMAIN board.nodes : \A j \in DOMAIN NodeRegions(board.nodes[m]) :
    RegionPassed(m, j) => DeviceMapped(NodeRegions(board.nodes[m])[j])

RootsInv ==
  \A k \in DOMAIN roots :
    /\ roots[k] \in Nodes("pci-host-cam-generic") \union Nodes("pci-host-ecam-generic")
    /\ board.nodes[roots[k]].reg # <<>>

GicInv ==
  step \in {"find_virtio_mmio_devices", "find_virtio_pci_devices", "shell"} => make_gic_ok

IInv ==
  TypeOK /\ MmuInv /\ ImageInv /\ RegionsInv /\ RootsInv /\ GicInv

-----------------------------------------------------------------------------
(* Pages *)

LEMMA DivBounds ==
  ASSUME NEW x \in Nat, NEW m \in Nat, NEW d \in Nat \ {0}
  PROVE  /\ x \div d \in Nat
         /\ m * d <= x => m <= x \div d
         /\ x < m * d => x \div d < m
  OBVIOUS

LEMMA DivMonotone ==
  ASSUME NEW x \in Int, NEW y \in Int, NEW d \in Nat \ {0}, x <= y
  PROVE  x \div d <= y \div d
  OBVIOUS

LEMMA ModIndex ==
  ASSUME NEW x \in Nat
  PROVE  x % ENTRIES \in Index
  BY PageTableAssumption DEF Index

LEMMA Sizes ==
  /\ PAGE_SIZE \in Nat \ {0}
  /\ ENTRIES \in Nat \ {0}
  /\ ENTRIES * ENTRIES \in Nat \ {0}
  /\ PAGES \in Nat
  /\ PAGES = ENTRIES * (ENTRIES * ENTRIES)
  /\ SIZE \in Nat
  /\ SIZE = PAGES * PAGE_SIZE
<1>1. PAGE_SIZE \in Nat \ {0} /\ ENTRIES \in Nat \ {0}
  BY BootAssumption, PageTableAssumption
<1>2. ENTRIES * ENTRIES \in Nat \ {0}
  BY <1>1
<1>3. PAGES \in Nat /\ PAGES = ENTRIES * (ENTRIES * ENTRIES)
  BY <1>1, <1>2 DEF PAGES
<1> QED BY <1>1, <1>2, <1>3 DEF SIZE

(* The page at an address within the table is one of its pages. *)
LEMMA PageAtInPages ==
  ASSUME NEW q \in Nat, q < PAGES
  PROVE  PageAt(q) \in Pages
<1> DEFINE e == ENTRIES * ENTRIES
<1>1. q \div e \in Nat /\ q \div e < ENTRIES
  <2> HIDE DEF e
  <2>1. e \in Nat \ {0} /\ q < ENTRIES * e /\ ENTRIES \in Nat
    BY Sizes, Zenon DEF e
  <2> QED BY <2>1, DivBounds, Zenon
<1>2. q \div ENTRIES \in Nat
  BY Sizes, DivBounds, Zenon
<1>3. q \div e \in Index
  BY <1>1, Sizes DEF Index
<1>4. (q \div ENTRIES) % ENTRIES \in Index /\ q % ENTRIES \in Index
  BY <1>2, ModIndex, Zenon
<1> QED BY <1>3, <1>4, Zenon DEF PageAt, Pages

(* A region that ends within the table has pages of the table. *)
LEMMA RegionInPages ==
  ASSUME NEW r \in Region, End(r) <= SIZE
  PROVE  fdt_to_pagetable_region(r) \subseteq Pages
<1> DEFINE low == r.address \div PAGE_SIZE
           high == (End(r) - 1) \div PAGE_SIZE
<1> SUFFICES ASSUME NEW q \in low..high PROVE PageAt(q) \in Pages
  BY DEF fdt_to_pagetable_region
<1>1. r.address \in Nat /\ End(r) \in Nat
  BY DEF Region, End
<1>2. low \in Nat
  BY <1>1, Sizes, DivBounds, Zenon
<1>3. high < PAGES
  <2>1. CASE End(r) = 0
    <3>1. End(r) - 1 = -1
      BY <2>1
    <3>2. (-1) \div PAGE_SIZE = -1
      BY Sizes
    <3> QED BY <3>1, <3>2, Sizes
  <2>2. CASE End(r) # 0
    <3>1. End(r) - 1 \in Nat /\ End(r) - 1 < PAGES * PAGE_SIZE
      BY <1>1, <2>2, Sizes
    <3> QED BY <3>1, Sizes, DivBounds, Zenon
  <2> QED BY <2>1, <2>2, Zenon
<1>4. high \in Int
  BY <1>1, Sizes
<1> QED BY <1>2, <1>3, <1>4, Sizes, PageAtInPages

(* What is within a region is on its pages. *)
LEMMA TouchedWithin ==
  ASSUME NEW r \in Region, NEW s \in Region, Within(r, s)
  PROVE  Touched(r) \subseteq fdt_to_pagetable_region(s)
<1> SUFFICES ASSUME NEW x \in r.address..(End(r) - 1)
             PROVE  PageAt(x \div PAGE_SIZE) \in fdt_to_pagetable_region(s)
  BY Zenon DEF Touched
<1>1. /\ x \in Int /\ s.address \in Int /\ End(s) - 1 \in Int
      /\ s.address <= x /\ x <= End(s) - 1
  BY DEF Within, Region, End
<1>2. /\ s.address \div PAGE_SIZE <= x \div PAGE_SIZE
      /\ x \div PAGE_SIZE <= (End(s) - 1) \div PAGE_SIZE
  BY <1>1, Sizes, DivMonotone, Zenon
<1>3. x \div PAGE_SIZE \in (s.address \div PAGE_SIZE)..((End(s) - 1) \div PAGE_SIZE)
  BY <1>1, <1>2, Sizes
<1> QED BY <1>3 DEF fdt_to_pagetable_region

(* The entry of the first level for what is within a block. *)
LEMMA TouchedInBlock ==
  ASSUME NEW r \in Region, NEW b \in Nat, b < ENTRIES, InBlock(r, b), NEW p \in Touched(r)
  PROVE  p \in Pages /\ p[1] = b
<1> DEFINE e == ENTRIES * ENTRIES
<1>1. PICK x \in r.address..(End(r) - 1) : p = PageAt(x \div PAGE_SIZE)
  BY DEF Touched
<1> DEFINE q == x \div PAGE_SIZE
<1>2. e \in Nat \ {0} /\ PAGE_SIZE \in Nat \ {0} /\ b * e \in Nat /\ (b + 1) * e \in Nat
  BY Sizes
<1>3. x \in Nat /\ b * (PAGE_SIZE * e) <= x /\ x < (b + 1) * (PAGE_SIZE * e)
  BY <1>2 DEF InBlock, Region, End
<1> HIDE DEF e
<1>4. (b * e) * PAGE_SIZE <= x /\ x < ((b + 1) * e) * PAGE_SIZE
  BY <1>2, <1>3
<1>5. q \in Nat /\ b * e <= q /\ q < (b + 1) * e
  BY <1>2, <1>3, <1>4, DivBounds, Zenon
<1> HIDE DEF q
<1>6. q \div e \in Nat /\ b <= q \div e /\ q \div e < b + 1
  BY <1>2, <1>5, DivBounds
<1>7. q \div e = b
  BY <1>6
<1>8. q < ENTRIES * e
  <2>1. (b + 1) * e <= ENTRIES * e
    BY <1>2, Sizes
  <2> QED BY <1>2, <1>5, <2>1, Sizes
<1>9. PageAt(q) \in Pages
  BY <1>5, <1>8, PageAtInPages, Sizes, Zenon DEF e
<1> QED BY <1>1, <1>7, <1>9, Zenon DEF PageAt, e, q

-----------------------------------------------------------------------------
(* Mapping a region *)

LEMMA BoardType ==
  ASSUME NEW b \in Boards
  PROVE  /\ b.uart \in Region /\ b.rtc \in Region /\ b.image \in Region
         /\ b.memory \in Seq(Region) /\ b.nodes \in Seq(DeviceNode)
         /\ b.platform \in {"qemu", "crosvm"}
  BY BoardsAssumption, Zenon

LEMMA NodeType ==
  ASSUME NEW b \in Boards, NEW m \in DOMAIN b.nodes
  PROVE  /\ b.nodes[m] \in DeviceNode
         /\ b.nodes[m].reg \in Seq(Region) /\ b.nodes[m].ranges \in Seq(Region)
         /\ NodeRegions(b.nodes[m]) \in Seq(Region)
<1>1. b.nodes[m] \in DeviceNode
  BY BoardType
<1>2. b.nodes[m].reg \in Seq(Region) /\ b.nodes[m].ranges \in Seq(Region)
  BY <1>1, Zenon DEF DeviceNode
<1> QED BY <1>1, <1>2 DEF NodeRegions

LEMMA SamePages ==
  ASSUME UNCHANGED tableVars, NEW p
  PROVE  Lookup(p)' = Lookup(p)
  BY Zenon DEF tableVars, Lookup, Entry2

(* A region is mapped whole, and no page outside it changes, or main       *)
(* panics.                                                                 *)
LEMMA MapRegionMaps ==
  ASSUME TypeOK, failure = "none", NEW k \in Kinds, NEW r \in Region, MapRegion(k, r)
  PROVE  /\ PageTableTypeOK'
         /\ \/ failure' # "none" /\ i' = i /\ UNCHANGED tableVars
            \/ /\ failure' = "none" /\ i' = i + 1 /\ End(r) <= SIZE
               /\ \A p \in Pages :
                    Lookup(p)' = IF p \in fdt_to_pagetable_region(r) THEN k ELSE Lookup(p)
<1> DEFINE R == fdt_to_pagetable_region(r)
<1>0. End(r) \in Nat /\ SIZE \in Nat
  BY Sizes DEF Region, End
<1>1. CASE End(r) > SIZE
  <2>1. failure' = "address" /\ UNCHANGED tableVars /\ i' = i
    BY <1>1, Zenon DEF MapRegion
  <2>2. PageTableTypeOK'
    BY <2>1, Zenon DEF TypeOK, PageTableTypeOK, tableVars, Failures
  <2> QED BY <2>1, <2>2, Zenon
<1>2. CASE ~(End(r) > SIZE)
  <2>1. map_range(R, k)
    BY <1>2, Zenon DEF MapRegion, map_memory, map_device, Kinds
  <2>2. PageTableTypeOK'
    BY <2>1, MapRangeType, Zenon DEF TypeOK
  <2>3. i' = IF failure' = "none" THEN i + 1 ELSE i
    BY DEF MapRegion
  <2>4. CASE failure' = "no_page" /\ UNCHANGED tableVars
    BY <2>2, <2>3, <2>4, Zenon
  <2>5. CASE /\ level1' = Level1(R, k) /\ level2' = Level2(R, k) /\ level3' = Level3(R, k)
             /\ UNCHANGED failure
    <3>1. \A p \in Pages : Lookup(p)' = IF p \in R THEN k ELSE Lookup(p)
      BY <2>5, MapRangeLookup
    <3> QED BY <1>0, <1>2, <2>2, <2>3, <2>5, <3>1
  <2> QED BY <2>1, <2>4, <2>5, Zenon DEF map_range
<1> QED BY <1>1, <1>2, Zenon

(* The pages of the image are pages of the table. *)
LEMMA ImageInPages ==
  ASSUME NEW b \in Boards, NEW p \in Touched(b.image)
  PROVE  p \in Pages /\ p[1] = IF b.platform = "qemu" THEN 1 ELSE 2
<1>1. 1 \in Nat /\ 2 \in Nat /\ 1 < ENTRIES /\ 2 < ENTRIES
  BY BootAssumption, PageTableAssumption
<1>2. b.image \in Region /\ InBlock(b.image, IF b.platform = "qemu" THEN 1 ELSE 2)
  BY BoardType, AddressesAssumption, Zenon
<1>3. CASE b.platform = "qemu"
  BY <1>1, <1>2, <1>3, TouchedInBlock, Zenon
<1>4. CASE b.platform # "qemu"
  BY <1>1, <1>2, <1>4, TouchedInBlock, Zenon
<1> QED BY <1>3, <1>4, Zenon

-----------------------------------------------------------------------------
(* Steps *)

LEMMA InitIInv == Init => IInv
<1> SUFFICES ASSUME Init PROVE IInv
  OBVIOUS
<1>1. TypeOK
  BY DEF Init, TypeOK, PageTableInit, PageTableTypeOK, Descriptors, Failures, Steps, Cores
<1>2. MmuInv
  BY Zenon DEF Init, MmuInv, MapSteps, Cores
<1>3. ImageInv /\ RegionsInv /\ GicInv
  BY Zenon DEF Init, ImageInv, MemoryPassed, RegionsInv, RegionPassed, GicInv
<1>4. RootsInv
  BY DEF Init, RootsInv
<1> QED BY <1>1, <1>2, <1>3, <1>4, Zenon DEF IInv

(* A step that leaves the page table alone and passes no region. *)
LEMMA TablesKept ==
  ASSUME IInv, UNCHANGED <<tableVars, board>>,
         \A j \in DOMAIN board.memory : MemoryPassed(j)' => MemoryPassed(j),
         \A m \in DOMAIN board.nodes : \A j \in DOMAIN NodeRegions(board.nodes[m]) :
           RegionPassed(m, j)' => RegionPassed(m, j)
  PROVE  ImageInv' /\ RegionsInv'
<1>1. \A p : Lookup(p)' = Lookup(p)
  BY SamePages, Zenon
<1>2. ImageInv'
  BY <1>1, Zenon DEF IInv, ImageInv
<1>3. ASSUME NEW r PROVE DeviceMapped(r)' <=> DeviceMapped(r)
  BY <1>1, Zenon DEF DeviceMapped
<1>4. RegionsInv'
  BY <1>3, Zenon DEF IInv, RegionsInv
<1> QED BY <1>2, <1>4, Zenon

(* A step that maps a region, apart from the image, as a device. *)
LEMMA DeviceAdded ==
  ASSUME IInv, UNCHANGED board, NEW r \in Region, End(r) <= SIZE,
         Touched(board.image) \intersect fdt_to_pagetable_region(r) = {},
         \A p \in Pages :
           Lookup(p)' = IF p \in fdt_to_pagetable_region(r) THEN "device" ELSE Lookup(p),
         \A j \in DOMAIN board.memory : MemoryPassed(j)' => MemoryPassed(j),
         \A m \in DOMAIN board.nodes : \A j \in DOMAIN NodeRegions(board.nodes[m]) :
           RegionPassed(m, j)' => RegionPassed(m, j) \/ NodeRegions(board.nodes[m])[j] = r
  PROVE  ImageInv' /\ RegionsInv'
<1>0. board \in Boards
  BY Zenon DEF IInv, TypeOK
<1>1. ImageInv'
  <2> SUFFICES ASSUME NEW j \in DOMAIN board.memory, MemoryPassed(j)',
                      NEW p \in Touched(board.image),
                      p \in fdt_to_pagetable_region(board.memory[j])
               PROVE  Lookup(p)' = "memory"
    BY Zenon DEF ImageInv
  <2>1. p \in Pages /\ p \notin fdt_to_pagetable_region(r)
    BY <1>0, ImageInPages, Zenon
  <2>2. Lookup(p) = "memory"
    BY Zenon DEF IInv, ImageInv
  <2> QED BY <2>1, <2>2, Zenon
<1>2. DeviceMapped(r)'
  <2>1. \A p \in fdt_to_pagetable_region(r) : p \in Pages
    BY RegionInPages, Zenon
  <2> QED BY <2>1, Zenon DEF DeviceMapped
<1>3. ASSUME NEW q \in Region, DeviceMapped(q) PROVE DeviceMapped(q)'
  <2>1. \A p \in fdt_to_pagetable_region(q) : p \in Pages /\ Lookup(p) = "device"
    BY <1>3, RegionInPages, Zenon DEF DeviceMapped
  <2>2. \A p \in fdt_to_pagetable_region(q) : Lookup(p)' = "device"
    BY <2>1, Zenon
  <2> QED BY <1>3, <2>2, Zenon DEF DeviceMapped
<1>4. RegionsInv'
  <2> SUFFICES ASSUME NEW m \in DOMAIN board.nodes, NEW j \in DOMAIN NodeRegions(board.nodes[m]),
                      RegionPassed(m, j)'
               PROVE  DeviceMapped(NodeRegions(board.nodes[m])[j])'
    BY Zenon DEF RegionsInv
  <2>1. NodeRegions(board.nodes[m])[j] \in Region
    BY <1>0, NodeType
  <2>2. CASE RegionPassed(m, j)
    <3>1. DeviceMapped(NodeRegions(board.nodes[m])[j])
      BY <2>2, Zenon DEF IInv, RegionsInv
    <3> QED BY <1>3, <2>1, <3>1, Zenon
  <2>3. CASE NodeRegions(board.nodes[m])[j] = r
    BY <1>2, <2>3, Zenon
  <2> QED BY <2>2, <2>3, Zenon
<1> QED BY <1>1, <1>4, Zenon

(* What depends on the board and on the roots only. *)
LEMMA RootsKept ==
  ASSUME IInv, UNCHANGED <<board, roots>>
  PROVE  RootsInv'
  BY DEF IInv, RootsInv, Nodes

LEMMA GicKept ==
  ASSUME IInv, UNCHANGED board,
         \/ step' \notin {"find_virtio_mmio_devices", "find_virtio_pci_devices", "shell"}
         \/ step \in {"find_virtio_mmio_devices", "find_virtio_pci_devices", "shell"}
         \/ make_gic_ok
  PROVE  GicInv'
<1>1. make_gic_ok' <=> make_gic_ok
  BY Zenon DEF make_gic_ok, GicNode, Nodes
<1> QED BY <1>1, Zenon DEF IInv, GicInv

LEMMA MmuKept ==
  ASSUME IInv, UNCHANGED mmu, step' \in MapSteps <=> step \in MapSteps,
         step = "shell" => step' = "shell"
  PROVE  MmuInv'
  BY Zenon DEF IInv, MmuInv

(* main reads the device tree into the page table. *)
LEMMA CreateStep == ASSUME IInv, create PROVE IInv'
<1> USE DEF create, At, Goto
<1>1. TypeOK'
  BY DEF IInv, TypeOK, PageTableTypeOK, tableVars, Steps
<1>2. ImageInv' /\ RegionsInv'
  <2>1. \A j \in DOMAIN board.memory : ~MemoryPassed(j)'
    BY BoardType DEF MemoryPassed, IInv, TypeOK
  <2>2. \A m, j : ~RegionPassed(m, j)'
    BY Zenon DEF RegionPassed
  <2> QED BY <2>1, <2>2, TablesKept, Zenon
<1>3. RootsInv' /\ GicInv' /\ MmuInv'
  BY RootsKept, GicKept, MmuKept, Zenon DEF MapSteps
<1> QED BY <1>1, <1>2, <1>3, Zenon DEF IInv

LEMMA MapFdtRegionsStep == ASSUME IInv, map_fdt_regions PROVE IInv'
<1>0. /\ step = "map_fdt_regions" /\ failure = "none" /\ UNCHANGED <<board, roots, mmu, devices>>
      /\ TypeOK /\ board \in Boards /\ i \in Nat \ {0} /\ n \in Nat \ {0}
  BY Zenon DEF map_fdt_regions, At, IInv, TypeOK
<1>1. CASE i <= Len(Memory) /\ MapRegion("memory", Memory[i])
  <2> PICK r : r = Memory[i]
    BY Zenon
  <2>1. r \in Region /\ i \in DOMAIN board.memory
    BY <1>0, <1>1, BoardType DEF Memory
  <2>2. MapRegion("memory", r) /\ UNCHANGED <<step, n>>
    BY <1>1, Zenon DEF MapRegion
  <2>3. /\ PageTableTypeOK'
        /\ \/ failure' # "none" /\ i' = i /\ UNCHANGED tableVars
           \/ /\ failure' = "none" /\ i' = i + 1 /\ End(r) <= SIZE
              /\ \A p \in Pages :
                   Lookup(p)' = IF p \in fdt_to_pagetable_region(r) THEN "memory" ELSE Lookup(p)
    BY <1>0, <2>1, <2>2, MapRegionMaps, Zenon DEF Kinds
  <2>4. TypeOK'
    <3>1. i' \in Nat \ {0}
      BY <1>0, <2>3
    <3> QED BY <1>0, <2>2, <2>3, <3>1, Zenon DEF TypeOK
  <2>5. ImageInv' /\ RegionsInv'
    <3>1. CASE UNCHANGED <<tableVars, i>>
      BY <1>0, <2>2, <3>1, TablesKept, Zenon DEF MemoryPassed, RegionPassed
    <3>2. CASE /\ i' = i + 1
               /\ \A p \in Pages :
                   Lookup(p)' = IF p \in fdt_to_pagetable_region(r) THEN "memory" ELSE Lookup(p)
      <4>1. RegionsInv'
        BY <1>0, <2>2, Zenon DEF RegionsInv, RegionPassed
      <4>2. ASSUME NEW j \in DOMAIN board.memory, MemoryPassed(j)',
                   NEW p \in Touched(board.image),
                   p \in fdt_to_pagetable_region(board.memory[j])
            PROVE  Lookup(p)' = "memory"
        <5>1. p \in Pages
          BY <1>0, ImageInPages, Zenon
        <5>2. CASE j = i
          BY <3>2, <4>2, <5>1, <5>2, Zenon DEF Memory
        <5>3. CASE j # i
          <6>1. j < i
            <7>1. j \in Nat /\ j < i + 1
              BY <1>0, <2>2, <3>2, <4>2, BoardType DEF MemoryPassed
            <7> QED BY <1>0, <5>3, <7>1
          <6>2. Lookup(p) = "memory"
            BY <1>0, <4>2, <6>1, Zenon DEF IInv, ImageInv, MemoryPassed
          <6> QED BY <3>2, <5>1, <6>2, Zenon
        <5> QED BY <5>2, <5>3, Zenon
      <4>3. ImageInv'
        BY <1>0, <4>2, Zenon DEF ImageInv
      <4> QED BY <4>1, <4>3, Zenon
    <3> QED BY <2>3, <3>1, <3>2, Zenon
  <2>6. RootsInv' /\ GicInv' /\ MmuInv'
    BY <1>0, <2>2, RootsKept, GicKept, MmuKept, Zenon
  <2> QED BY <2>4, <2>5, <2>6, Zenon DEF IInv
<1>2. CASE i > Len(Memory) /\ Goto("map_fdt_node_regions") /\ UNCHANGED <<tableVars, failure>>
  <2>1. step' = "map_fdt_node_regions" /\ n' = 1 /\ i' = 1
    BY <1>2, Zenon DEF Goto
  <2>2. TypeOK'
    BY <1>0, <1>2, <2>1 DEF TypeOK, PageTableTypeOK, tableVars, Steps
  <2>3. \A j \in DOMAIN board.memory : MemoryPassed(j)
    BY <1>0, <1>2, BoardType DEF MemoryPassed, Memory
  <2>4. \A m \in DOMAIN board.nodes : \A j \in DOMAIN NodeRegions(board.nodes[m]) :
          ~RegionPassed(m, j)'
    BY <1>0, <2>1, BoardType, NodeType DEF RegionPassed
  <2>5. ImageInv' /\ RegionsInv'
    BY <1>0, <1>2, <2>3, <2>4, TablesKept, Zenon
  <2>6. RootsInv' /\ GicInv' /\ MmuInv'
    BY <1>0, <2>1, RootsKept, GicKept, MmuKept, Zenon DEF MapSteps
  <2> QED BY <2>2, <2>5, <2>6, Zenon DEF IInv
<1> QED BY <1>1, <1>2, Zenon DEF map_fdt_regions

LEMMA MapFdtNodeRegionsStep == ASSUME IInv, map_fdt_node_regions PROVE IInv'
<1>0. /\ step = "map_fdt_node_regions" /\ failure = "none"
      /\ UNCHANGED <<board, roots, mmu, devices>>
      /\ TypeOK /\ board \in Boards /\ i \in Nat \ {0} /\ n \in Nat \ {0}
  BY DEF map_fdt_node_regions, At, IInv, TypeOK
<1>a. \A j : MemoryPassed(j)
  BY <1>0, Zenon DEF MemoryPassed
<1>1. CASE /\ n <= Len(board.nodes)
           /\ i <= Len(NodeRegions(board.nodes[n]))
           /\ MapRegion("device", NodeRegions(board.nodes[n])[i])
  <2> PICK r : r = NodeRegions(board.nodes[n])[i]
    BY Zenon
  <2>1. n \in DOMAIN board.nodes
    BY <1>0, <1>1, BoardType, SMTT(30)
  <2>2. r \in Region /\ i \in DOMAIN NodeRegions(board.nodes[n])
    BY <1>0, <1>1, <2>1, NodeType
  <2>3. MapRegion("device", r) /\ UNCHANGED <<step, n>>
    BY <1>1, Zenon DEF MapRegion
  <2>4. /\ PageTableTypeOK'
        /\ \/ failure' # "none" /\ i' = i /\ UNCHANGED tableVars
           \/ /\ failure' = "none" /\ i' = i + 1 /\ End(r) <= SIZE
              /\ \A p \in Pages :
                   Lookup(p)' = IF p \in fdt_to_pagetable_region(r) THEN "device" ELSE Lookup(p)
    BY <1>0, <2>2, <2>3, MapRegionMaps, Zenon DEF Kinds
  <2>5. TypeOK'
    <3>1. i' \in Nat \ {0}
      BY <1>0, <2>4
    <3> QED BY <1>0, <2>3, <2>4, <3>1, ZenonT(30) DEF TypeOK
  <2>6. ImageInv' /\ RegionsInv'
    <3>1. CASE UNCHANGED <<tableVars, i>>
      BY <1>0, <2>3, <3>1, TablesKept, ZenonT(30) DEF MemoryPassed, RegionPassed
    <3>2. CASE /\ i' = i + 1 /\ End(r) <= SIZE
               /\ \A p \in Pages :
                   Lookup(p)' = IF p \in fdt_to_pagetable_region(r) THEN "device" ELSE Lookup(p)
      <4>1. Touched(board.image) \intersect fdt_to_pagetable_region(r) = {}
        <5>1. NodeRegions(board.nodes[n]) = board.nodes[n].reg
          BY <1>1, <1>0 DEF NodeRegions
        <5> QED BY <1>0, <2>1, <2>2, <5>1, DeviceTreeAssumption, ZenonT(30)
      <4>2. \A m \in DOMAIN board.nodes : \A j \in DOMAIN NodeRegions(board.nodes[m]) :
              RegionPassed(m, j)' => RegionPassed(m, j) \/ NodeRegions(board.nodes[m])[j] = r
        <5> SUFFICES ASSUME NEW m \in DOMAIN board.nodes,
                            NEW j \in DOMAIN NodeRegions(board.nodes[m]), RegionPassed(m, j)'
                     PROVE  RegionPassed(m, j) \/ NodeRegions(board.nodes[m])[j] = r
          BY Zenon
        <5>1. j \in Nat
          BY <1>0, NodeType
        <5>2. m < n \/ (m = n /\ j < i + 1)
          BY <1>0, <2>3, <3>2, Zenon DEF RegionPassed
        <5>3. m < n \/ (m = n /\ j < i) \/ (m = n /\ j = i)
          BY <1>0, <5>1, <5>2, SMTT(30)
        <5> QED BY <1>0, <5>3, Zenon DEF RegionPassed
      <4> QED BY <1>0, <1>a, <2>2, <3>2, <4>1, <4>2, DeviceAdded, SMTT(30)
    <3> QED BY <2>4, <3>1, <3>2, Zenon
  <2>7. RootsInv' /\ GicInv' /\ MmuInv'
    BY <1>0, <2>3, RootsKept, GicKept, MmuKept, ZenonT(30)
  <2> QED BY <2>5, <2>6, <2>7, Zenon DEF IInv
<1>2. CASE /\ n <= Len(board.nodes)
           /\ i > Len(NodeRegions(board.nodes[n]))
           /\ NextTurn
           /\ UNCHANGED <<tableVars, failure>>
  <2>1. step' = step /\ n' = n + 1 /\ i' = 1
    BY <1>2, Zenon DEF NextTurn
  <2>2. TypeOK'
    BY <1>0, <1>2, <2>1 DEF TypeOK, PageTableTypeOK, tableVars
  <2>3. \A m \in DOMAIN board.nodes : \A j \in DOMAIN NodeRegions(board.nodes[m]) :
          RegionPassed(m, j)' => RegionPassed(m, j)
    <3> SUFFICES ASSUME NEW m \in DOMAIN board.nodes,
                        NEW j \in DOMAIN NodeRegions(board.nodes[m]), RegionPassed(m, j)'
                 PROVE  RegionPassed(m, j)
      BY Zenon
    <3>1. m \in Nat /\ j \in Nat \ {0} /\ j <= Len(NodeRegions(board.nodes[m]))
          /\ Len(NodeRegions(board.nodes[m])) \in Nat
      BY <1>0, BoardType, NodeType
    <3>2. m < n + 1
      BY <1>0, <2>1, <3>1 DEF RegionPassed
    <3>3. m < n \/ (m = n /\ j < i)
      BY <1>0, <1>2, <3>1, <3>2
    <3> QED BY <1>0, <3>3, Zenon DEF RegionPassed
  <2>4. ImageInv' /\ RegionsInv'
    BY <1>0, <1>2, <1>a, <2>3, TablesKept, ZenonT(30)
  <2>5. RootsInv' /\ GicInv' /\ MmuInv'
    BY <1>0, <2>1, RootsKept, GicKept, MmuKept, SMTT(30)
  <2> QED BY <2>2, <2>4, <2>5 DEF IInv
<1>3. CASE /\ n > Len(board.nodes)
           /\ Goto("find_pci_roots")
           /\ UNCHANGED <<tableVars, failure>>
  <2>1. step' = "find_pci_roots" /\ n' = 1 /\ i' = 1
    BY <1>3, Zenon DEF Goto
  <2>2. TypeOK'
    BY <1>0, <1>3, <2>1 DEF TypeOK, PageTableTypeOK, tableVars, Steps
  <2>3. \A m \in DOMAIN board.nodes : \A j : RegionPassed(m, j)
    BY <1>0, <1>3, BoardType DEF RegionPassed
  <2>4. ImageInv' /\ RegionsInv'
    BY <1>0, <1>3, <1>a, <2>3, TablesKept, Zenon
  <2>5. RootsInv' /\ GicInv' /\ MmuInv'
    BY <1>0, <2>1, RootsKept, GicKept, MmuKept, Zenon DEF MapSteps
  <2> QED BY <2>2, <2>4, <2>5 DEF IInv
<1>4. CASE n <= Len(board.nodes) /\ Panic("reg") /\ UNCHANGED tableVars
  <2>1. step' = step /\ UNCHANGED <<n, i>> /\ failure' = "reg"
    BY <1>4, Zenon DEF Panic
  <2>2. TypeOK'
    BY <1>0, <1>4, <2>1, Zenon DEF TypeOK, PageTableTypeOK, tableVars, Failures
  <2>3. \A m \in DOMAIN board.nodes : \A j \in DOMAIN NodeRegions(board.nodes[m]) :
          RegionPassed(m, j)' => RegionPassed(m, j)
    BY <1>0, <2>1, Zenon DEF RegionPassed
  <2>4. ImageInv' /\ RegionsInv'
    BY <1>0, <1>4, <1>a, <2>3, TablesKept, Zenon
  <2>5. RootsInv' /\ GicInv' /\ MmuInv'
    BY <1>0, <2>1, RootsKept, GicKept, MmuKept, Zenon DEF MapSteps
  <2> QED BY <2>2, <2>4, <2>5 DEF IInv
<1>5. \/ /\ n <= Len(board.nodes)
         /\ i > Len(NodeRegions(board.nodes[n]))
         /\ NextTurn
         /\ UNCHANGED <<tableVars, failure>>
      \/ n <= Len(board.nodes) /\ Panic("reg") /\ UNCHANGED tableVars
      \/ /\ n <= Len(board.nodes)
         /\ i <= Len(NodeRegions(board.nodes[n]))
         /\ MapRegion("device", NodeRegions(board.nodes[n])[i])
      \/ /\ n > Len(board.nodes)
         /\ Goto("find_pci_roots")
         /\ UNCHANGED <<tableVars, failure>>
  BY Zenon DEF map_fdt_node_regions
<1> QED BY <1>1, <1>2, <1>3, <1>4, <1>5, Zenon

(* After map_fdt_regions all its regions are passed. *)
Reading == {"create", "map_fdt_regions", "map_fdt_node_regions"}

LEMMA AllPassed ==
  ASSUME step \notin Reading
  PROVE  \A m, j : MemoryPassed(j) /\ RegionPassed(m, j)
  BY Zenon DEF Reading, MemoryPassed, RegionPassed

(* A later step that leaves the page table alone. *)
LEMMA LaterStep ==
  ASSUME IInv, step \notin Reading, UNCHANGED <<tableVars, board>>
  PROVE  ImageInv' /\ RegionsInv'
  BY AllPassed, TablesKept, Zenon

LEMMA FindRootsStep ==
  ASSUME IInv, step \in MapSteps \ Reading, failure = "none",
         NEW compatible \in {"pci-host-cam-generic", "pci-host-ecam-generic"},
         NEW cam_size, NEW next \in {"find_pcie_roots", "map_ranges"},
         FindRoots(compatible, cam_size, next)
  PROVE  IInv'
<1>0. /\ TypeOK /\ board \in Boards /\ n \in Nat \ {0}
      /\ UNCHANGED <<tableVars, board, mmu, devices>>
  BY Zenon DEF IInv, TypeOK, FindRoots
<1>1. n' \in Nat \ {0} /\ i' \in Nat \ {0} /\ step' \in {step, next}
  BY DEF FindRoots, for_fdt_node, Panic, NextTurn, Goto, IInv, TypeOK
<1>2. failure' \in {failure, "pci"}
  BY Zenon DEF FindRoots, for_fdt_node, Panic
<1>3. \/ UNCHANGED roots
      \/ /\ roots' = Append(roots, n) /\ n \in Nodes(compatible)
         /\ board.nodes[n].reg # <<>>
  BY Zenon DEF FindRoots, for_fdt_node
<1>4. step' \in MapSteps /\ step' \in Steps
  BY <1>1, Zenon DEF MapSteps, Steps
<1>5. /\ roots \in Seq(DOMAIN board.nodes) /\ Nodes(compatible) \subseteq DOMAIN board.nodes
      /\ Nodes(compatible)
           \subseteq Nodes("pci-host-cam-generic") \union Nodes("pci-host-ecam-generic")
  BY <1>0, Zenon DEF TypeOK, Nodes
<1>6. TypeOK'
  <2>1. roots' \in Seq(DOMAIN board.nodes)
    BY <1>3, <1>5
  <2>2. PageTableTypeOK'
    BY <1>0, <1>2, Zenon DEF TypeOK, PageTableTypeOK, tableVars, Failures
  <2> QED BY <1>0, <1>1, <1>4, <2>1, <2>2, SMTT(30) DEF TypeOK
<1>7. RootsInv'
  <2>1. CASE UNCHANGED roots
    BY <1>0, <2>1, RootsKept, Zenon
  <2>2. CASE roots' = Append(roots, n) /\ n \in Nodes(compatible) /\ board.nodes[n].reg # <<>>
    <3> SUFFICES ASSUME NEW k \in DOMAIN roots'
                 PROVE  /\ roots'[k] \in Nodes("pci-host-cam-generic")
                                            \union Nodes("pci-host-ecam-generic")
                        /\ board.nodes[roots'[k]].reg # <<>>
      BY <1>0, Zenon DEF RootsInv, Nodes
    <3>1. roots'[k] = n \/ (k \in DOMAIN roots /\ roots'[k] = roots[k])
      BY <1>5, <2>2
    <3> QED BY <1>5, <2>2, <3>1, Zenon DEF IInv, RootsInv
  <2> QED BY <1>3, <2>1, <2>2, Zenon
<1>8. GicInv' /\ MmuInv'
  BY <1>0, <1>4, GicKept, MmuKept, Zenon DEF MapSteps
<1>9. ImageInv' /\ RegionsInv'
  BY <1>0, LaterStep, Zenon
<1> QED BY <1>6, <1>7, <1>8, <1>9, Zenon DEF IInv

LEMMA FindPciRootsStep == ASSUME IInv, find_pci_roots PROVE IInv'
  BY FindRootsStep, Zenon DEF find_pci_roots, At, MapSteps, Reading

LEMMA TrimmedType ==
  ASSUME NEW r \in Region, r.address < SIZE
  PROVE  Trimmed(r) \in Region
<1>1. r.size \in Nat /\ SIZE - r.address \in Nat
  BY Sizes DEF Region
<1> DEFINE S == {r.size, SIZE - r.address}
<1>2. Min(S) \in S
  <2>1. \E x \in S : \A y \in S : x <= y
    BY <1>1
  <2> QED BY <2>1, Zenon DEF Min
<1> QED BY <1>1, <1>2, Zenon DEF Trimmed, Region

LEMMA RegionAt ==
  ASSUME NEW s \in Seq(Region), NEW k \in Nat \ {0}, k <= Len(s)
  PROVE  k \in DOMAIN s /\ s[k] \in Region
  OBVIOUS

LEMMA MapRangesStep == ASSUME IInv, map_ranges PROVE IInv'
<1>0. /\ step = "map_ranges" /\ failure = "none" /\ UNCHANGED <<board, roots, mmu, devices>>
      /\ TypeOK /\ board \in Boards /\ i \in Nat \ {0} /\ n \in Nat \ {0}
      /\ n <= Len(roots) /\ step \notin Reading /\ step \in MapSteps
  BY Zenon DEF map_ranges, At, IInv, TypeOK, Reading, MapSteps
<1> PICK ranges : ranges = board.nodes[roots[n]].ranges
  BY Zenon
<1>1. roots[n] \in DOMAIN board.nodes
  BY <1>0 DEF TypeOK
<1>2. ranges \in Seq(Region)
  BY <1>0, <1>1, NodeType, ZenonT(30)
<1>3. CASE i <= Len(ranges) /\ ranges[i].address < SIZE /\ MapRegion("device", Trimmed(ranges[i]))
  <2> PICK r : r = Trimmed(ranges[i])
    BY Zenon
  <2>1. i \in DOMAIN ranges /\ ranges[i] \in Region
    <3>1. i \in Nat \ {0} /\ i <= Len(ranges)
      BY <1>0, <1>3, Zenon
    <3> QED BY <1>2, <3>1, RegionAt, Zenon
  <2>2. r \in Region
    BY <1>3, <2>1, TrimmedType, Zenon
  <2>3. MapRegion("device", r) /\ UNCHANGED <<step, n>>
    BY <1>3, Zenon DEF MapRegion
  <2>4. /\ PageTableTypeOK'
        /\ \/ failure' # "none" /\ i' = i /\ UNCHANGED tableVars
           \/ /\ failure' = "none" /\ i' = i + 1 /\ End(r) <= SIZE
              /\ \A p \in Pages :
                   Lookup(p)' = IF p \in fdt_to_pagetable_region(r) THEN "device" ELSE Lookup(p)
    BY <1>0, <2>2, <2>3, MapRegionMaps, ZenonT(30) DEF Kinds
  <2>5. TypeOK'
    <3>1. i' \in Nat \ {0}
      BY <1>0, <2>4
    <3> QED BY <1>0, <2>3, <2>4, <3>1, ZenonT(30) DEF TypeOK
  <2>6. ImageInv' /\ RegionsInv'
    <3>1. CASE UNCHANGED tableVars
      BY <1>0, <3>1, LaterStep, ZenonT(30)
    <3>2. CASE /\ End(r) <= SIZE
               /\ \A p \in Pages :
                   Lookup(p)' = IF p \in fdt_to_pagetable_region(r) THEN "device" ELSE Lookup(p)
      <4>1. Touched(board.image) \intersect fdt_to_pagetable_region(r) = {}
        BY <1>0, <1>1, <1>3, <2>1, DeviceTreeAssumption, ZenonT(30)
      <4> QED BY <1>0, <2>2, <3>2, <4>1, AllPassed, DeviceAdded, ZenonT(30)
    <3> QED BY <2>4, <3>1, <3>2, ZenonT(30)
  <2>7. RootsInv' /\ GicInv' /\ MmuInv'
    BY <1>0, <2>3, RootsKept, GicKept, MmuKept, ZenonT(30)
  <2> QED BY <2>5, <2>6, <2>7, ZenonT(30) DEF IInv
<1>4. CASE /\ step' = step /\ n' \in {n, n + 1} /\ i' \in {1, i + 1}
           /\ UNCHANGED <<tableVars, failure>>
  <2>1. TypeOK'
    <3>1. i' \in Nat \ {0} /\ n' \in Nat \ {0}
      BY <1>0, <1>4
    <3> QED BY <1>0, <1>4, <3>1, ZenonT(30) DEF TypeOK, PageTableTypeOK, tableVars
  <2>2. ImageInv' /\ RegionsInv'
    BY <1>0, <1>4, LaterStep, Zenon
  <2>3. RootsInv' /\ GicInv' /\ MmuInv'
    BY <1>0, <1>4, RootsKept, GicKept, MmuKept, ZenonT(30)
  <2> QED BY <2>1, <2>2, <2>3, ZenonT(30) DEF IInv
<1> QED BY <1>3, <1>4, Zenon DEF map_ranges, NextTurn

LEMMA ActivateStep == ASSUME IInv, activate PROVE IInv'
<1> USE DEF activate, At, Goto
<1>1. TypeOK'
  <2>1. mmu' \in [Cores -> {"off", "initial", "idmap"}]
    BY Zenon DEF IInv, TypeOK, Cores
  <2>2. PageTableTypeOK'
    BY Zenon DEF IInv, TypeOK, PageTableTypeOK, tableVars
  <2> QED BY <2>1, <2>2 DEF IInv, TypeOK, Steps
<1>2. ImageInv' /\ RegionsInv'
  BY LaterStep, Zenon DEF Reading
<1>3. RootsInv' /\ GicInv'
  BY RootsKept, GicKept, Zenon
<1>4. MmuInv'
  BY Zenon DEF IInv, TypeOK, MmuInv, MapSteps, Cores
<1> QED BY <1>1, <1>2, <1>3, <1>4, ZenonT(30) DEF IInv

LEMMA InitGicStep == ASSUME IInv, init_gic PROVE IInv'
<1> USE DEF init_gic, At, Goto, Panic
<1>1. TypeOK'
  BY DEF IInv, TypeOK, PageTableTypeOK, tableVars, Steps, Failures
<1>2. ImageInv' /\ RegionsInv'
  BY LaterStep, Zenon DEF Reading
<1>3. RootsInv' /\ GicInv' /\ MmuInv'
  BY RootsKept, GicKept, MmuKept, Zenon DEF MapSteps
<1> QED BY <1>1, <1>2, <1>3, ZenonT(30) DEF IInv

LEMMA InitVirtioDevice ==
  ASSUME TypeOK, NEW type, init_virtio_device(type)
  PROVE  devices' \in [VirtioTypes -> Nat] /\ failure' \in {failure, "virtio"}
  BY DEF init_virtio_device, TypeOK

LEMMA DevicesTypeStep ==
  ASSUME TypeOK, UNCHANGED <<tableVars, board, step, roots, mmu>>,
         n' \in Nat \ {0}, i' \in Nat \ {0},
         devices' \in [VirtioTypes -> Nat], failure' \in {failure, "virtio"}
  PROVE  TypeOK'
<1>1. PageTableTypeOK'
  BY Zenon DEF TypeOK, PageTableTypeOK, tableVars, Failures
<1> QED BY <1>1, Zenon DEF TypeOK

(* main and the secondary core once the page table is in use. *)
LEMMA FindMmioStep == ASSUME IInv, find_virtio_mmio_devices PROVE IInv'
<1> USE DEF find_virtio_mmio_devices, At, NextTurn
<1>1. devices' \in [VirtioTypes -> Nat] /\ failure' \in {failure, "virtio"}
  BY InitVirtioDevice, Zenon DEF IInv, TypeOK
<1>2. TypeOK'
  <2>1. n' \in Nat \ {0} /\ i' \in Nat \ {0}
    BY DEF IInv, TypeOK
  <2> QED BY <1>1, <2>1, DevicesTypeStep, ZenonT(30) DEF IInv
<1>3. ImageInv' /\ RegionsInv'
  BY LaterStep, Zenon DEF Reading
<1>4. RootsInv' /\ GicInv' /\ MmuInv'
  BY RootsKept, GicKept, MmuKept, Zenon
<1> QED BY <1>2, <1>3, <1>4, Zenon DEF IInv

LEMMA InitPciStep == ASSUME IInv, init_pci PROVE IInv'
<1> USE DEF init_pci, At, Goto
<1>1. TypeOK'
  BY DEF IInv, TypeOK, PageTableTypeOK, tableVars, Steps
<1>2. ImageInv' /\ RegionsInv'
  BY LaterStep, Zenon DEF Reading
<1>3. RootsInv' /\ GicInv' /\ MmuInv'
  BY RootsKept, GicKept, MmuKept, ZenonT(30) DEF MapSteps
<1> QED BY <1>1, <1>2, <1>3, ZenonT(30) DEF IInv

LEMMA FindPciDevicesStep == ASSUME IInv, find_virtio_pci_devices PROVE IInv'
<1>0. /\ step = "find_virtio_pci_devices" /\ failure = "none"
      /\ UNCHANGED <<tableVars, board, roots, mmu>>
      /\ TypeOK /\ n \in Nat \ {0} /\ i \in Nat \ {0}
  BY Zenon DEF find_virtio_pci_devices, At, IInv, TypeOK
<1>1. devices' \in [VirtioTypes -> Nat] /\ failure' \in {failure, "virtio"}
  <2>1. \/ \E type : init_virtio_device(type)
        \/ failure' = "virtio" /\ UNCHANGED devices
        \/ UNCHANGED <<failure, devices>>
    BY Zenon DEF find_virtio_pci_devices
  <2>2. devices \in [VirtioTypes -> Nat]
    BY <1>0, Zenon DEF TypeOK
  <2> QED BY <1>0, <2>1, <2>2, InitVirtioDevice, Zenon
<1>2. step' = step /\ n' \in Nat \ {0} /\ i' \in Nat \ {0}
  <2>1. step' = step /\ n' \in {n, n + 1} /\ i' \in {1, i + 1}
    BY Zenon DEF find_virtio_pci_devices, NextTurn
  <2> QED BY <1>0, <2>1
<1>3. TypeOK'
  BY <1>0, <1>1, <1>2, DevicesTypeStep, Zenon
<1>4. ImageInv' /\ RegionsInv'
  BY <1>0, <1>2, LaterStep, Zenon DEF Reading
<1>5. RootsInv' /\ GicInv' /\ MmuInv'
  BY <1>0, <1>2, RootsKept, GicKept, MmuKept, ZenonT(30)
<1> QED BY <1>3, <1>4, <1>5 DEF IInv

LEMMA ShellStep == ASSUME IInv, shell PROVE IInv'
<1> USE DEF shell, At, Goto
<1>1. TypeOK'
  BY DEF IInv, TypeOK, PageTableTypeOK, tableVars, Steps
<1>2. ImageInv' /\ RegionsInv'
  BY LaterStep, Zenon DEF Reading
<1>3. RootsInv' /\ GicInv' /\ MmuInv'
  BY RootsKept, GicKept, MmuKept, Zenon DEF MapSteps
<1> QED BY <1>1, <1>2, <1>3, ZenonT(30) DEF IInv

LEMMA SecondaryStep ==
  ASSUME IInv, cpu_on \/ activate_secondary \/ cpu_off
  PROVE  IInv'
<1>1. PICK t \in {"off", "initial", "idmap"} : mmu' = [mmu EXCEPT !["secondary"] = t]
  BY Zenon DEF cpu_on, activate_secondary, cpu_off
<1>2. step = "shell" /\ UNCHANGED <<tableVars, failure, board, step, n, i, roots, devices>>
  BY Zenon DEF cpu_on, activate_secondary, cpu_off, At
<1>3. TypeOK'
  BY <1>1, <1>2, Zenon DEF IInv, TypeOK, PageTableTypeOK, tableVars, Cores
<1>4. MmuInv'
  BY <1>1, <1>2, Zenon DEF IInv, TypeOK, MmuInv, Cores, MapSteps
<1>5. ImageInv' /\ RegionsInv'
  BY <1>2, LaterStep, Zenon DEF Reading
<1>6. RootsInv' /\ GicInv'
  BY <1>2, RootsKept, GicKept, Zenon
<1> QED BY <1>3, <1>4, <1>5, <1>6, Zenon DEF IInv

LEMMA StutterStep == ASSUME IInv, UNCHANGED vars PROVE IInv'
<1> USE DEF vars, bootVars
<1>1. TypeOK'
  BY Zenon DEF IInv, TypeOK, PageTableTypeOK, tableVars
<1>2. ImageInv' /\ RegionsInv'
  BY TablesKept, Zenon DEF MemoryPassed, RegionPassed
<1>3. RootsInv' /\ MmuInv'
  BY RootsKept, MmuKept, Zenon
<1>4. GicInv'
  <2>1. UNCHANGED <<step, board>>
    BY Zenon
  <2> QED BY <2>1, GicKept, Zenon
<1> QED BY <1>1, <1>2, <1>3, <1>4, Zenon DEF IInv

LEMMA Inductive == IInv /\ [Next]_vars => IInv'
  BY CreateStep, MapFdtRegionsStep, MapFdtNodeRegionsStep, FindPciRootsStep, MapRangesStep,
     ActivateStep, InitGicStep, FindMmioStep, InitPciStep, FindPciDevicesStep, ShellStep,
     SecondaryStep, StutterStep, SMTT(30) DEF Next

-----------------------------------------------------------------------------
(* What cores access *)

LEMMA LeastOf ==
  ASSUME NEW T, T \subseteq Nat, T # {}
  PROVE  Min(T) \in T
<1> DEFINE R == OpToRel(<, Nat)
<1>1. PICK m \in T : \A k \in T : ~(<<k, m>> \in R)
  <2>1. IsWellFoundedOn(R, Nat)
    BY NatLessThanWellFounded, Zenon
  <2> HIDE DEF R
  <2> QED BY <2>1, WFMin, Zenon
<1>2. ASSUME NEW k \in T PROVE m <= k
  <2>1. k \in Nat /\ m \in Nat
    BY Zenon
  <2>2. <<k, m>> \in R <=> k < m
    BY <2>1, Zenon DEF OpToRel
  <2> HIDE DEF R
  <2> QED BY <1>1, <2>1, <2>2
<1> QED BY <1>2, Zenon DEF Min

(* What is in a region of a known device is mapped as a device. *)
LEMMA KnownDevice ==
  ASSUME IInv, step \notin Reading, NEW m \in DOMAIN board.nodes, NEW w \in MappedDevices,
         is_compatible(board.nodes[m], {w}), NEW j \in DOMAIN board.nodes[m].reg,
         NEW r \in Region, Within(r, board.nodes[m].reg[j]), NEW p \in Touched(r)
  PROVE  Lookup(p) = "device"
<1>0. board \in Boards
  BY Zenon DEF IInv, TypeOK
<1>1. is_compatible(board.nodes[m], MappedDevices)
  BY Zenon DEF is_compatible
<1>2. NodeRegions(board.nodes[m]) = board.nodes[m].reg
  BY <1>1, Zenon DEF NodeRegions
<1>3. DeviceMapped(board.nodes[m].reg[j])
  BY <1>2, AllPassed, Zenon DEF IInv, RegionsInv
<1>4. board.nodes[m].reg[j] \in Region
  BY <1>0, NodeType
<1> QED BY <1>3, <1>4, TouchedWithin, Zenon DEF DeviceMapped

LEMMA PositionsNat ==
  ASSUME NEW T, NEW s \in Seq(T)
  PROVE  DOMAIN s \subseteq Nat
<1>1. DOMAIN s = 1..Len(s) /\ Len(s) \in Nat
  OBVIOUS
<1> QED BY <1>1

LEMMA FirstPosition ==
  ASSUME NEW s \in Seq(Region), s # <<>>
  PROVE  1 \in DOMAIN s
  OBVIOUS

LEMMA TwoPositions ==
  ASSUME NEW s \in Seq(Region), Len(s) >= 2
  PROVE  1 \in DOMAIN s /\ 2 \in DOMAIN s
  OBVIOUS

LEMMA WithinItself == ASSUME NEW r \in Region PROVE Within(r, r)
  BY DEF Within, Region, End

(* The first region of a known node, and any other. *)
LEMMA RegionOfKnown ==
  ASSUME IInv, step \notin Reading, NEW m \in DOMAIN board.nodes, NEW w \in MappedDevices,
         is_compatible(board.nodes[m], {w}), NEW j \in DOMAIN board.nodes[m].reg,
         NEW p \in Touched(board.nodes[m].reg[j])
  PROVE  Lookup(p) = "device"
<1>1. board.nodes[m].reg[j] \in Region
  BY NodeType DEF IInv, TypeOK
<1> QED BY <1>1, WithinItself, KnownDevice, ZenonT(30)

(* The console and the clock are mapped as devices. *)
LEMMA FixedDevice ==
  ASSUME IInv, NEW r \in {board.uart, board.rtc}, NEW p \in Touched(r)
  PROVE  initial_idmap[p[1]] = "device" /\ (step \notin Reading => Lookup(p) = "device")
<1>0. board \in Boards /\ r \in Region
  BY BoardType, Zenon DEF IInv, TypeOK
<1>1. initial_idmap[p[1]] = "device"
  <2>1. 0 \in Nat /\ 0 < ENTRIES /\ 0 \in Index
    BY PageTableAssumption DEF Index
  <2>2. p[1] = 0
    BY <1>0, <2>1, AddressesAssumption, TouchedInBlock
  <2>3. qemu_initial_idmap[0] = "device" /\ crosvm_initial_idmap[0] = "device"
    BY <2>1 DEF qemu_initial_idmap, crosvm_initial_idmap
  <2> QED BY <2>2, <2>3, Zenon DEF initial_idmap
<1>2. ASSUME step \notin Reading PROVE Lookup(p) = "device"
  <2>1. PICK w \in {"arm,pl011", "ns16550a", "arm,primecell"} : DescribedAs(board, r, w)
    BY <1>0, DeviceTreeAssumption, Zenon
  <2>2. w \in MappedDevices
    BY Zenon DEF MappedDevices
  <2>3. PICK m \in DOMAIN board.nodes : \E j \in DOMAIN board.nodes[m].reg :
          is_compatible(board.nodes[m], {w}) /\ Within(r, board.nodes[m].reg[j])
    BY <2>1, Zenon DEF DescribedAs
  <2>4. PICK j \in DOMAIN board.nodes[m].reg :
          is_compatible(board.nodes[m], {w}) /\ Within(r, board.nodes[m].reg[j])
    BY <2>3, Zenon
  <2> QED BY <1>0, <1>2, <2>2, <2>4, KnownDevice, ZenonT(30)
<1> QED BY <1>1, <1>2, Zenon

(* A core that is not on the initial map came after activate. *)
LEMMA IdmapLater ==
  ASSUME IInv, NEW c \in Cores, mmu[c] = "idmap"
  PROVE  step \notin MapSteps /\ step \notin Reading
<1>1. step \notin MapSteps
  BY Zenon DEF IInv, MmuInv, Cores, MapSteps
<1> QED BY <1>1, Zenon DEF MapSteps, Reading

(* What the initial map has: the image and two devices. *)
LEMMA InitialUses ==
  ASSUME IInv, NEW c \in Cores, mmu[c] = "initial", NEW r \in DevicesUsed(c)
  PROVE  r \in {board.uart, board.rtc}
<1>1. \/ c = "primary" /\ step \in MapSteps
      \/ c = "secondary" /\ step = "shell"
  BY Zenon DEF IInv, MmuInv, Cores
<1> QED BY <1>1, Zenon DEF DevicesUsed, MapSteps

LEMMA InitialImage ==
  ASSUME IInv, NEW p \in Touched(board.image)
  PROVE  initial_idmap[p[1]] = "memory"
<1>1. board \in Boards /\ 1 \in Index /\ 2 \in Index /\ 1 # ENTRIES - 1
  BY BootAssumption, PageTableAssumption DEF IInv, TypeOK, Index
<1>2. p[1] = IF board.platform = "qemu" THEN 1 ELSE 2
  BY <1>1, ImageInPages
<1>3. qemu_initial_idmap[1] = "memory" /\ crosvm_initial_idmap[2] = "memory"
  BY <1>1 DEF qemu_initial_idmap, crosvm_initial_idmap
<1> QED BY <1>2, <1>3, Zenon DEF initial_idmap

(* The devices that a core on the page table uses. *)
LEMMA IdmapUses ==
  ASSUME IInv, NEW c \in Cores, mmu[c] = "idmap", NEW r \in DevicesUsed(c), NEW p \in Touched(r)
  PROVE  Lookup(p) = "device"
<1>0. step \notin MapSteps /\ step \notin Reading /\ board \in Boards
  BY IdmapLater, Zenon DEF IInv, TypeOK
<1>1. CASE r \in {board.uart, board.rtc}
  BY <1>0, <1>1, FixedDevice, ZenonT(30)
<1>2. CASE /\ step \in {"find_virtio_mmio_devices", "find_virtio_pci_devices", "shell"}
           /\ r \in {GicNode.reg[1], GicNode.reg[2]}
  <2>1. make_gic_ok
    BY <1>2, Zenon DEF IInv, GicInv
  <2> PICK m : m = Min(Nodes("arm,gic-v3"))
    BY Zenon
  <2>2. Nodes("arm,gic-v3") \subseteq Nat
    <3>1. board.nodes \in Seq(DeviceNode)
      BY <1>0, BoardType, Zenon
    <3>2. DOMAIN board.nodes \subseteq Nat
      BY <3>1, PositionsNat, Zenon
    <3> QED BY <3>2, Zenon DEF Nodes
  <2>3. m \in Nodes("arm,gic-v3")
    BY <2>1, <2>2, LeastOf, Zenon DEF make_gic_ok
  <2>4. m \in DOMAIN board.nodes /\ is_compatible(board.nodes[m], {"arm,gic-v3"})
    BY <2>3, Zenon DEF Nodes
  <2>5. board.nodes[m].reg \in Seq(Region) /\ Len(board.nodes[m].reg) >= 2
    BY <1>0, <2>1, <2>4, NodeType, ZenonT(30) DEF make_gic_ok, GicNode
  <2>6. 1 \in DOMAIN board.nodes[m].reg /\ 2 \in DOMAIN board.nodes[m].reg
    BY <2>5, TwoPositions, Zenon
  <2>7. r \in {board.nodes[m].reg[1], board.nodes[m].reg[2]}
    BY <1>2, Zenon DEF GicNode
  <2>8. "arm,gic-v3" \in MappedDevices
    BY Zenon DEF MappedDevices
  <2> QED BY <1>0, <2>4, <2>6, <2>7, <2>8, RegionOfKnown, ZenonT(30)
<1>3. CASE n <= Len(board.nodes) /\ HasHeader(board.nodes[n]) /\ r = board.nodes[n].reg[1]
  <2>1. n \in DOMAIN board.nodes
    BY <1>0, <1>3, BoardType DEF IInv, TypeOK
  <2>2. board.nodes[n].reg \in Seq(Region)
    BY <1>0, <2>1, NodeType, Zenon
  <2>3. is_compatible(board.nodes[n], {"virtio,mmio"}) /\ 1 \in DOMAIN board.nodes[n].reg
    BY <1>3, <2>2, FirstPosition, Zenon DEF HasHeader
  <2>4. "virtio,mmio" \in MappedDevices
    BY Zenon DEF MappedDevices
  <2> QED BY <1>0, <1>3, <2>1, <2>3, <2>4, RegionOfKnown, ZenonT(30)
<1>4. CASE \E k \in DOMAIN roots : r = board.nodes[roots[k]].reg[1]
  <2>1. PICK k \in DOMAIN roots : r = board.nodes[roots[k]].reg[1]
    BY <1>4
  <2>2. PICK m : m = roots[k]
    BY Zenon
  <2>3. PICK w \in {"pci-host-cam-generic", "pci-host-ecam-generic"} :
          m \in DOMAIN board.nodes /\ is_compatible(board.nodes[m], {w})
    BY <2>2, Zenon DEF IInv, RootsInv, Nodes
  <2>4. board.nodes[m].reg \in Seq(Region) /\ board.nodes[m].reg # <<>>
    BY <1>0, <2>2, <2>3, NodeType, Zenon DEF IInv, RootsInv
  <2>5. 1 \in DOMAIN board.nodes[m].reg
    BY <2>4, FirstPosition, Zenon
  <2>6. w \in MappedDevices
    BY Zenon DEF MappedDevices
  <2> QED BY <1>0, <2>1, <2>2, <2>3, <2>5, <2>6, RegionOfKnown, ZenonT(30)
<1> QED
  <2>1. \/ r \in {board.uart, board.rtc}
        \/ /\ step \in {"find_virtio_mmio_devices", "find_virtio_pci_devices", "shell"}
           /\ r \in {GicNode.reg[1], GicNode.reg[2]}
        \/ n <= Len(board.nodes) /\ HasHeader(board.nodes[n]) /\ r = board.nodes[n].reg[1]
        \/ \E k \in DOMAIN roots : r = board.nodes[roots[k]].reg[1]
    BY Zenon DEF DevicesUsed
  <2> QED BY <1>1, <1>2, <1>3, <1>4, <2>1, ZenonT(30)

-----------------------------------------------------------------------------
(* Theorems *)

LEMMA ImageLookup ==
  ASSUME IInv, step \notin Reading, NEW p \in Touched(board.image)
  PROVE  Lookup(p) = "memory"
<1>1. board \in Boards
  BY Zenon DEF IInv, TypeOK
<1>2. PICK j \in DOMAIN board.memory : Within(board.image, board.memory[j])
  BY <1>1, DeviceTreeAssumption, Zenon
<1>3. p \in fdt_to_pagetable_region(board.memory[j])
  BY <1>1, <1>2, BoardType, TouchedWithin
<1> QED BY <1>3, AllPassed, Zenon DEF IInv, ImageInv

LEMMA IInvImage == IInv => ImageMapped
<1> SUFFICES ASSUME IInv, NEW c \in Cores, mmu[c] # "off", NEW p \in Touched(board.image)
             PROVE  Translated(c, p) = "memory"
  BY Zenon DEF ImageMapped
<1>1. mmu[c] \in {"initial", "idmap"}
  BY Zenon DEF IInv, TypeOK
<1>2. CASE mmu[c] = "initial"
  BY <1>2, InitialImage, Zenon DEF Translated
<1>3. CASE mmu[c] = "idmap"
  BY <1>3, IdmapLater, ImageLookup, Zenon DEF Translated
<1> QED BY <1>1, <1>2, <1>3, Zenon

LEMMA IInvDevices == IInv => DevicesMapped
<1> SUFFICES ASSUME IInv, NEW c \in Cores, mmu[c] # "off", NEW r \in DevicesUsed(c),
                    NEW p \in Touched(r)
             PROVE  Translated(c, p) = "device"
  BY Zenon DEF DevicesMapped
<1>1. mmu[c] \in {"initial", "idmap"}
  BY Zenon DEF IInv, TypeOK
<1>2. CASE mmu[c] = "initial"
  BY <1>2, InitialUses, FixedDevice, Zenon DEF Translated
<1>3. CASE mmu[c] = "idmap"
  BY <1>3, IdmapUses, Zenon DEF Translated
<1> QED BY <1>1, <1>2, <1>3, Zenon

LEMMA Invariant == Spec => []IInv
  BY InitIInv, Inductive, PTL DEF Spec

(* The state of the boot is well typed: PCI roots are nodes of the tree,   *)
(* and entries of the page table stay valid whatever main maps.            *)
THEOREM BootTypeCorrect == Spec => []TypeOK
  BY Invariant, PTL DEF IInv

(* For every platform and device tree, the image stays mapped as memory,   *)
(* on every core, before and after activate and activate_secondary.        *)
THEOREM ImageStaysMapped == Spec => []ImageMapped
  BY Invariant, IInvImage, PTL

(* For every platform and device tree, a core finds each device that it    *)
(* accesses mapped as a device: map_fdt_regions maps every region that     *)
(* make_gic, the VirtIO and PCI code and the platform's drivers use.       *)
THEOREM DevicesStayMapped == Spec => []DevicesMapped
  BY Invariant, IInvDevices, PTL

(* For every platform and device tree, main has finished the page table    *)
(* when a core starts to use it, and it stays as it is.                    *)
THEOREM TableStaysAsActivated == Spec => LiveTableKept
<1>1. ASSUME IInv, [Next]_vars
      PROVE  [(\E c \in Cores : mmu[c] = "idmap") => UNCHANGED tableVars]_vars
  <2> SUFFICES ASSUME NEW c \in Cores, mmu[c] = "idmap"
               PROVE  UNCHANGED tableVars
    BY Zenon
  <2>1. step \notin MapSteps
    BY <1>1, Zenon DEF IInv, MmuInv, MapSteps, Cores
  <2>2. ~(create \/ map_fdt_regions \/ map_fdt_node_regions \/ find_pci_roots
            \/ map_ranges \/ activate)
    BY <2>1, Zenon DEF MapSteps, At, create, map_fdt_regions, map_fdt_node_regions,
      find_pci_roots, map_ranges, activate
  <2> QED BY <1>1, <2>2, Zenon
          DEF Next, init_gic, find_virtio_mmio_devices, init_pci,
              find_virtio_pci_devices, shell, cpu_on, activate_secondary, cpu_off, vars
<1> QED BY <1>1, Invariant, PTL DEF Spec, LiveTableKept
=============================================================================
