------------------------------ MODULE PciBars ------------------------------
(***************************************************************************)
(* Assigning addresses to the BARs of one PCI root: src/pci.rs, in the     *)
(* order in which main calls it, with buddy_system_allocator's             *)
(* FrameAllocator, and the command register of a function, external.       *)
(*                                                                         *)
(* Addresses are counted in units that keep their order and alignment.     *)
(***************************************************************************)
EXTENDS Naturals, FiniteSetsExt

CONSTANTS
  U32_MAX,        \* the last address that 32 bits can hold
  BlockSizes,     \* the sizes of the blocks of a FrameAllocator
  PageTableSize,  \* IdMap::size: addresses below it can be mapped
  RootRanges,     \* the lists of ranges that a device tree may give a root
  BarInfos,       \* what PciRoot::bars may say of one BAR
  FUNCTIONS,      \* functions on the bus
  SLOTS           \* BARs of a function, 6 for a PCI device

ASSUME PciBarsAssumption == {U32_MAX, PageTableSize, FUNCTIONS, SLOTS} \subseteq Nat

(* Powers of two: the next one divides every larger one. *)
ASSUME BlockSizesAssumption ==
  /\ BlockSizes \subseteq Nat \ {0}
  /\ \A s, t \in BlockSizes : s < t => 2 * s \in BlockSizes /\ t % (2 * s) = 0

PciRangeTypes == {"ConfigurationSpace", "IoSpace", "Memory32", "Memory64"}
PciRange ==
  [type : PciRangeTypes, cpu_physical : Nat, bus_address : Nat, size : Nat,
   prefetchable : BOOLEAN]

IsMemory(r) == r.type \in {"Memory32", "Memory64"}
End(r) == r.cpu_physical + r.size
Addresses(base, size) == base..(base + size - 1)

(* The memory ranges of a root do not overlap, and those of 32-bit address *)
(* space are within it.                                                    *)
ASSUME RootRangesAssumption ==
  \A rs \in RootRanges :
    /\ rs \subseteq PciRange
    /\ \A r, q \in rs : IsMemory(r) /\ IsMemory(q) /\ r # q =>
                         End(r) <= q.cpu_physical \/ End(q) <= r.cpu_physical
    /\ \A r \in rs : r.type = "Memory32" => r.bus_address + r.size <= U32_MAX + 1

(* Layout::from_size_align takes powers of two only, and u64 holds no      *)
(* others than the sizes of blocks.                                        *)
ASSUME BarInfosAssumption ==
  BarInfos \subseteq [kind : {"Memory", "Ignored"}, size : BlockSizes \union {0},
                     width : {"Width32", "Width64", "Below1MiB", "None"},
                     prefetchable : BOOLEAN]

Functions == 1..FUNCTIONS
Slots == 1..SLOTS
Pools == {"memory32", "memory64", "prefetchable_memory64"}
Outcomes == {"bus_address", "bars", "no_space", "truncated", "unimplemented"}

VARIABLES
  step,     \* where main is, or the reason of a panic
  ranges,   \* PciRootInfo::ranges
  mapped,   \* addresses mapped as device memory by map_ranges
  free,     \* the free blocks of each pool of the PciBarAllocator
  bars,     \* what the hardware says of every BAR
  address,  \* the address in every BAR, NoAddress until it is set
  command,  \* functions whose command register lets them use their BARs
  f, slot   \* the BAR that allocate_bars looks at

vars == <<step, ranges, mapped, free, bars, address, command, f, slot>>

NoAddress == U32_MAX + 2 * PageTableSize + 1

TypeOK ==
  /\ step \in {"find_pci_roots", "map_ranges", "init_pci", "allocate_bars",
               "done"} \union Outcomes
  /\ mapped \subseteq 0..(PageTableSize - 1)
  /\ DOMAIN free = Pools
  /\ address \in [Functions -> [Slots -> 0..NoAddress]]
  /\ command \subseteq Functions
  /\ f \in 1..(FUNCTIONS + 1)
  /\ slot \in 1..(SLOTS + 1)

Init ==
  /\ step = "find_pci_roots"
  /\ ranges \in RootRanges
  /\ mapped = {}
  /\ free = [p \in Pools |-> {}]
  /\ bars \in [Functions -> [Slots -> BarInfos]]
  /\ address = [g \in Functions |-> [s \in Slots |-> NoAddress]]
  /\ command = {}
  /\ f = 1
  /\ slot = 1

-----------------------------------------------------------------------------
(* Ranges *)

(* Mutant: the end of a range is not trimmed. *)
MutantTrimmed(r) == r

(* for_fdt_node drops or trims the memory ranges that reach past the page  *)
(* table.                                                                  *)
Trimmed(r) ==
  IF IsMemory(r)
  THEN [r EXCEPT !.size = Min({@, PageTableSize - r.cpu_physical})]
  ELSE r

for_fdt_node ==
  /\ step = "find_pci_roots"
  /\ ranges' = {Trimmed(r) : r \in {q \in ranges :
                  IsMemory(q) => q.cpu_physical < PageTableSize}}
  /\ step' = "map_ranges"
  /\ UNCHANGED <<mapped, free, bars, address, command, f, slot>>

(* Mutant: 64-bit ranges are not mapped. *)
MutantMapRanges ==
  /\ step = "map_ranges"
  /\ mapped' = UNION {Addresses(r.cpu_physical, r.size) :
                        r \in {q \in ranges : q.type = "Memory32"}}
  /\ step' = "init_pci"
  /\ UNCHANGED <<ranges, free, bars, address, command, f, slot>>

map_ranges ==
  /\ step = "map_ranges"
  /\ mapped' = UNION {Addresses(r.cpu_physical, r.size) :
                        r \in {q \in ranges : IsMemory(q)}}
  /\ step' = "init_pci"
  /\ UNCHANGED <<ranges, free, bars, address, command, f, slot>>

-----------------------------------------------------------------------------
(* FrameAllocator *)

(* add_frame cuts a range into the largest naturally aligned blocks. *)
Blocks(r) ==
  LET Inside(b, s) == b >= r.cpu_physical /\ b + s <= End(r)
  IN  {b \in [base : Addresses(r.cpu_physical, r.size), size : BlockSizes] :
         /\ b.base % b.size = 0
         /\ Inside(b.base, b.size)
         /\ 2 * b.size \in BlockSizes =>
              ~Inside(b.base - (b.base % (2 * b.size)), 2 * b.size)}

Fitting(pool, size) == {b \in free[pool] : b.size >= size}

(* The lowest block of the smallest sufficient size. *)
BestFit(pool, size) ==
  CHOOSE b \in Fitting(pool, size) :
    \A c \in Fitting(pool, size) :
      b.size < c.size \/ (b.size = c.size /\ b.base <= c.base)

(* Mutant: a block that fits exactly stays free. *)
MutantAllocAligned(pool, size) ==
  LET b == BestFit(pool, size)
  IN  free' = [free EXCEPT ![pool] =
        (@ \ {c \in {b} : c.size > size}) \union
          {[base |-> b.base + s, size |-> s] :
             s \in {x \in BlockSizes : size <= x /\ x < b.size}}]

(* alloc_aligned halves the block until it has the size that is asked for  *)
(* and frees the upper halves.                                             *)
alloc_aligned(pool, size) ==
  LET b == BestFit(pool, size)
  IN  free' = [free EXCEPT ![pool] =
        (@ \ {b}) \union {[base |-> b.base + s, size |-> s] :
                            s \in {x \in BlockSizes : size <= x /\ x < b.size}}]

-----------------------------------------------------------------------------
(* PciBarAllocator *)

(* Mutant: the start of the range is compared, not its end. *)
MutantTreated32(r) ==
  \/ r.type = "Memory32"
  \/ r.type = "Memory64" /\ r.bus_address <= U32_MAX

(* Mutant: prefetchable ranges are not told apart. *)
MutantPoolOf64(r) == "memory64"

(* A 64-bit range that ends below U32_MAX is treated as a 32-bit range; a  *)
(* range that reaches the end of 32-bit address space is not.              *)
Treated32(r) ==
  \/ r.type = "Memory32"
  \/ r.type = "Memory64" /\ r.bus_address + r.size < U32_MAX

PoolOf64(r) == IF r.prefetchable THEN "prefetchable_memory64" ELSE "memory64"

(* The pool that PciBarAllocator::new gives a memory range to. *)
PoolOf(r) == IF Treated32(r) THEN "memory32" ELSE PoolOf64(r)

PciBarAllocator_new ==
  /\ step = "init_pci"
  /\ \/ /\ \A r \in ranges : IsMemory(r) => r.cpu_physical = r.bus_address
        /\ free' = [p \in Pools |->
                      UNION {Blocks(r) : r \in {q \in ranges :
                                                 IsMemory(q) /\ PoolOf(q) = p}}]
        /\ step' = "allocate_bars"
     \/ /\ \E r \in ranges : IsMemory(r) /\ r.cpu_physical # r.bus_address
        /\ step' = "bus_address"
        /\ UNCHANGED free
  /\ UNCHANGED <<ranges, mapped, bars, address, command, f, slot>>

Panic(reason) ==
  /\ step' = reason
  /\ UNCHANGED <<free, address, slot>>

(* set_bar_32 or set_bar_64, and on to the next BAR. *)
Assign(pool, size) ==
  /\ Fitting(pool, size) # {}
  /\ alloc_aligned(pool, size)
  /\ address' = [address EXCEPT ![f][slot] = BestFit(pool, size).base]
  /\ slot' = slot + 1
  /\ UNCHANGED step

(* The conversion of the address to u32 is unwrapped. *)
allocate32(size) ==
  LET found == Fitting("memory32", size) # {}
      fits == BestFit("memory32", size).base <= U32_MAX
  IN  \/ /\ found /\ fits
         /\ Assign("memory32", size)
      \/ /\ ~(found /\ fits)
         /\ Panic(IF found THEN "truncated" ELSE "no_space")

(* The prefetchable pool, the 64-bit pool and the 32-bit pool, in turn. *)
allocate64(size, prefetchable) ==
  \/ /\ prefetchable
     /\ Assign("prefetchable_memory64", size)
  \/ /\ prefetchable => Fitting("prefetchable_memory64", size) = {}
     /\ Assign("memory64", size)
  \/ /\ prefetchable => Fitting("prefetchable_memory64", size) = {}
     /\ Fitting("memory64", size) = {}
     /\ allocate32(size)

-----------------------------------------------------------------------------
(* allocate_bars *)

Info == bars[f][slot]

NeedsAddress(info) == info.kind = "Memory" /\ info.size > 0

(* One turn of the loop over the BARs of function f, which are read, and   *)
(* the result unwrapped, before the first.                                 *)
allocate_bar ==
  /\ step = "allocate_bars"
  /\ f <= FUNCTIONS /\ slot <= SLOTS
  /\ \/ /\ slot = 1
        /\ Panic("bars")
     \/ /\ ~NeedsAddress(Info)
        /\ slot' = slot + 1
        /\ UNCHANGED <<step, free, address>>
     \/ /\ NeedsAddress(Info) /\ Info.width = "Width32"
        /\ allocate32(Info.size)
     \/ /\ NeedsAddress(Info) /\ Info.width = "Width64"
        /\ allocate64(Info.size, Info.prefetchable)
     \/ /\ NeedsAddress(Info) /\ Info.width = "Below1MiB"
        /\ Panic("unimplemented")
  /\ UNCHANGED <<ranges, mapped, bars, command, f>>

set_command ==
  /\ step = "allocate_bars"
  /\ f <= FUNCTIONS /\ slot = SLOTS + 1
  /\ command' = command \union {f}
  /\ f' = f + 1
  /\ slot' = 1
  /\ UNCHANGED <<step, ranges, mapped, free, bars, address>>

init_pci_done ==
  /\ step = "allocate_bars"
  /\ f = FUNCTIONS + 1
  /\ step' = "done"
  /\ UNCHANGED <<ranges, mapped, free, bars, address, command, f, slot>>

Next ==
  \/ for_fdt_node
  \/ map_ranges
  \/ PciBarAllocator_new
  \/ allocate_bar
  \/ set_command
  \/ init_pci_done

Spec == Init /\ [][Next]_vars

-----------------------------------------------------------------------------
(* Properties *)

(* The BARs that functions may use, and the addresses they answer to. *)
Usable ==
  {w \in [fn : command, slot : Slots] : NeedsAddress(bars[w.fn][w.slot])}
BarInfoOf(w) == bars[w.fn][w.slot]
Base(w) == address[w.fn][w.slot]
Window(w) == Addresses(Base(w), BarInfoOf(w).size)

(* Once set_command lets functions use their BARs, each BAR has a          *)
(* naturally aligned window of its own, whichever pool and fallback of     *)
(* allocate64 it came from.                                                *)
WindowsDisjoint ==
  \A v, w \in Usable :
    /\ Base(v) % BarInfoOf(v).size = 0
    /\ v # w => Window(v) \intersect Window(w) = {}

(* The page table maps every window: what for_fdt_node trims, map_ranges   *)
(* does not map and the allocator does not hand out.                       *)
WindowsMapped == \A w \in Usable : Window(w) \subseteq mapped

(* The try_into().unwrap() of allocate32 never fails, and the whole window *)
(* of a 32-bit BAR is within the reach of 32 bits.                         *)
Reach32 ==
  /\ step # "truncated"
  /\ \A w \in Usable :
       BarInfoOf(w).width = "Width32" => Base(w) + BarInfoOf(w).size - 1 <= U32_MAX

(* A BAR that is not prefetchable has no window in a prefetchable range    *)
(* that reaches past 32-bit address space.                                 *)
PrefetchableKeptApart ==
  \A w \in Usable, r \in ranges :
    /\ ~BarInfoOf(w).prefetchable
    /\ r.type = "Memory64" /\ r.prefetchable
    /\ End(r) > U32_MAX
    => Window(w) \intersect Addresses(r.cpu_physical, r.size) = {}
=============================================================================
