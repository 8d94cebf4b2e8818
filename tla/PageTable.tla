----------------------------- MODULE PageTable -----------------------------
(***************************************************************************)
(* IdMap of src/pagetable.rs: a page table of three levels from ROOT_LEVEL *)
(* down to pages, its tables taken from a heap of pages, with map_range of *)
(* the aarch64-paging crate, external.                                     *)
(*                                                                         *)
(* A page is named by the indices that lead to it.  An entry below one     *)
(* that is not a table does not exist, and is shown as "invalid", as       *)
(* allocate_table leaves it.                                               *)
(***************************************************************************)
EXTENDS Naturals, FiniteSets

CONSTANTS
  ENTRIES,   \* entries of a table, 512
  PAGE_HEAP  \* tables that the page heap has room for, at most 10

ASSUME PageTableAssumption == ENTRIES \in Nat \ {0} /\ PAGE_HEAP \in Nat \ {0}

Index == 0..(ENTRIES - 1)
Pages == Index \X Index \X Index
Kinds == {"memory", "device"}
Failures == {"none", "no_page", "address", "reg", "pci", "gic", "virtio"}
Descriptors == Kinds \union {"invalid", "table"}

VARIABLES
  level1, level2, level3,  \* descriptors of blocks, of blocks and of pages
  failure                  \* what made main panic, "none" if nothing did

tableVars == <<level1, level2, level3>>

PageTableTypeOK ==
  /\ level1 \in [Index -> Descriptors]
  /\ level2 \in [Index \X Index -> Descriptors]
  /\ level3 \in [Pages -> Descriptors \ {"table"}]
  /\ failure \in Failures

(* IdMap::new: the root table is empty. *)
PageTableInit ==
  /\ level1 = [i \in Index |-> "invalid"]
  /\ level2 = [ij \in Index \X Index |-> "invalid"]
  /\ level3 = [p \in Pages |-> "invalid"]
  /\ failure = "none"

Block1(i) == {i} \X Index \X Index
Block2(i, j) == {i} \X {j} \X Index

(* The descriptor that translates an address: of the second level, or the  *)
(* block of the first that covers it; and of a page.                       *)
Entry2(i, j) == IF level1[i] = "table" THEN level2[<<i, j>>] ELSE level1[i]
Lookup(p) == IF Entry2(p[1], p[2]) = "table" THEN level3[p] ELSE Entry2(p[1], p[2])

(* Mutants: the entries of a new table are what the heap had there. *)
MutantStaleBlock == "device"
MutantStaleTable == "table"

(* The entries of a new table: it is filled with zeros. *)
allocate_table == "invalid"

(* What map_range puts in the new table under an entry: the block that the *)
(* entry was, if any.                                                      *)
Inherited(entry) == IF entry = "invalid" THEN allocate_table ELSE entry

(* Mutant: blocks are not allowed. *)
MutantConstraints == {"NO_BLOCK_MAPPINGS"}

(* What map_memory and map_device ask of map_range. *)
Constraints == {}

(* The entry of a block becomes a block only if the region covers it and   *)
(* it is not a table; it becomes a table if the region covers a part.      *)
Mapped(old, block, R, k) ==
  IF block \intersect R = {} THEN old
  ELSE IF block \subseteq R /\ old # "table" /\ Constraints = {} THEN k
  ELSE "table"

Level1(R, k) == [i \in Index |-> Mapped(level1[i], Block1(i), R, k)]

Old2(i, j) == IF level1[i] = "table" THEN level2[<<i, j>>] ELSE Inherited(level1[i])

Level2(R, k) ==
  [ij \in Index \X Index |->
     IF Level1(R, k)[ij[1]] # "table" THEN "invalid"
     ELSE Mapped(Old2(ij[1], ij[2]), Block2(ij[1], ij[2]), R, k)]

Old3(p) ==
  IF Entry2(p[1], p[2]) = "table" THEN level3[p] ELSE Inherited(Old2(p[1], p[2]))

Level3(R, k) ==
  [p \in Pages |->
     IF Level2(R, k)[<<p[1], p[2]>>] # "table" THEN "invalid"
     ELSE IF p \in R THEN k ELSE Old3(p)]

(* The tables in use: the root and those that the entries name. *)
Tables(one, two) ==
  1 + Cardinality({i \in Index : one[i] = "table"})
    + Cardinality({ij \in Index \X Index : two[ij] = "table"})

(* map_range for the pages R.  Tables are never given back, so that the    *)
(* heap runs out exactly when it has no room for all of them.              *)
map_range(R, k) ==
  IF Tables(Level1(R, k), Level2(R, k)) <= PAGE_HEAP
  THEN /\ level1' = Level1(R, k)
       /\ level2' = Level2(R, k)
       /\ level3' = Level3(R, k)
       /\ UNCHANGED failure
  ELSE /\ failure' = "no_page"
       /\ UNCHANGED tableVars

map_memory(R) == map_range(R, "memory")
map_device(R) == map_range(R, "device")

-----------------------------------------------------------------------------
(* The page table by itself, under any calls. *)

PAGES == ENTRIES * ENTRIES * ENTRIES
PageAt(i) == <<i \div (ENTRIES * ENTRIES), (i \div ENTRIES) % ENTRIES, i % ENTRIES>>
Regions == {{PageAt(i) : i \in j..k} : j \in 0..(PAGES - 1), k \in 0..(PAGES - 1)}

PageTableNext ==
  /\ failure = "none"
  /\ \E R \in Regions : map_memory(R) \/ map_device(R)

PageTableSpec == PageTableInit /\ [][PageTableNext]_<<tableVars, failure>>

(* A region takes at most two new tables at each of its ends: the page     *)
(* heap lasts for (PAGE_HEAP - 1) / 4 regions of any sizes, when           *)
(* allocate_table would panic.                                             *)
TablesPerRegion ==
  [][Tables(level1', level2') <= Tables(level1, level2) + 4]_tableVars

(* The page table implements the flat map of its pages: splitting a block  *)
(* keeps what it mapped, a new table maps nothing else, and map_memory and *)
(* map_device change no page outside the region.                           *)
Flat ==
  INSTANCE FlatMap WITH Unmapped <- "invalid", kind <- [p \in Pages |-> Lookup(p)]

FlatSpec == Flat!Spec
=============================================================================
