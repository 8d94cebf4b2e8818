----------------------------- MODULE MCPciBars -----------------------------
(***************************************************************************)
(* Instances of PciBars for TLC: 32 bits reach address 7, the page table   *)
(* addresses 0 to 13.                                                      *)
(***************************************************************************)
EXTENDS PciBars

RootRange(type, base, bus, size, prefetchable) ==
  [type |-> type, cpu_physical |-> base, bus_address |-> bus, size |-> size,
   prefetchable |-> prefetchable]

Low32 == RootRange("Memory32", 2, 2, 4, FALSE)
Low64 == RootRange("Memory64", 1, 1, 4, TRUE)
UpTo32Bits == RootRange("Memory64", 6, 6, 2, FALSE)
High64 == RootRange("Memory64", 8, 8, 4, FALSE)
Straddling == RootRange("Memory64", 6, 6, 4, FALSE)
Prefetchable == RootRange("Memory64", 12, 12, 4, TRUE)
HighPrefetchable == RootRange("Memory64", 8, 8, 4, TRUE)
OutOfReach == RootRange("Memory64", 14, 14, 2, FALSE)
Translated == RootRange("Memory64", 8, 0, 4, FALSE)
IoSpace == RootRange("IoSpace", 0, 8, 2, FALSE)

MCRootRanges ==
  {{Low32, High64, Prefetchable, IoSpace},
   {Low32, UpTo32Bits, HighPrefetchable, OutOfReach},
   {Low64, Straddling, Prefetchable},
   {Low32, Translated}}

Bar(width, size, prefetchable) ==
  [kind |-> "Memory", width |-> width, size |-> size,
   prefetchable |-> prefetchable]

(* No BAR, or an IO BAR: allocate_bars passes over both. *)
Ignored == [kind |-> "Ignored", width |-> "None", size |-> 0, prefetchable |-> FALSE]

MCBarInfos ==
  {Ignored, Bar("Width32", 0, FALSE), Bar("Width32", 2, FALSE),
   Bar("Width32", 4, FALSE), Bar("Width64", 1, FALSE), Bar("Width64", 2, TRUE),
   Bar("Width64", 4, FALSE), Bar("Below1MiB", 1, FALSE)}
=============================================================================
