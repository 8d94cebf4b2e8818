-------------------------------- MODULE Boot --------------------------------
(***************************************************************************)
(* Boot of the primary core, main of src/main.rs, as far as the shell, and *)
(* of a secondary core: what the page table maps, when it takes over from  *)
(* the one the assembly code starts with, and what the program touches.    *)
(* Discovers VirtIO devices as src/virtio.rs does.                         *)
(*                                                                         *)
(* A device tree is the list of its nodes in the order of the traversal of *)
(* map_fdt_node_regions.  Addresses are counted in parts of a page.        *)
(***************************************************************************)
EXTENDS PageTable, Sequences, FiniteSetsExt

CONSTANTS
  PAGE_SIZE,    \* units of a page
  HEADER_SIZE,  \* size of a VirtIOHeader
  GICD_SIZE,    \* size of Gicd
  GICR_SIZE,    \* size of GicrSgi for one core
  CAM_SIZE,     \* size of the configuration space of a PCI root
  ECAM_SIZE,    \* and of a PCIe root
  Boards        \* platforms, each with a device tree it may have

(* The initial maps have three entries that differ. *)
ASSUME BootAssumption ==
  /\ {PAGE_SIZE, HEADER_SIZE, GICD_SIZE, GICR_SIZE, CAM_SIZE, ECAM_SIZE} \subseteq Nat \ {0}
  /\ ENTRIES > 2

Region == [address : Nat, size : Nat]
DeviceNode ==
  [compatible : SUBSET STRING, top : BOOLEAN, reg : Seq(Region), type : STRING,
   ranges : Seq(Region), functions : Seq(STRING)]

ASSUME BoardsAssumption ==
  Boards \subseteq
    [platform : {"qemu", "crosvm"}, uart : Region, rtc : Region, image : Region,
     memory : Seq(Region), nodes : Seq(DeviceNode)]

VARIABLES
  board,    \* the platform, where its devices and image are, and the tree
  step,     \* where main is
  n, i,     \* where its loops are: the node or root, and the region or
            \* function of it
  roots,    \* the nodes of the PCI roots found
  mmu,      \* the translation each core uses
  devices   \* VirtIO devices found, by type

bootVars == <<board, step, n, i, roots, mmu, devices>>
vars == <<tableVars, failure, bootVars>>

Steps ==
  {"create", "map_fdt_regions", "map_fdt_node_regions", "find_pci_roots",
   "find_pcie_roots", "map_ranges", "init_gic", "find_virtio_mmio_devices",
   "find_virtio_pci_devices", "shell"}
VirtioTypes == {"Block", "Console", "Socket"}
Cores == {"primary", "secondary"}

TypeOK ==
  /\ PageTableTypeOK
  /\ board \in Boards
  /\ step \in Steps
  /\ n \in Nat \ {0}
  /\ i \in Nat \ {0}
  /\ roots \in Seq(DOMAIN board.nodes)
  /\ mmu \in [Cores -> {"off", "initial", "idmap"}]
  /\ devices \in [VirtioTypes -> Nat]

Init ==
  /\ PageTableInit
  /\ board \in Boards
  /\ step = "create"
  /\ n = 1
  /\ i = 1
  /\ roots = <<>>
  /\ mmu = [c \in Cores |-> IF c = "primary" THEN "initial" ELSE "off"]
  /\ devices = [t \in VirtioTypes |-> 0]

At(s) == step = s /\ failure = "none"
Panic(reason) == failure' = reason /\ UNCHANGED <<step, n, i>>

(* The next step, and the next turn of the outer loop of this one. *)
Goto(s) == step' = s /\ n' = 1 /\ i' = 1
NextTurn == n' = n + 1 /\ i' = 1 /\ UNCHANGED step

-----------------------------------------------------------------------------
(* Regions *)

(* The blocks of the page table that the assembly code starts with.  The   *)
(* high block of QEMU, at half of the table, is at the end of it here.     *)
qemu_initial_idmap ==
  [b \in Index |-> CASE b \in {0, ENTRIES - 1} -> "device"
                     [] b = 1 -> "memory"
                     [] OTHER -> "invalid"]
crosvm_initial_idmap ==
  [b \in Index |-> CASE b \in {0, 1} -> "device"
                     [] b = 2 -> "memory"
                     [] OTHER -> "invalid"]
initial_idmap ==
  IF board.platform = "qemu" THEN qemu_initial_idmap ELSE crosvm_initial_idmap

(* IdMap::size *)
SIZE == PAGE_SIZE * PAGES

End(r) == r.address + r.size

(* Mutant: the end of a region is rounded down. *)
Mutant_fdt_to_pagetable_region(r) ==
  {PageAt(q) : q \in (r.address \div PAGE_SIZE)..((End(r) \div PAGE_SIZE) - 1)}

(* A MemoryRegion starts and ends at page boundaries around the region. *)
fdt_to_pagetable_region(r) ==
  {PageAt(q) : q \in (r.address \div PAGE_SIZE)..((End(r) - 1) \div PAGE_SIZE)}

(* Mutant: devices that are described as primecells only are left out. *)
MutantMappedDevices ==
  {"pci-host-cam-generic", "pci-host-ecam-generic", "arm,gic-v3", "arm,gic-v3-its",
   "arm,pl011", "arm,pl031", "arm,pl061", "ns16550a", "virtio,mmio"}

MappedDevices ==
  {"pci-host-cam-generic", "pci-host-ecam-generic", "arm,gic-v3", "arm,gic-v3-its",
   "arm,pl011", "arm,pl031", "arm,pl061", "arm,primecell", "ns16550a",
   "virtio,mmio"}

is_compatible(node, with) == node.compatible \intersect with # {}

(* The nodes that find_compatible gives, in order. *)
Nodes(with) == {m \in DOMAIN board.nodes : is_compatible(board.nodes[m], {with})}

(* Mutant: one region of the memory node is mapped. *)
MutantMemory == SubSeq(board.memory, 1, 1)

(* The regions of the memory node. *)
Memory == board.memory

(* What map_fdt_node_regions maps of a node. *)
NodeRegions(node) == IF is_compatible(node, MappedDevices) THEN node.reg ELSE <<>>

(* A node of such a device needs to say where the device is. *)
LacksReg(node) == is_compatible(node, MappedDevices) /\ node.reg = <<>>

(* for_fdt_node trims ranges that reach past the page table. *)
Trimmed(r) == [r EXCEPT !.size = Min({@, SIZE - r.address})]

Touched(r) == {PageAt(x \div PAGE_SIZE) : x \in r.address..(End(r) - 1)}

-----------------------------------------------------------------------------
(* What the program is told of its platform.                               *)

Within(r, s) == s.address <= r.address /\ End(r) <= End(s)
InBlock(r, b) ==
  LET size == PAGE_SIZE * (ENTRIES * ENTRIES)
  IN  b * size <= r.address /\ End(r) <= (b + 1) * size

(* The UART and the RTC are at addresses in the first gigabyte; the linker *)
(* scripts place the image in the second or third.                         *)
ASSUME AddressesAssumption ==
  \A b \in Boards :
    /\ InBlock(b.uart, 0) /\ InBlock(b.rtc, 0)
    /\ InBlock(b.image, IF b.platform = "qemu" THEN 1 ELSE 2)

DescribedAs(b, r, with) ==
  \E m \in DOMAIN b.nodes : \E j \in DOMAIN b.nodes[m].reg :
    is_compatible(b.nodes[m], {with}) /\ Within(r, b.nodes[m].reg[j])

(* "We trust that the FDT is accurate": it has the memory that the image   *)
(* is in, and the devices at the platform's addresses, and no device is in *)
(* a page of the image.                                                    *)
ASSUME DeviceTreeAssumption ==
  \A b \in Boards :
    /\ \E j \in DOMAIN b.memory : Within(b.image, b.memory[j])
    /\ DescribedAs(b, b.uart, IF b.platform = "qemu" THEN "arm,pl011" ELSE "ns16550a")
    /\ DescribedAs(b, b.rtc, "arm,primecell")
    /\ \A m \in DOMAIN b.nodes :
         /\ \A j \in DOMAIN NodeRegions(b.nodes[m]) :
              Touched(b.image) \intersect fdt_to_pagetable_region(b.nodes[m].reg[j]) = {}
         /\ \A j \in DOMAIN b.nodes[m].ranges :
              LET r == b.nodes[m].ranges[j]
              IN  r.address < SIZE =>
                    Touched(b.image) \intersect fdt_to_pagetable_region(Trimmed(r)) = {}

-----------------------------------------------------------------------------
(* main *)

(* Platform::create, the console, the logger, the heaps and IdMap::new. *)
create ==
  /\ At("create")
  /\ Goto("map_fdt_regions")
  /\ UNCHANGED <<tableVars, failure, board, roots, mmu, devices>>

(* One region; the result of map_memory or map_device is unwrapped. *)
MapRegion(k, r) ==
  /\ LET pages == fdt_to_pagetable_region(r)
     IN  IF End(r) > SIZE
         THEN failure' = "address" /\ UNCHANGED tableVars
         ELSE IF k = "memory" THEN map_memory(pages)
         ELSE map_device(pages)
  /\ i' = IF failure' = "none" THEN i + 1 ELSE i
  /\ UNCHANGED <<step, n>>

map_fdt_regions ==
  /\ At("map_fdt_regions")
  /\ \/ /\ i <= Len(Memory)
        /\ MapRegion("memory", Memory[i])
     \/ /\ i > Len(Memory)
        /\ Goto("map_fdt_node_regions")
        /\ UNCHANGED <<tableVars, failure>>
  /\ UNCHANGED <<board, roots, mmu, devices>>

(* The nodes of the tree in turn. *)
map_fdt_node_regions ==
  /\ At("map_fdt_node_regions")
  /\ \/ /\ n <= Len(board.nodes)
        /\ i <= Len(NodeRegions(board.nodes[n]))
        /\ MapRegion("device", NodeRegions(board.nodes[n])[i])
     \/ /\ n <= Len(board.nodes)
        /\ i > Len(NodeRegions(board.nodes[n]))
        /\ IF LacksReg(board.nodes[n]) THEN Panic("reg")
           ELSE NextTurn /\ UNCHANGED failure
        /\ UNCHANGED tableVars
     \/ /\ n > Len(board.nodes)
        /\ Goto("find_pci_roots")
        /\ UNCHANGED <<tableVars, failure>>
  /\ UNCHANGED <<board, roots, mmu, devices>>

(* for_fdt_node asserts that the first region has the size of the          *)
(* configuration space.                                                    *)
for_fdt_node(node, cam_size) ==
  IF node.reg # <<>> /\ node.reg[1].size = cam_size
  THEN roots' = Append(roots, n) /\ NextTurn /\ UNCHANGED failure
  ELSE Panic("pci") /\ UNCHANGED roots

FindRoots(compatible, cam_size, next) ==
  /\ \/ n \in Nodes(compatible) /\ for_fdt_node(board.nodes[n], cam_size)
     \/ n \in DOMAIN board.nodes \ Nodes(compatible) /\ NextTurn /\ UNCHANGED <<failure, roots>>
     \/ n > Len(board.nodes) /\ Goto(next) /\ UNCHANGED <<failure, roots>>
  /\ UNCHANGED <<tableVars, board, mmu, devices>>

(* PCI roots are listed before PCIe roots. *)
find_pci_roots ==
  \/ At("find_pci_roots")
     /\ FindRoots("pci-host-cam-generic", CAM_SIZE, "find_pcie_roots")
  \/ At("find_pcie_roots")
     /\ FindRoots("pci-host-ecam-generic", ECAM_SIZE, "map_ranges")

(* The memory ranges of each root; those past the page table are dropped.  *)
map_ranges ==
  /\ At("map_ranges")
  /\ n <= Len(roots)
  /\ LET ranges == board.nodes[roots[n]].ranges
     IN  \/ /\ i <= Len(ranges)
            /\ ranges[i].address < SIZE
            /\ MapRegion("device", Trimmed(ranges[i]))
         \/ /\ i <= Len(ranges)
            /\ ranges[i].address >= SIZE
            /\ i' = i + 1
            /\ UNCHANGED <<tableVars, failure, step, n>>
         \/ /\ i > Len(ranges)
            /\ NextTurn
            /\ UNCHANGED <<tableVars, failure>>
  /\ UNCHANGED <<board, roots, mmu, devices>>

(* Mutant: the ranges are mapped after the page table is activated. *)
MutantActivate ==
  /\ At("map_ranges")
  /\ n = 1 /\ i = 1
  /\ mmu' = [mmu EXCEPT !["primary"] = "idmap"]
  /\ UNCHANGED <<tableVars, failure, board, step, n, i, roots, devices>>

activate ==
  /\ At("map_ranges")
  /\ n > Len(roots)
  /\ Goto("init_gic")
  /\ mmu' = [mmu EXCEPT !["primary"] = "idmap"]
  /\ UNCHANGED <<tableVars, failure, board, roots, devices>>

(* make_gic accepts the first node with a distributor of the right size    *)
(* and redistributors for all cores.                                       *)
GicNode == board.nodes[Min(Nodes("arm,gic-v3"))]

make_gic_ok ==
  /\ Nodes("arm,gic-v3") # {}
  /\ Len(GicNode.reg) >= 2
  /\ GicNode.reg[1].size = GICD_SIZE
  /\ GicNode.reg[2].size >= GICR_SIZE * Cardinality(Cores)

init_gic ==
  /\ At("init_gic")
  /\ IF make_gic_ok
     THEN Goto("find_virtio_mmio_devices") /\ UNCHANGED failure
     ELSE Panic("gic")
  /\ UNCHANGED <<tableVars, board, roots, mmu, devices>>

(* Drivers of three types are made, or fail to be made, which panics;      *)
(* other types are ignored.                                                *)
init_virtio_device(type) ==
  IF type \in VirtioTypes
  THEN \/ devices' = [devices EXCEPT ![type] = @ + 1] /\ UNCHANGED failure
       \/ failure' = "virtio" /\ UNCHANGED devices
  ELSE UNCHANGED <<failure, devices>>

(* A child of the root with a region large enough for a header; a device   *)
(* with ID zero or without a valid header is no more than logged.          *)
HasHeader(node) ==
  /\ node.top
  /\ is_compatible(node, {"virtio,mmio"})
  /\ node.reg # <<>>
  /\ node.reg[1].size >= HEADER_SIZE

find_virtio_mmio_devices ==
  /\ At("find_virtio_mmio_devices")
  /\ n <= Len(board.nodes)
  /\ IF HasHeader(board.nodes[n]) THEN init_virtio_device(board.nodes[n].type)
     ELSE UNCHANGED <<failure, devices>>
  /\ NextTurn
  /\ UNCHANGED <<tableVars, board, roots, mmu>>

init_pci ==
  /\ At("find_virtio_mmio_devices")
  /\ n > Len(board.nodes)
  /\ Goto("find_virtio_pci_devices")
  /\ UNCHANGED <<tableVars, failure, board, roots, mmu, devices>>

(* The VirtIO functions on the bus of each root.  Making a transport may   *)
(* fail for any of them, which panics.                                     *)
find_virtio_pci_devices ==
  /\ At("find_virtio_pci_devices")
  /\ n <= Len(roots)
  /\ LET functions == board.nodes[roots[n]].functions
     IN  \/ /\ i <= Len(functions)
            /\ \/ init_virtio_device(functions[i])
               \/ failure' = "virtio" /\ UNCHANGED devices
            /\ i' = i + 1
            /\ UNCHANGED <<step, n>>
         \/ /\ i > Len(functions)
            /\ NextTurn
            /\ UNCHANGED <<failure, devices>>
  /\ UNCHANGED <<tableVars, board, roots, mmu>>

shell ==
  /\ At("find_virtio_pci_devices")
  /\ n > Len(roots)
  /\ Goto("shell")
  /\ UNCHANGED <<tableVars, failure, board, roots, mmu, devices>>

(* A secondary core starts on the initial map; activate_secondary asserts  *)
(* that the primary core has activated the page table.                     *)
cpu_on ==
  /\ At("shell")
  /\ mmu["secondary"] = "off"
  /\ mmu' = [mmu EXCEPT !["secondary"] = "initial"]
  /\ UNCHANGED <<tableVars, failure, board, step, n, i, roots, devices>>

activate_secondary ==
  /\ At("shell")
  /\ mmu["secondary"] = "initial"
  /\ mmu["primary"] = "idmap"
  /\ mmu' = [mmu EXCEPT !["secondary"] = "idmap"]
  /\ UNCHANGED <<tableVars, failure, board, step, n, i, roots, devices>>

cpu_off ==
  /\ At("shell")
  /\ mmu["secondary"] = "idmap"
  /\ mmu' = [mmu EXCEPT !["secondary"] = "off"]
  /\ UNCHANGED <<tableVars, failure, board, step, n, i, roots, devices>>

Next ==
  \/ create \/ map_fdt_regions \/ map_fdt_node_regions \/ find_pci_roots
  \/ map_ranges \/ activate
  \/ init_gic \/ find_virtio_mmio_devices \/ init_pci
  \/ find_virtio_pci_devices \/ shell
  \/ cpu_on \/ activate_secondary \/ cpu_off

Spec == Init /\ [][Next]_vars

-----------------------------------------------------------------------------
(* Properties *)

Translated(c, p) == IF mmu[c] = "initial" THEN initial_idmap[p[1]] ELSE Lookup(p)

(* Devices that core c may access in this state. *)
DevicesUsed(c) ==
  {board.uart}
    \union (IF step = "shell" THEN {board.rtc} ELSE {})
    \union (IF step \in {"find_virtio_mmio_devices", "find_virtio_pci_devices", "shell"}
                /\ mmu[c] = "idmap"
            THEN {GicNode.reg[1], GicNode.reg[2]} ELSE {})
    \union (IF step = "find_virtio_mmio_devices" /\ n <= Len(board.nodes)
            THEN {node.reg[1] : node \in {m \in {board.nodes[n]} : HasHeader(m)}} ELSE {})
    \union (IF step \in {"find_virtio_pci_devices", "shell"} /\ c = "primary"
            THEN {board.nodes[roots[k]].reg[1] : k \in DOMAIN roots} ELSE {})

(* "The page table maps all the memory we use": on every core that runs,   *)
(* through the initial map and through the page table, the image, its      *)
(* stacks and its heap stay mapped as memory.                              *)
ImageMapped ==
  \A c \in Cores : mmu[c] # "off" =>
    \A p \in Touched(board.image) : Translated(c, p) = "memory"

(* Every device that a core accesses, at addresses fixed by the platform   *)
(* or read from the device tree, is mapped as a device by the translation  *)
(* in use at that time, also when the core panics.                         *)
DevicesMapped ==
  \A c \in Cores : mmu[c] # "off" =>
    \A r \in DevicesUsed(c) : \A p \in Touched(r) : Translated(c, p) = "device"

(* "We keep it until the end of the program": main has mapped everything   *)
(* when it activates the page table, and nothing changes the table while a *)
(* core uses it; a change would need descriptors to be broken before they  *)
(* are made again and the TLBs of all cores to be invalidated.             *)
LiveTableKept == [][(\E c \in Cores : mmu[c] = "idmap") => UNCHANGED tableVars]_vars
=============================================================================
