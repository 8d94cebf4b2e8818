------------------------------- MODULE MCBoot -------------------------------
(***************************************************************************)
(* Instances of Boot for TLC: the maps of the two platforms, scaled down   *)
(* to tables of 3 entries of 18 units, with device trees in the manner of  *)
(* theirs.                                                                 *)
(***************************************************************************)
EXTENDS Boot

Reg(a, s) == [address |-> a, size |-> s]

Node(compatible, top, reg) ==
  [compatible |-> compatible, top |-> top, reg |-> reg, type |-> "none",
   ranges |-> <<>>, functions |-> <<>>]

VirtioNode(top, reg, type) ==
  [Node({"virtio,mmio"}, top, reg) EXCEPT !.type = type]

PciNode(compatible, reg, ranges) ==
  [Node({compatible}, TRUE, <<reg>>) EXCEPT
     !.ranges = ranges, !.functions = <<"other", "Socket">>]

GicNodes ==
  {Node({"arm,gic-v3"}, TRUE, <<Reg(6, 2), Reg(8, 4)>>),
   Node({"arm,gic-v3"}, TRUE, <<Reg(6, 2), Reg(8, 7)>>),
   Node({"arm,gic-v3"}, TRUE, <<Reg(6, 2), Reg(8, 2)>>),
   Node({"arm,gic-v3-its"}, TRUE, <<Reg(8, 2)>>)}

(* Two transports share a page; one is not a child of the root, one is too *)
(* small, one has no region.                                               *)
VirtioLists ==
  {<<VirtioNode(TRUE, <<Reg(16, 1)>>, "Block"),
     VirtioNode(TRUE, <<Reg(17, 1)>>, "zero")>>,
   <<VirtioNode(TRUE, <<Reg(16, 3)>>, "Console"),
     VirtioNode(FALSE, <<Reg(50, 1)>>, "Socket")>>,
   <<VirtioNode(TRUE, <<Reg(17, 0)>>, "none")>>,
   <<VirtioNode(TRUE, <<>>, "none")>>,
   <<>>}

(* Ranges within, across and past the end of the page table; a root whose  *)
(* configuration space has the wrong size.                                 *)
QemuPci ==
  {<<PciNode("pci-host-ecam-generic", Reg(40, 3),
             <<Reg(2, 1), Reg(44, 20), Reg(60, 4)>>)>>,
   <<PciNode("pci-host-cam-generic", Reg(41, 2), <<Reg(44, 10)>>)>>}

CrosvmPci ==
  {<<PciNode("pci-host-cam-generic", Reg(22, 2), <<Reg(25, 8), Reg(50, 9)>>)>>,
   <<PciNode("pci-host-ecam-generic", Reg(22, 2), <<>>)>>,
   <<>>}

(* A node that is ignored, and a device past the end of the page table. *)
Others == {<<Node({"cfi-flash"}, TRUE, <<Reg(0, 60)>>)>>,
           <<Node({"arm,pl061"}, FALSE, <<Reg(52, 4)>>)>>}

QemuDevices ==
  <<Node({}, TRUE, <<>>),
    Node({"arm,pl011", "arm,primecell"}, TRUE, <<Reg(12, 2)>>),
    Node({"arm,pl031", "arm,primecell"}, FALSE, <<Reg(14, 1)>>)>>

CrosvmDevices ==
  <<Node({"ns16550a"}, TRUE, <<Reg(0, 1)>>),
    Node({"arm,primecell"}, TRUE, <<Reg(4, 1)>>)>>

NodeLists(fixed, pci) ==
  {fixed \o <<g>> \o v \o p \o o :
     g \in GicNodes, v \in VirtioLists, p \in pci, o \in Others}

QemuBoards ==
  {[platform |-> "qemu", uart |-> Reg(12, 2), rtc |-> Reg(14, 1),
    image |-> Reg(20, 5), memory |-> m, nodes |-> nodes] :
     m \in {<<Reg(18, 20)>>, <<Reg(31, 4), Reg(19, 8)>>},
     nodes \in NodeLists(QemuDevices, QemuPci)}

CrosvmBoards ==
  {[platform |-> "crosvm", uart |-> Reg(0, 1), rtc |-> Reg(4, 1),
    image |-> Reg(42, 3), memory |-> <<Reg(40, 9)>>, nodes |-> nodes] :
     nodes \in NodeLists(CrosvmDevices, CrosvmPci)}

MCBoards == QemuBoards \union CrosvmBoards
=============================================================================
