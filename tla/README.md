# Verification of osdemo

TLA+ models of the aarch64 OS demo in `src/`, TLC runs that check them on small
instances, and TLAPS proofs, for all sizes, of every safety invariant, action
property and refinement that the passing runs check.

## The system

osdemo boots one core, maps memory, sets up the interrupt controller (GICv3)
and PCI, and runs a shell on a serial console. There is no scheduler: the only
concurrency is between the thread of a core and its own interrupts, between
cores, and between the cores and devices.

| Part | State | Operations | What is hard |
|---|---|---|---|
| `interrupts.rs`, `exceptions.rs` | shared and per-core handler tables; GIC enable, pending, active, running priority | set/remove handlers, `handle_irq`, `init_gic`, `secondary_init_gic` | an IRQ between any two thread steps; a handler missing when its interrupt is taken; interrupts never ended |
| `apps/cpus.rs`, `secondary_entry.rs` | PSCI state, stacks, loop positions | `start_cpu`, `sgi`, `secondary_entry`, `secondary_irq_handler` | check then act on the core's state; SGIs during set-up and clean-up; state that survives power-off |
| `console.rs`, `drivers*` | the UART's receive buffer | `read`, `handle_irq` | wake-up lost between the check and `wfi` |
| `apps/alarm.rs` | `ALARM_FIRED`, RTC registers | `irq_setup`, `irq_handle`, `irq_finish`, `alarm`, `irq_remove` | an interrupt left active across commands; the old alarm racing the new one |
| `apps/shell.rs`, `main.rs` | the line, the point of the boot | `main`, `read_line`, commands, `power_off` | order of enabling, registering and unmasking |
| `pci.rs` | ranges, three address pools, BARs, command registers | `for_fdt_node`, `map_ranges`, `PciBarAllocator`, `allocate_bars` | boundaries of 32 bits and of the page table; fallback between pools |
| `pagetable.rs` | page tables, ten pages of heap | `map_*`, `activate` | exhaustion, overlapping regions, splitting of blocks |
| `main.rs`, `platform*` | the translation in use on each core | boot, `map_fdt_regions`, `initial_idmap`, `setup_gic` | something in use that one of the two translations does not map |
| `virtio.rs`, `devices.rs` | device lists, DMA buffers | discovery, `dma_alloc` | drivers that fail to start |
| `apps/shell.rs`, `vcat` | connections, queue of events, typed bytes | connect, send, poll, receive | events and input in any order; what is left for the next `vcat` |
| `cpus.rs` | per-core elements, borrowed without a lock | `mpidr_to_cpu_index`, `core_index` | unknown or duplicate MPIDR; aliasing |
| `logger.rs`, and all statics | console, handler table, GIC, heap and stack locks | logging, panic, everything that locks | locks taken in handlers and in panics |

Correctness, in short: no interrupt finds a missing handler; a live stack is
never shared or overwritten; input and alarms are delivered; enabled PCI windows
are disjoint, mapped and reachable; cores do not wait for each other for ever;
what a core touches is mapped.

## Modules

- `Interrupts`: handler tables, dispatcher and, external, the GIC. An IRQ that
  is due is taken between any two steps of the thread, not necessarily the next
  two: the architecture promises finite time only. One IRQ, acknowledgement to
  return, is one step, because the handler runs with exceptions masked; so is a
  section under `exception_free`. An interrupt is signalled if enabled, pending
  (latched or by level), not active, and of higher priority than everything
  acknowledged and not ended.
- `SecondaryCpus` (extends `Interrupts`): `start_cpu` in four steps, `sgi`,
  exit, and a secondary core's life from CPU_ON to CPU_OFF. Loops over SGIs take
  one step per turn. CPU_OFF resets the core and its CPU interface (`masked`,
  `ready`, `running`); its redistributor (`enabled`, `pending`, `active`) keeps
  its state. PSCI calls may fail: an error of `affinity_info` or of CPU_OFF
  panics, one of CPU_ON is printed, and a CPU_OFF that returns without one
  leaves the core in the endless loop at the end of `secondary_entry`
  (`halted`).
- `Console`, `Alarm` (extend `Interrupts`) and `PrimaryCore`, which composes
  them with boot and shell. `pc` labels are named after the next call. The
  platform's `setup_gic` enables the console's interrupt in one step and
  registers its handler in the next. Reading a byte may fail (`read_error`), and
  the read that empties a level-triggered UART may withdraw an IRQ on its way to
  the core, for which `handle_irq` then has no interrupt to acknowledge and
  panics (`irq_withdrawn`).
- `AlarmClock`: what the alarm command promises: a clock that rings for alarms
  that were set and are due, once. `Alarm` refines it: its alarms are the times
  written to the match register and neither reported nor replaced (`awaited`),
  and it rings from `irq_handle` until `irq_finish` has cleared the RTC. As an
  IRQ may be taken late, an alarm that is due can still ring when the next one
  has been set.
- `PciBars`: one PCI root, from device tree ranges to enabled functions; reading
  a function's BARs may fail, which panics. The buddy allocator is external:
  maximal aligned blocks, best fit. The sizes of blocks are a constant, 2^0 to
  2^63 in the crate.
- `CoreLifecycle`: what starting a core promises, in one step. `SecondaryCpus`
  refines it: `Life` maps a core to the argument it was started with.
- `Locks`: every function as the sequence of what it does to locks and to the
  exception mask, built as its body calls others; cores run these one
  instruction at a time, an IRQ puts a handler in front, a panic replaces the
  rest. Where a result is unwrapped while a lock is held, the panic leaves the
  lock taken. The other modules treat a critical section as one step; this one
  is about the sections.
- `PerCore`: masking of the MPIDR, byte by byte, lookup of a core's index, and
  the borrows of its element of `PRIVATE_IRQ_HANDLERS` by thread and by handler.
  The ID of a core in the device tree consists of its affinity fields by the
  binding, not by the mask.
- `FlatMap`: a map from pages to kinds, with one operation. `PageTable` refines
  it with three levels of tables, blocks that are split, and a heap of tables.
- `Boot` (extends `PageTable`): `main` up to the shell and the start of a
  secondary core, with the device tree as a constant and the initial page table
  of each platform; discovery of VirtIO devices, where making a transport or a
  driver may fail. A device to be mapped whose node has no `reg` panics. Each
  loop of `main` takes one step per turn: `n` is its node or PCI root, `i` the
  region or function of it.
- `Vcat`: the `vcat` command with, external, the connection manager, the
  device's queue and the peers. Every call of the manager that is unwrapped,
  the condition of the receiving loop included, may find the connection gone.
- `Session`: one peer at a time, whose bytes are all shown before the session
  is over. `Vcat` refines it: the session is open from the return of connect to
  that of `vcat`, and the queue and the ring buffer are hidden.
- `*Proofs`: theorems.
- `MC*`: instances for TLC.

Definitions whose names start with `Mutant` are deliberately wrong versions of
the definition that follows; each makes one property fail.

Variables `missed`, `awaited`, `launched`, `early` and, in `Locks`, `failed` are
history only: no guard reads them. `unshown` in `Vcat` is read by the external
peer alone, which keeps within the buffer it was told of.

### Assumptions about hardware

These are not in the repository and results depend on them:

- SPIs are delivered to the primary core; `SgiTarget::All` excludes the sender
  and latches the SGI in cores that are off.
- An SGI left active stays active over a power cycle of the core.
- EOI both drops priority and deactivates, after the device has seen the writes
  before it: a handler that clears its device does not meet the level again.
- Only a level can be withdrawn before it is acknowledged; what is latched
  waits.
- The UART raises its receive interrupt when it stops being empty, not for every
  byte. The PL011 then drives a level until cleared or drained; the 16550 makes
  one edge.
- The RTC sets its raw status when the count equals the match register, also on
  writing it. Both platforms are taken to have the PL031 that the driver is for,
  although a comment of `crosvm.rs` names a PL030.
- `wfi` may return with no IRQ taken.
- A core powered on starts on the initial page table with exceptions masked.

And about crates:

- `exception_free` saves and restores the mask; `Lazy` makes its value in the
  first user while others wait; locks are not fair.
- `map_range` never joins tables back into blocks, splits a block by copying it
  to all entries of a new table, and allocates tables as it goes.
- The connection manager drops events of connections it does not have, keeps a
  connection that was shut down until its data was read, and fails a send that
  exceeds the credit.

## Runs

| Run | Result | Shows |
|---|---|---|
| `secondary_cpus` | pass | stacks stay intact, at most one SGI is taken per power-on, and a missing handler is met only after an early return of `wfi` |
| `secondary_cpus_live` | pass | the steps of `start_cpu` implement `CoreLifecycle`; a core keeps its stack; a started core reaches `wfi`; an SGI the core never took before stops it if it sleeps |
| `primary_core` | pass | QEMU: flag, RTC and GIC agree, and the alarm implements `AlarmClock`; sleeping on data needs an interrupt in one window; handlers are missing only after `irq_remove` |
| `primary_core_live` | pass | crosvm: a byte that finds the shell asleep is read although an alarm is unfinished; an alarm set with the interrupt inactive is reported |
| `lost_wakeup` | violation | input that arrives just before `wfi` does not end the wait |
| `lost_alarm` | violation | an alarm set while the previous one fires behind `irq_finish` is not reported |
| `pci_bars` | pass | windows are aligned, disjoint, mapped, reachable and kept out of prefetchable ranges |
| `locks` | pass | unless the logger's own write fails, no set of cores waits within itself, and only a core that is starting waits for one that has halted; a core that is off holds no lock |
| `per_core` | pass | borrows of per-core elements never conflict; every listed core finds its index, whatever else its MPIDR holds |
| `page_table` | pass | the page table implements `FlatMap`; a region takes at most four new tables |
| `boot` | pass | image and devices are mapped, as what they are, by the translation each core uses at the time; the page table does not change while it is in use |
| `vcat` | pass | the command implements `Session`; everything received is shown; no connection is left; of the unwraps only credit can fail; a disconnect ends the command |

Deadlock checking is off in every run: the system may power off or panic, and a
PCI bus is set up once. `NoDeadlock` says what TLC's check could not: that no
part of the system is stuck while the rest runs.

### What the passing properties do not say

- `UnexpectedIrqOnlyAfterEarlyWake` allows a panic after an early `wfi`.
  `UnexpectedIrqOnlyAtExit` allows one for an alarm after `irq_remove`.
- `FreshSgiStopsCore` excludes a core that took its SGI before `wfi` and one
  whose SGI is still active from an earlier power-on. In both cases the model
  has the core sleep until `wfi` returns early.
- `AlarmReportedIfFinished` needs the alarm to be still ahead of the clock when
  it is set. `alarm` accepts a negative delay, and a clock that passes the match
  between `get_time` and `set_match` has the same effect: the RTC never gets to
  the match. Both are in the model.
- `AlarmClockSpec` lets such an alarm stay silent. It says nothing of how late
  an alarm may ring.
- `NoDeadlock` and `HaltedCoreStopsOnlyStarting` exclude states after a panic
  with the console locked. The logger's `unwrap` is the only such place: the
  panic handler then waits for its own core.
- `HaltedCoreStopsOnlyStarting` leaves one case, which the model has: a
  secondary core that cannot enable an SGI panics with the GIC's guard, and if
  SYSTEM_OFF fails too, every core that starts later waits for the GIC for ever.
- `WindowsDisjoint` holds also after a panic for want of space, for the
  functions enabled by then; it does not say that there is space.
- `ConnectionThere` allows the panic of a send without credit, which typing
  before the peer accepts leads to.
- `DevicesMapped` takes the addresses fixed by the platform to be those of
  devices that the device tree lists. It does not cover the device tree itself,
  which the loader may put anywhere in memory.
- `TablesPerRegion` bounds one region. Whether a given device tree fits the ten
  pages depends on it; `boot` has trees that do not.
- `lost_wakeup` and `lost_alarm` have fair cores and clock; neither requires
  another byte to arrive or `wfi` to return early.

### Bounds

- Secondary cores: two, two SGIs, two arguments and two stacks (one in the live
  run, so that memory runs out). Two cores can conflict over a stack, and two
  SGIs can conflict over priority and half-removed handlers. The safety results
  are proved for all sizes. Symmetry of cores and stacks is used only in the
  safety run.
- Primary core: a clock of four seconds, delays of -2, 0 and 2, a receiver of
  one or two bytes, lines of one or two characters. This leaves room for one
  alarm to expire while another is being set, for a full receiver and for a full
  line. Time stops at `RTC_MAX`; a longer history of alarms is not explored.
- PCI: 32 bits end at 7, the page table at 14, blocks of up to 16; two functions
  of two BARs, eight kinds of BAR, four lists of ranges with one that ends at
  each boundary, crosses it, is beyond it, is translated, or is I/O.
- Locks: three cores, so that cycles of three and of two beside a third can
  form; the secondaries are symmetric. Nesting of handlers is not bounded: one
  is enough, as they run masked.
- Per-core: three cores whose IDs share fields and whose MPIDRs have bits set
  outside them, and all lists of up to four of their IDs, with omissions and
  duplicates.
- Page table: two entries per table, every region of pages, and a heap of six
  tables of the seven that could be used, so that a region could take five new
  ones and the heap can run out. All that is checked is also proved for all
  sizes.
- Boot: three entries per table, enough for the kinds of block in the initial
  maps; device trees vary in memory, GIC, VirtIO and PCI nodes, with regions
  that end inside a page or reach beyond the table, and PCI roots of the wrong
  size.
- `vcat`: two peers, a buffer smaller than the ring buffer, so that receiving
  takes several turns, a queue of three events, credit of at most two.

### Fairness

Weak fairness of each core's thread, of taking IRQs, of the firmware's power-up
and, for alarms, of the clock: a running core executes instructions and the
hardware delivers what is signalled. The RTC's IRQ gets strong fairness: it is
not signalled while the console's, of higher priority, is handled, but a byte
takes longer to arrive than to handle, so it gets its turn. `vcat` is assumed to
run on while it is in its loop, which polls and never waits. None is assumed of
the user, of incoming bytes, of peers or of early returns of `wfi`.

## Proofs

`SecondaryCpusProofs` proves, for any cores, SGI count up to 16, stacks and
arguments, from `InterruptsAssumption` (interrupt numbers are distinct and SPIs
start at 32) and `SecondaryCpusAssumption`: `TypeCorrect`, `NoUnexpectedIrq`,
`AtMostOneSgi`, `StackIntegrity` and `StacksAreKept`.

They rest on one inductive invariant, `IInv`. The properties alone are not
inductive; what is added:

- `IdsSeparate`: private handlers are for SGIs, shared ones for SPIs, and
  secondary cores see only SGIs;
- `HandlersCover`: a core is masked until all handlers are set, and past `wfi`
  it has either taken an SGI or woken early;
- `PsciAgrees`: PSCI's state matches the core's, and the core that `start_cpu`
  works on stays off between the check and CPU_ON, as only the primary starts
  cores;
- `StacksSeparate`: no two cores share a stack.

The central step is `QuietWhileRunning`: a core with an un-ended SGI is
signalled nothing, all SGIs having one priority. So removing handlers with IRQs
unmasked is safe after a real wake-up.

`StartIsAtomic` proves the refinement of `CoreLifecycle`. It goes through
`launched`: while the invariant holds, `Life` is what `launched` says of each
core, and every step changes that of one core at most.

`PrimaryCoreProofs` proves `TypeCorrect`, `HandlersRegistered`, `AlarmAgrees`,
`OnlyWindow` and `AlarmIsClock`, for all sizes of clock, receiver and line, all
delays, and both triggers. Its invariant adds

- `HandlersReady`: the core is masked during boot and can be signalled both
  interrupts after it; an enabled interrupt has its handler until `irq_remove`,
  but for the step of `setup_gic` between the two, where IRQs are masked;
- `RtcAgrees`: the RTC's output follows its registers, which are at rest before
  the first alarm; only the RTC's interrupt is ever left un-ended; while
  `irq_finish` runs the GIC holds it;
- `WaitsOnDataOnlyIfMissed`: with data in the receiver, at `wfi` or one step
  before it, the interrupt is due or was missed in the window.

Preservation is proved one conjunct at a time. `AlarmIsClock`, the refinement of
`AlarmClock`, needs one more invariant, `AlarmsAwaited`: the match that the RTC
is yet to reach was set by a command, and so was some alarm that is due whenever
the RTC's status is raised and unreported. Most actions leave the
clock, the RTC and the flag alone (`LeavesAlarm`), and the handler of the RTC's
interrupt is the only one that rings.

`PageTableProofs` proves `PageTableTypeCorrect` and `PageTableIsFlat` for any
size of tables and heap. Each call changes `Lookup` for the pages of its region
and for no others; the cases are a block that is kept, replaced, split at the
first level, at the second, or at both. Type correctness is what excludes a
page that translates to a table. `RegionTakesFewTables` is `TablesPerRegion`: a
call makes a table only of an entry whose block has pages inside and outside
the region; as pages are numbered in the order of the entries, such a block has
the first page of the region or the last, so there are at most two per level.

`PerCoreProofs` proves `PerCoreTypeCorrect`, `BorrowsExclude` and
`ListedCoresFound` for any cores with distinct affinity fields and any lists.
`MaskKeepsAffinity` shows that masking an MPIDR yields the ID of the core in the
device tree, whatever the bytes between and above the affinity fields. The
invariant ties each borrow to the position of that ID, which two cores cannot
share, and to the exception mask.

`LocksProofs` proves `LocksNoDeadlock`, `HaltedCoreLeavesOthers`,
`IdleCoreLeavesLocks` and `LocksTypeCorrect` for any number of cores. What a
core has left to do is a sequence of any length, so the invariant cannot list
the cases. Instead it says that the rest of each core's program can be
annotated: with the depth of `exception_free`, the locks held, how far the boot
is, and the core about to be started, such that each instruction is allowed
where it stands (`May`) and the first annotation is what the core really holds.
Every function of the code is shown once to lead from its first annotation to
its last (`Runs`), and programs compose, so a step only drops the first
instruction, or puts a handler or a panic in front. Deadlock freedom then
follows from what `May` demands of a lock taken (`MayTake`): the console's lock
comes last, so its holder does not wait; for any other lock a secondary core
asks only while it holds none, so the holder that a core waits for is the
primary core or does not wait, and the primary core never takes a lock that it
holds. A secondary core that has panicked may hold the GIC's lock, and asks for
nothing but the console's; the primary core asks for the GIC's only while it
boots, before any other core runs, so that of those who wait for a halted core
all are starting. A core with nothing left to do has the last annotation, which
has no locks: that is `IdleCoreLeavesLocks`.

`PciBarsProofs` proves `BarWindowsDisjoint`, `BarWindowsMapped`,
`Bars32Reached`, `PrefetchableBarsApart` and `PciTypeCorrect` for any ranges,
BARs and numbers of functions and slots. The invariant is about blocks: free
blocks and assigned windows are aligned to their sizes, lie in a range that
belongs to their pool, and no two overlap; what is mapped is the union of the
memory ranges; BARs already passed have an address. The work is in the
allocator: splitting a block keeps alignment because sizes divide each other,
and that its blocks never overlap rests on maximality, where the least
counterexample comes from well-foundedness of the naturals. It assumes

- `BlockSizesAssumption`: positive sizes, of which the double of any but the
  largest is one and divides all larger ones, as powers of two do;
- `RootRangesAssumption`: memory ranges of a root do not overlap, and a range of
  32-bit memory ends within 32 bits on the bus, both of which a PCI host bridge
  needs to decode addresses;
- `BarInfosAssumption`: BARs have sizes that are sizes of blocks, or zero.

`BootProofs` proves `ImageStaysMapped`, `DevicesStayMapped`,
`TableStaysAsActivated` and `BootTypeCorrect` for page tables of any size, any
page heap and all boards. The invariant says which regions the loops have
passed, and that these are still mapped as what they are: mapping a device
changes no page of the image, and nothing is mapped as memory after the first
device. What a core uses on the page table is then traced to a node whose
compatible string is in the list of `map_fdt_node_regions`, and what it uses
before that to a block of the initial map. `MapRangeLookup` of `PageTableProofs`
gives the effect of one call. It assumes

- `AddressesAssumption`: UART and RTC lie in the first gigabyte and the image in
  the second (QEMU) or third (crosvm), as the platforms' constants and the
  linker scripts say;
- `DeviceTreeAssumption`, what the code calls an accurate device tree: some
  memory region contains the image, the UART and the RTC are described as such,
  and no device or PCI range shares a page with the image.

That device regions end within the page table, that PCI roots and the GIC have
the regions used, and that the heap suffices are not assumed: `main` panics
otherwise, before the page table is activated or the device is used.

`VcatProofs` proves `VcatLeavesNoConnection`, `VcatShowsAll`,
`VcatFindsConnection`, `VcatTypeCorrect` and `VcatIsSession` for any peers,
buffers, credit and length of the queue. Its invariant is a pair of states of
the whole: between commands the manager, the queue and the peers are at rest
(`Quiet`); during one there is exactly the connection to the chosen peer, the
bytes sent and not yet shown are those in its ring buffer and in the queue, and
a disconnection is the last event of the queue (`Busy`). The sum over the queue
is a sequence of partial sums, as the prover has no induction over data.
`VcatIsSession` follows from it step by step: moving data from the queue to the
ring buffer is a stutter, a read takes no more than is on its way, and the
return finds nothing left.

`AllShown` (`VcatShowsAll`) is proved and in no run, as `SessionSpec`, which a
run checks, implies it.

Only model-checked is liveness (`StartedCoreWaits`, `FreshSgiStopsCore`,
`ByteDuringWaitDelivered`, `AlarmReportedIfFinished`, `DisconnectReturns`): the
prover has no rules for fairness.

## Not modelled

- The encoding of the device tree, the contents of output, and the commands
  that only print (`help`, `date`, `dtdump`, `lsdev`, `lspci`, `cpus`).
- The synchronous, FIQ and SError vectors, which print and panic.
- `VirtioHal` (`dma_alloc`, `share` and their inverses): an identity map over
  the global allocator, with no state of its own.
- Sizes of the global heap: an allocation may fail anywhere (`Locks`), but when
  is not said.
- Exception levels: attributes differ at EL1 and EL2 in encoding only.
- After a panic, `SecondaryCpus`, `PrimaryCore`, `Boot` and `Vcat` stop; only
  `Locks` follows the other cores after a failed SYSTEM_OFF.
- `SecondaryCpus` and `PrimaryCore` are not composed: console and RTC
  interrupts do not interleave with `start_cpu`. They share the handler table
  and the GIC, by disjoint interrupt numbers, and the locks, which `Locks` has.
- Linker scripts and build configuration.
