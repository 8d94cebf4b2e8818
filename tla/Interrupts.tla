----------------------------- MODULE Interrupts -----------------------------
(***************************************************************************)
(* The interrupt layer shared by every other component: the tables of IRQ  *)
(* handlers and the dispatcher of src/interrupts.rs, the IRQ exception     *)
(* vector of src/exceptions.rs, and, marked external, the part of the      *)
(* GICv3 (crate arm-gic and the hardware) that the code relies on.         *)
(*                                                                         *)
(* A core runs one thread, whose position is pc[c].  An IRQ can be taken   *)
(* between any two steps of the thread of an unmasked core.  A handler     *)
(* runs with exceptions masked and under the locks of its tables, so one   *)
(* IRQ, from acknowledgement to the return from the exception, is one      *)
(* step.  A critical section under exception_free is one step too.  The    *)
(* architecture promises that an unmasked IRQ is taken in finite time, not *)
(* at once: the thread may get several steps further first.                *)
(***************************************************************************)
EXTENDS Naturals

CONSTANTS
  Cores,        \* the cores of the device tree's cpus node
  Primary,      \* the core that boots and runs the shell
  SGI_COUNT,    \* IntId::SGI_COUNT, 16 on a GIC
  CONSOLE_IRQ,  \* PlatformImpl::CONSOLE_IRQ
  RTC_IRQ       \* PlatformImpl::RTC_IRQ

(* IntId::sgi(n) is n and IntId::spi(n) is 32 + n. *)
ASSUME InterruptsAssumption ==
  /\ Primary \in Cores
  /\ SGI_COUNT \in 1..16
  /\ CONSOLE_IRQ \in Nat /\ CONSOLE_IRQ >= 32
  /\ RTC_IRQ \in Nat /\ RTC_IRQ >= 32
  /\ CONSOLE_IRQ # RTC_IRQ

Secondaries == Cores \ {Primary}
Sgis == 0..(SGI_COUNT - 1)
Spis == {CONSOLE_IRQ, RTC_IRQ}
IntIds == Sgis \union Spis

VARIABLES
  system,   \* "up", "off" after power_off, or the reason of a panic
  pc,       \* where the thread of each core is
  masked,   \* PSTATE.I of each core
  ready,    \* is the CPU interface open: group 1 enabled, priority mask 0xff
  enabled,  \* interrupts enabled for each core in the GIC
  pending,  \* interrupts latched as pending for each core (SGIs, edges)
  line,     \* level-sensitive inputs that are asserted, by target core
  active,   \* acknowledged and not yet deactivated
  running,  \* acknowledged by this core since its reset, priority not dropped
  shared,   \* keys of SHARED_IRQ_HANDLERS
  private   \* keys of PRIVATE_IRQ_HANDLERS, by core

gicVars == <<ready, enabled, pending, line, active, running>>
irqVars == <<system, pc, masked, gicVars, shared, private>>

Panics == {"unexpected_irq", "handler_exists", "no_memory", "psci_error",
           "line_too_long", "alarm_time", "console_error", "no_interrupt"}

InterruptsTypeOK ==
  /\ system \in {"up", "off"} \union Panics
  /\ masked \in [Cores -> BOOLEAN]
  /\ ready \in [Cores -> BOOLEAN]
  /\ enabled \in [Cores -> SUBSET IntIds]
  /\ pending \in [Cores -> SUBSET IntIds]
  /\ line \in [Cores -> SUBSET IntIds]
  /\ active \in [Cores -> SUBSET IntIds]
  /\ running \in [Cores -> SUBSET IntIds]
  /\ shared \in SUBSET IntIds
  /\ private \in [Cores -> SUBSET IntIds]

-----------------------------------------------------------------------------
(* The GIC. *)

(* Mutant: SGIs of different priorities. *)
MutantSgiPriority(i) == IF i = CONSOLE_IRQ THEN 16 ELSE 128 - i

(* Mutant: the console has the priority of the rest. *)
MutantFlatPriority(i) == 128

(* The priorities the code gives: 0x10 to the console, 0x80 to the rest. *)
Priority(i) == IF i = CONSOLE_IRQ THEN 16 ELSE 128

(* Interrupts the CPU interface of core c signals: enabled, pending, not   *)
(* active, and of a higher priority (a lower number) than everything the   *)
(* core has acknowledged and not ended.                                    *)
Signalled(c) ==
  IF ready[c]
  THEN {i \in enabled[c] \intersect (pending[c] \union line[c]) :
          /\ i \notin active[c]
          /\ \A j \in running[c] : Priority(i) < Priority(j)}
  ELSE {}

(* What GicCpuInterface::get_and_acknowledge_interrupt may return. *)
Acknowledgeable(c) ==
  {i \in Signalled(c) : \A j \in Signalled(c) : Priority(i) <= Priority(j)}

(* The thread of core c executes the code at label l. *)
At(c, l) ==
  /\ system = "up"
  /\ pc[c] = l

Goto(c, l) == pc' = [pc EXCEPT ![c] = l]

(* GicCpuInterface::end_interrupt, with EOI mode 0: drops the running      *)
(* priority and deactivates.                                               *)
end_interrupt(c, i) ==
  /\ active' = [active EXCEPT ![c] = @ \ {i}]
  /\ running' = [running EXCEPT ![c] = @ \ {i}]

(* SgiTarget::All: every core but the sender, powered or not, latches i. *)
send_sgi(c, i) ==
  pending' = [d \in Cores |-> IF d = c THEN pending[d] ELSE pending[d] \union {i}]

(* gic.enable_interrupt for a set of interrupts of core c. *)
enable_interrupts(c, S) ==
  enabled' = [enabled EXCEPT ![c] = @ \union S]

-----------------------------------------------------------------------------
(* The handler tables.  Each operation runs under exception_free; setting  *)
(* a handler panics when the other table has one.                          *)

Panic(reason) == system' = reason

set_shared_irq_handler(c, i) ==
  /\ system' = IF i \in private[c] THEN "handler_exists" ELSE system
  /\ shared' = IF i \in private[c] THEN shared ELSE shared \union {i}

remove_shared_irq_handler(i) == shared' = shared \ {i}

set_private_irq_handler(c, i) ==
  /\ system' = IF i \in shared THEN "handler_exists" ELSE system
  /\ private' = IF i \in shared
                THEN private
                ELSE [private EXCEPT ![c] = @ \union {i}]

remove_private_irq_handler(c, i) == private' = [private EXCEPT ![c] = @ \ {i}]

-----------------------------------------------------------------------------
(* The dispatcher. *)

(* irq_current: core c takes an IRQ and acknowledges i.  A level-sensitive *)
(* input stays pending for as long as it is asserted; what is latched as   *)
(* pending stays until it is acknowledged, so that only a level can be     *)
(* withdrawn before handle_irq gets to acknowledge it (see Console).       *)
irq_current(c, i) ==
  /\ system = "up"
  /\ ~masked[c]
  /\ i \in Acknowledgeable(c)
  /\ pending' = [pending EXCEPT ![c] = @ \ {i}]
  /\ UNCHANGED <<masked, ready, enabled, shared, private>>

(* The handler of i ran and the exception returns; an instruction wfi that *)
(* the IRQ interrupted is complete.                                        *)
ReturnFromIrq(c) ==
  /\ Goto(c, IF pc[c] = "wfi" THEN "woken" ELSE pc[c])
  /\ UNCHANGED system

(* handle_irq finds a handler for i that calls end_interrupt itself. *)
IrqEnded(c, i) ==
  /\ irq_current(c, i)
  /\ i \in private[c] \union shared
  /\ ReturnFromIrq(c)
  /\ UNCHANGED <<active, running>>

(* handle_irq finds a handler for i that leaves i active. *)
IrqLeftActive(c, i) ==
  /\ irq_current(c, i)
  /\ i \in private[c] \union shared
  /\ active' = [active EXCEPT ![c] = @ \union {i}]
  /\ running' = [running EXCEPT ![c] = @ \union {i}]
  /\ ReturnFromIrq(c)

(* handle_irq finds no handler: the panic handler prints and powers off. *)
IrqUnexpected(c, i) ==
  /\ irq_current(c, i)
  /\ i \notin private[c] \union shared
  /\ active' = [active EXCEPT ![c] = @ \union {i}]
  /\ running' = [running EXCEPT ![c] = @ \union {i}]
  /\ Panic("unexpected_irq")
  /\ UNCHANGED <<pc, line>>

(* wfi returns with no IRQ taken, which the architecture allows at any     *)
(* time, and does when an IRQ that wakes it is not taken at once.          *)
WfiReturnsEarly(c) ==
  /\ At(c, "wfi")
  /\ Goto(c, "woken")
  /\ UNCHANGED <<system, masked, gicVars, shared, private>>
=============================================================================
