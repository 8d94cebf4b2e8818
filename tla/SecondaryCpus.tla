--------------------------- MODULE SecondaryCpus ---------------------------
(***************************************************************************)
(* Starting, interrupting and stopping secondary cores: the start_cpu and  *)
(* sgi commands of src/apps/cpus.rs on the primary core,                   *)
(* src/secondary_entry.rs, and the life of a secondary core from PSCI      *)
(* CPU_ON to PSCI CPU_OFF.                                                 *)
(*                                                                         *)
(* The specification starts when the shell first waits for a command.      *)
(* Console and RTC interrupts, which only the primary core receives, are   *)
(* in PrimaryCore.                                                         *)
(***************************************************************************)
EXTENDS Interrupts

CONSTANTS
  Args,     \* values of start_cpu's second argument
  Stacks,   \* blocks of the heap that can hold a secondary core's stack
  NoStack   \* SECONDARY_STACKS has no entry for this core

ASSUME SecondaryCpusAssumption ==
  /\ Args # {}
  /\ NoStack \notin Stacks

VARIABLES
  psci,      \* what PSCI affinity_info says of each core
  stackOf,   \* SECONDARY_STACKS
  stackTop,  \* the start arguments at the top of each stack
  target,    \* local variables of start_cpu on the primary core: the core
  argument,  \*   and the argument
  next,      \* the loop variable sgi of secondary_entry
  launched,  \* history: the argument of the CPU_ON that started each core
  early      \* history: this power-on's wfi returned before an IRQ was taken

cpuVars == <<psci, stackOf, stackTop, target, argument, next, launched, early>>
vars == <<irqVars, cpuVars>>

AffinityStates == {"Off", "OnPending", "On"}
ShellLabels == {"shell", "get_stack", "write_args", "cpu_on", "power_off",
                "halted"}
SecondaryLabels == {"off", "secondary_init", "enable_sgis", "set_handlers",
                    "irq_enable", "before_wfi", "wfi", "woken",
                    "remove_handlers", "cpu_off", "halted"}

TypeOK ==
  /\ InterruptsTypeOK
  /\ pc \in [Cores -> ShellLabels \union SecondaryLabels]
  /\ pc[Primary] \in ShellLabels
  /\ \A c \in Secondaries : pc[c] \in SecondaryLabels
  /\ psci \in [Cores -> AffinityStates]
  /\ stackOf \in [Cores -> Stacks \union {NoStack}]
  /\ stackTop \in [Stacks -> Args]
  /\ target \in Cores
  /\ argument \in Args
  /\ next \in [Cores -> 0..SGI_COUNT]
  /\ launched \in [Cores -> Args]
  /\ early \in [Cores -> BOOLEAN]

SomeArg == CHOOSE a \in Args : TRUE

Init ==
  /\ system = "up"
  /\ pc = [c \in Cores |-> IF c = Primary THEN "shell" ELSE "off"]
  /\ masked = [c \in Cores |-> c # Primary]
  /\ ready = [c \in Cores |-> c = Primary]
  /\ enabled = [c \in Cores |-> IF c = Primary THEN Spis ELSE {}]
  /\ pending = [c \in Cores |-> {}]
  /\ line = [c \in Cores |-> {}]
  /\ active = [c \in Cores |-> {}]
  /\ running = [c \in Cores |-> {}]
  /\ shared = Spis
  /\ private = [c \in Cores |-> {}]
  /\ psci = [c \in Cores |-> IF c = Primary THEN "On" ELSE "Off"]
  /\ stackOf = [c \in Cores |-> NoStack]
  /\ stackTop = [s \in Stacks |-> SomeArg]
  /\ target = Primary
  /\ argument = SomeArg
  /\ next = [c \in Cores |-> 0]
  /\ launched = [c \in Cores |-> SomeArg]
  /\ early = [c \in Cores |-> FALSE]

-----------------------------------------------------------------------------
(* Commands of the shell, on the primary core. *)

(* Mutant: the state of the core is not looked at. *)
MutantStartCpu(c, a) ==
  /\ At(Primary, "shell")
  /\ c \in Secondaries
  /\ target' = c
  /\ argument' = a
  /\ Goto(Primary, "get_stack")
  /\ UNCHANGED <<system, masked, gicVars, shared, private>>
  /\ UNCHANGED <<psci, stackOf, stackTop, next, launched, early>>

(* start_cpu asks PSCI for the state of the core and unwraps the answer; a *)
(* core that is not off is reported and left alone, as is a command that   *)
(* does not parse.                                                         *)
start_cpu(c, a) ==
  /\ At(Primary, "shell")
  /\ \/ /\ psci[c] = "Off"
        /\ target' = c
        /\ argument' = a
        /\ Goto(Primary, "get_stack")
        /\ UNCHANGED system
     \/ /\ Panic("psci_error")
        /\ UNCHANGED <<pc, target, argument>>
  /\ UNCHANGED <<masked, gicVars, shared, private>>
  /\ UNCHANGED <<psci, stackOf, stackTop, next, launched, early>>

(* Mutant: stacks in use are handed out again. *)
MutantFreeStacks == Stacks

FreeStacks == Stacks \ {stackOf[c] : c \in Cores}

(* The entry of the core in SECONDARY_STACKS, allocated on first use and   *)
(* never freed; the allocator's failure is a panic.                        *)
get_secondary_stack ==
  /\ At(Primary, "get_stack")
  /\ \/ /\ stackOf[target] # NoStack
        /\ Goto(Primary, "write_args")
        /\ UNCHANGED <<system, stackOf>>
     \/ /\ stackOf[target] = NoStack
        /\ \E s \in FreeStacks : stackOf' = [stackOf EXCEPT ![target] = s]
        /\ Goto(Primary, "write_args")
        /\ UNCHANGED system
     \/ /\ stackOf[target] = NoStack
        /\ FreeStacks = {}
        /\ Panic("no_memory")
        /\ UNCHANGED <<pc, stackOf>>
  /\ UNCHANGED <<masked, gicVars, shared, private>>
  /\ UNCHANGED <<psci, stackTop, target, argument, next, launched, early>>

(* start_core puts the closure at the top of the new core's stack. *)
start_core_write ==
  /\ At(Primary, "write_args")
  /\ stackTop' = [stackTop EXCEPT ![stackOf[target]] = argument]
  /\ Goto(Primary, "cpu_on")
  /\ UNCHANGED <<system, masked, gicVars, shared, private>>
  /\ UNCHANGED <<psci, stackOf, target, argument, next, launched, early>>

(* start_core calls PSCI CPU_ON, which may refuse; the result is printed. *)
start_core_cpu_on ==
  /\ At(Primary, "cpu_on")
  /\ \/ /\ psci[target] = "Off"
        /\ psci' = [psci EXCEPT ![target] = "OnPending"]
        /\ launched' = [launched EXCEPT ![target] = argument]
     \/ UNCHANGED <<psci, launched>>
  /\ target' = Primary
  /\ argument' = SomeArg
  /\ Goto(Primary, "shell")
  /\ UNCHANGED <<system, masked, gicVars, shared, private>>
  /\ UNCHANGED <<stackOf, stackTop, next, early>>

sgi(i) ==
  /\ At(Primary, "shell")
  /\ send_sgi(Primary, i)
  /\ UNCHANGED <<system, pc, masked, ready, enabled, line, active, running>>
  /\ UNCHANGED <<shared, private, cpuVars>>

(* exit: the shell loop ends with alarm::irq_remove. *)
exit ==
  /\ At(Primary, "shell")
  /\ remove_shared_irq_handler(RTC_IRQ)
  /\ Goto(Primary, "power_off")
  /\ UNCHANGED <<system, masked, gicVars, private, cpuVars>>

(* PSCI SYSTEM_OFF; when it fails the core loops for ever, unlike the      *)
(* secondary cores.                                                        *)
power_off ==
  /\ At(Primary, "power_off")
  /\ \/ /\ system' = "off"
        /\ UNCHANGED pc
     \/ /\ Goto(Primary, "halted")
        /\ UNCHANGED system
  /\ UNCHANGED <<masked, gicVars, shared, private, cpuVars>>

-----------------------------------------------------------------------------
(* The life of secondary core c. *)

(* The firmware powers the core up and it enters the closure, its CPU      *)
(* interface as reset left it and IRQs masked.                             *)
PsciBoot(c) ==
  /\ system = "up"
  /\ psci[c] = "OnPending"
  /\ psci' = [psci EXCEPT ![c] = "On"]
  /\ Goto(c, "secondary_init")
  /\ UNCHANGED <<system, masked, gicVars, shared, private>>
  /\ UNCHANGED <<stackOf, stackTop, target, argument, next, launched, early>>

(* Mutant: the CPU interface stays closed. *)
MutantSecondaryInitGic(c) == UNCHANGED ready

(* secondary_init_gic enables group 1 and opens the priority mask. *)
secondary_init_gic(c) == ready' = [ready EXCEPT ![c] = TRUE]

(* secondary_init: the page table, then secondary_init_gic. *)
secondary_init(c) ==
  /\ At(c, "secondary_init")
  /\ secondary_init_gic(c)
  /\ Goto(c, "enable_sgis")
  /\ UNCHANGED <<system, masked, enabled, pending, line, active, running>>
  /\ UNCHANGED <<shared, private, cpuVars>>

(* secondary_entry enables every SGI for this core, under the GIC lock;    *)
(* the GIC has them for every core that has an index.                      *)
enable_sgis(c) ==
  /\ At(c, "enable_sgis")
  /\ enable_interrupts(c, Sgis)
  /\ next' = [next EXCEPT ![c] = 0]
  /\ Goto(c, "set_handlers")
  /\ UNCHANGED <<system, masked, ready, pending, line, active, running>>
  /\ UNCHANGED <<shared, private>>
  /\ UNCHANGED <<psci, stackOf, stackTop, target, argument, launched, early>>

(* Mutants: the loop runs once too often; never advances. *)
MutantSetHandlersTooOften(c) ==
  /\ At(c, "set_handlers")
  /\ \/ /\ next[c] <= SGI_COUNT
        /\ set_private_irq_handler(c, next[c])
        /\ next' = [next EXCEPT ![c] = @ + 1]
        /\ UNCHANGED pc
     \/ /\ next[c] > SGI_COUNT
        /\ Goto(c, "irq_enable")
        /\ UNCHANGED <<system, private, next>>
  /\ UNCHANGED <<masked, gicVars, shared>>
  /\ UNCHANGED <<psci, stackOf, stackTop, target, argument, launched, early>>

MutantSetHandlersStuck(c) ==
  /\ At(c, "set_handlers")
  /\ set_private_irq_handler(c, next[c])
  /\ UNCHANGED <<pc, masked, gicVars, shared, cpuVars>>

(* One turn of the loop over set_private_irq_handler, or its end. *)
set_handlers(c) ==
  /\ At(c, "set_handlers")
  /\ \/ /\ next[c] < SGI_COUNT
        /\ set_private_irq_handler(c, next[c])
        /\ next' = [next EXCEPT ![c] = @ + 1]
        /\ UNCHANGED pc
     \/ /\ next[c] = SGI_COUNT
        /\ Goto(c, "irq_enable")
        /\ UNCHANGED <<system, private, next>>
  /\ UNCHANGED <<masked, gicVars, shared>>
  /\ UNCHANGED <<psci, stackOf, stackTop, target, argument, launched, early>>

irq_enable(c) ==
  /\ At(c, "irq_enable")
  /\ masked' = [masked EXCEPT ![c] = FALSE]
  /\ Goto(c, "before_wfi")
  /\ UNCHANGED <<system, gicVars, shared, private, cpuVars>>

(* The log message, then the instruction wfi. *)
wfi(c) ==
  /\ At(c, "before_wfi")
  /\ Goto(c, "wfi")
  /\ UNCHANGED <<system, masked, gicVars, shared, private, cpuVars>>

wfi_returns_early(c) ==
  /\ WfiReturnsEarly(c)
  /\ early' = [early EXCEPT ![c] = TRUE]
  /\ UNCHANGED <<psci, stackOf, stackTop, target, argument, next, launched>>

finish_waiting(c) ==
  /\ At(c, "woken")
  /\ next' = [next EXCEPT ![c] = 0]
  /\ Goto(c, "remove_handlers")
  /\ UNCHANGED <<system, masked, gicVars, shared, private>>
  /\ UNCHANGED <<psci, stackOf, stackTop, target, argument, launched, early>>

(* One turn of the loop over remove_private_irq_handler, or its end. *)
remove_handlers(c) ==
  /\ At(c, "remove_handlers")
  /\ \/ /\ next[c] < SGI_COUNT
        /\ remove_private_irq_handler(c, next[c])
        /\ next' = [next EXCEPT ![c] = @ + 1]
        /\ UNCHANGED pc
     \/ /\ next[c] = SGI_COUNT
        /\ Goto(c, "cpu_off")
        /\ UNCHANGED <<private, next>>
  /\ UNCHANGED <<system, masked, gicVars, shared>>
  /\ UNCHANGED <<psci, stackOf, stackTop, target, argument, launched, early>>

(* Powering a core down loses the state of the core and of its CPU         *)
(* interface, not that of its redistributor.                               *)
PowerDown(c) ==
  /\ masked' = [masked EXCEPT ![c] = TRUE]
  /\ ready' = [ready EXCEPT ![c] = FALSE]
  /\ running' = [running EXCEPT ![c] = {}]
  /\ early' = [early EXCEPT ![c] = FALSE]

(* Mutant: a core that stops gives its stack back. *)
MutantCpuOff(c) ==
  /\ At(c, "cpu_off")
  /\ psci' = [psci EXCEPT ![c] = "Off"]
  /\ stackOf' = [stackOf EXCEPT ![c] = NoStack]
  /\ PowerDown(c)
  /\ Goto(c, "off")
  /\ UNCHANGED <<system, enabled, pending, line, active, shared, private>>
  /\ UNCHANGED <<stackTop, target, argument, next, launched>>

(* PSCI CPU_OFF: success does not return, and when it does the core loops  *)
(* for ever; an error is unwrapped.                                        *)
cpu_off(c) ==
  /\ At(c, "cpu_off")
  /\ \/ /\ psci' = [psci EXCEPT ![c] = "Off"]
        /\ PowerDown(c)
        /\ Goto(c, "off")
        /\ UNCHANGED system
     \/ /\ Panic("psci_error")
        /\ UNCHANGED <<psci, pc, masked, ready, running, early>>
     \/ /\ Goto(c, "halted")
        /\ UNCHANGED <<system, psci, masked, ready, running, early>>
  /\ UNCHANGED <<enabled, pending, line, active, shared, private>>
  /\ UNCHANGED <<stackOf, stackTop, target, argument, next, launched>>

(* Mutant: the handler ends the interrupt. *)
MutantSecondaryIrqHandler(c, i) ==
  /\ IrqEnded(c, i)
  /\ UNCHANGED line
  /\ UNCHANGED cpuVars

(* secondary_irq_handler logs and returns; it does not end the interrupt. *)
secondary_irq_handler(c, i) ==
  /\ IrqLeftActive(c, i)
  /\ UNCHANGED line
  /\ UNCHANGED cpuVars

unexpected_irq(c, i) ==
  /\ IrqUnexpected(c, i)
  /\ UNCHANGED cpuVars

-----------------------------------------------------------------------------
Shell ==
  \/ \E c \in Cores, a \in Args : start_cpu(c, a)
  \/ get_secondary_stack
  \/ start_core_write
  \/ start_core_cpu_on
  \/ \E i \in Sgis : sgi(i)
  \/ exit
  \/ power_off

Thread(c) ==
  \/ secondary_init(c)
  \/ enable_sgis(c)
  \/ set_handlers(c)
  \/ irq_enable(c)
  \/ wfi(c)
  \/ finish_waiting(c)
  \/ remove_handlers(c)
  \/ cpu_off(c)

Irq(c) == \E i \in IntIds : secondary_irq_handler(c, i) \/ unexpected_irq(c, i)

Next ==
  \/ Shell
  \/ \E c \in Secondaries :
       \/ PsciBoot(c)
       \/ Thread(c)
       \/ wfi_returns_early(c)
       \/ Irq(c)

Spec == Init /\ [][Next]_vars

(* Cores and firmware make progress and take the IRQs that are due; the    *)
(* user at the shell and early returns of wfi promise nothing.             *)
Fairness ==
  \A c \in Secondaries :
    /\ WF_vars(PsciBoot(c))
    /\ WF_vars(Thread(c))
    /\ WF_vars(Irq(c))

FairSpec == Spec /\ Fairness

-----------------------------------------------------------------------------
(* Properties *)

(* handle_irq panics for want of a handler only on a core whose wfi had    *)
(* returned before the IRQ was taken.  After a real wake-up the handlers   *)
(* are removed with IRQs unmasked, and an SGI sent meanwhile must not      *)
(* reach the dispatcher.                                                   *)
UnexpectedIrqOnlyAfterEarlyWake ==
  system = "unexpected_irq" =>
    \E c \in Secondaries :
      /\ early[c]
      /\ pc[c] \in {"remove_handlers", "cpu_off", "halted"}

(* A core takes at most one SGI between power-on and power-off: the        *)
(* handler does not end the interrupt and all SGIs have one priority.      *)
OneSgiPerPowerOn ==
  \A c \in Secondaries : \A i, j \in running[c] : i = j

(* The safety argument of start_core_with_stack: from the moment CPU_ON    *)
(* accepts a core until the core is off, the top of its stack holds what   *)
(* that CPU_ON was given and no other core's start has overwritten it.     *)
RunningStackIntact ==
  \A c \in Secondaries :
    psci[c] # "Off" =>
      /\ stackOf[c] # NoStack
      /\ stackTop[stackOf[c]] = launched[c]

(* A core keeps the stack it was first given: restarting a core allocates  *)
(* nothing, so the heap that stacks take is bounded by the number of cores.*)
StackKept ==
  [][\A c \in Cores : stackOf[c] # NoStack => stackOf'[c] = stackOf[c]]_vars

(* A core that CPU_ON accepted gets through secondary_init and the start   *)
(* of secondary_entry to its wfi, whatever SGIs arrive on the way.         *)
StartedCoreWaits ==
  \A c \in Secondaries :
    psci[c] = "OnPending" ~> (pc[c] = "wfi" \/ system # "up")

(* A core asleep in wfi that has taken no SGI since power-on and for which *)
(* an SGI it never took before is pending, wakes, cleans up and powers     *)
(* off, or loops if CPU_OFF returns.                                       *)
FreshSgiStopsCore ==
  \A c \in Secondaries :
    (/\ pc[c] = "wfi"
     /\ running[c] = {}
     /\ (pending[c] \intersect Sgis) \ active[c] # {})
      ~> (psci[c] = "Off" \/ pc[c] = "halted" \/ system # "up")

(* The life of a core as its own stack has it: the argument is the one     *)
(* that the closure at the top of the stack holds.                         *)
Life ==
  [c \in Secondaries |->
     IF psci[c] = "Off"
     THEN NoStack
     ELSE [state |-> psci[c], arg |-> stackTop[stackOf[c]]]]

Lifecycle == INSTANCE CoreLifecycle WITH Cores <- Secondaries, Off <- NoStack,
                                         life <- Life

(* The check of affinity_info, the lookup of the stack, the write to it    *)
(* and CPU_ON together start a core as if in one step, and what the core   *)
(* finds on its stack does not change until it is off.                     *)
LifecycleSpec == Lifecycle!Spec
=============================================================================
