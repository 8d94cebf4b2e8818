------------------------------- MODULE Locks -------------------------------
(***************************************************************************)
(* The locks of the program and the masking of exceptions around them:     *)
(* src/logger.rs, the output side and the panic handler of src/console.rs, *)
(* and the functions elsewhere that take a lock.                           *)
(*                                                                         *)
(* A function is the sequence of what it does to locks and to the mask,    *)
(* put together as its body calls other functions.  A core runs such a     *)
(* sequence one instruction at a time; an IRQ puts the handler in front    *)
(* and a panic replaces the rest.  CONSOLE and SHARED are ExceptionLocks,  *)
(* PRIVATE is the Lazy around the table of private handlers, which its     *)
(* first user makes; the others are plain spin locks.                      *)
(***************************************************************************)
EXTENDS Naturals, Sequences

CONSTANTS Cores, Primary, None

ASSUME LocksAssumption == Primary \in Cores /\ None \notin Cores

Secondaries == Cores \ {Primary}
Locks == {"CONSOLE", "SHARED", "PRIVATE", "GIC", "HEAP", "STACKS"}

VARIABLES
  system,      \* "up" or "off"
  todo,        \* what is left for each core to do; empty at the shell's
               \*   prompt, and on a core that is off
  depth,       \* exceptions are masked on a core while this is positive
  owner,       \* the core that holds each lock
  forced,      \* the table of private handlers is made
  registered,  \* does the core have a handler for the RTC, or for its SGIs
  failed       \* history: a core panicked while it held CONSOLE

vars == <<system, todo, depth, owner, forced, registered, failed>>

-----------------------------------------------------------------------------
(* Instructions, and functions as sequences of them. *)

Take(l) == <<"take", l>>
Drop(l) == <<"drop", l>>
CpuOn(c) == <<"cpu_on", c>>
Do(op) == <<op>>

Locked(l, body) == <<Take(l)>> \o body \o <<Drop(l)>>

(* Mutant: the state of the mask is restored twice. *)
MutantExceptionFree(body) ==
  <<Do("mask")>> \o body \o <<Do("restore"), Do("restore")>>

exception_free(body) == <<Do("mask")>> \o body \o <<Do("restore")>>

(* Mutant: the logger takes the lock with exceptions unmasked. *)
MutantLog == Locked("CONSOLE", <<Do("unwrap")>>)

(* SharedConsole::log unwraps the result of the write under the lock;      *)
(* write and read return it to callers, who unwrap it.                     *)
log == exception_free(Locked("CONSOLE", <<Do("unwrap")>>))
write == exception_free(Locked("CONSOLE", <<>>)) \o <<Do("unwrap")>>
read == exception_free(Locked("CONSOLE", <<>>)) \o <<Do("unwrap")>>

(* The allocator returns null when it has no memory, which panics. *)
alloc == Locked("HEAP", <<>>) \o <<Do("unwrap")>>
dealloc == Locked("HEAP", <<>>)

(* Mutant: private handlers are not looked for. *)
Mutant_set_shared_irq_handler ==
  exception_free(Locked("SHARED", alloc \o <<Do("register")>>))

set_shared_irq_handler ==
  exception_free(<<Do("private")>> \o Locked("SHARED", alloc \o <<Do("register")>>))
remove_shared_irq_handler ==
  exception_free(Locked("SHARED", <<Do("unregister")>> \o dealloc))
set_private_irq_handler ==
  exception_free(Locked("SHARED", <<>>) \o <<Do("private")>> \o alloc
                   \o <<Do("register")>>)
remove_private_irq_handler ==
  exception_free(<<Do("private"), Do("unregister")>> \o dealloc)
irq_setup == Locked("GIC", set_shared_irq_handler \o <<Do("unwrap")>>)
get_secondary_stack == Locked("STACKS", alloc)

(* The handlers: of the console, of the RTC and of SGIs. *)
console_handle_irq == exception_free(Locked("CONSOLE", <<>>))
irq_handle == log
secondary_irq_handler == log

(* handle_irq finds a private handler, a shared one, or none: the panic    *)
(* comes after the lock of the table is dropped.                           *)
handle_private == exception_free(<<Do("private")>> \o secondary_irq_handler)
handle_shared(handler) ==
  exception_free(<<Do("private")>> \o Locked("SHARED", handler))

(* Mutant: the panic comes before. *)
MutantHandleNone ==
  exception_free(<<Do("private")>> \o Locked("SHARED", <<Do("panic")>>))

handle_none ==
  exception_free(<<Do("private")>> \o Locked("SHARED", <<>>) \o <<Do("panic")>>)

power_off == <<Do("system_off")>> \o log \o <<Do("loop")>>
panic == exception_free(Locked("CONSOLE", <<>>)) \o power_off

(* From init_gic, with the console's handler, to the shell's loop. *)
boot == set_shared_irq_handler \o log \o irq_setup \o <<Do("irq_enable")>>

(* CPU_OFF stops the core; the code has an answer to its return too. *)
cpu_off == <<Do("cpu_off")>> \o log \o <<Do("loop")>>

(* Mutant: the guard of the GIC lives to the end of the function. *)
MutantSecondaryEntry ==
  log \o Locked("GIC", <<>>) \o log
    \o Locked("GIC", <<Do("unwrap")>>
         \o set_private_irq_handler \o <<Do("irq_enable")>>
         \o log
         \o remove_private_irq_handler \o cpu_off)

(* A secondary core from power-on: secondary_init, and secondary_entry,    *)
(* which unwraps what the GIC says of each SGI.  A loop over the SGIs is   *)
(* one turn here, and so are the two lines of the log with wfi, which may  *)
(* return at once, in between.                                             *)
secondary_entry ==
  log \o Locked("GIC", <<>>) \o log \o Locked("GIC", <<Do("unwrap")>>)
    \o set_private_irq_handler \o <<Do("irq_enable")>>
    \o log \o remove_private_irq_handler \o cpu_off

start_core(c) == get_secondary_stack \o <<CpuOn(c)>> \o write
exit == remove_shared_irq_handler \o log \o power_off

(* What the shell and its commands do, one call after the other; the alarm *)
(* command logs.                                                           *)
Commands ==
  {read, write, log, exit} \union
    {start_core(c) : c \in {d \in Secondaries : todo[d] = <<>>}}

-----------------------------------------------------------------------------
(* Execution *)

TypeOK ==
  /\ system \in {"up", "off"}
  /\ depth \in [Cores -> 0..5]
  /\ owner \in [Locks -> Cores \union {None}]
  /\ forced \in BOOLEAN
  /\ registered \in [Cores -> BOOLEAN]
  /\ failed \in BOOLEAN

Init ==
  /\ system = "up"
  /\ todo = [c \in Cores |-> IF c = Primary THEN boot ELSE <<>>]
  /\ depth = [c \in Cores |-> 1]
  /\ owner = [l \in Locks |-> None]
  /\ forced = FALSE
  /\ registered = [c \in Cores |-> FALSE]
  /\ failed = FALSE

(* Core c is about to execute an instruction op. *)
Executes(c, op) ==
  /\ system = "up"
  /\ todo[c] # <<>>
  /\ Head(todo[c])[1] = op

Continue(c) == todo' = [todo EXCEPT ![c] = Tail(@)]

Mask(c) ==
  /\ Executes(c, "mask")
  /\ depth' = [depth EXCEPT ![c] = @ + 1]
  /\ Continue(c)
  /\ UNCHANGED <<system, owner, forced, registered, failed>>

(* The end of exception_free, and irq_enable. *)
Unmask(c) ==
  /\ Executes(c, "restore") \/ Executes(c, "irq_enable")
  /\ depth' = [depth EXCEPT ![c] = @ - 1]
  /\ Continue(c)
  /\ UNCHANGED <<system, owner, forced, registered, failed>>

(* SpinMutex::lock returns once the lock is free. *)
TakeLock(c) ==
  /\ Executes(c, "take")
  /\ owner[Head(todo[c])[2]] = None
  /\ owner' = [owner EXCEPT ![Head(todo[c])[2]] = c]
  /\ Continue(c)
  /\ UNCHANGED <<system, depth, forced, registered, failed>>

DropLock(c) ==
  /\ Executes(c, "drop")
  /\ owner' = [owner EXCEPT ![Head(todo[c])[2]] = None]
  /\ Continue(c)
  /\ UNCHANGED <<system, depth, forced, registered, failed>>

(* The table is allocated by the core that uses it first; others wait. *)
UsePrivate(c) ==
  /\ Executes(c, "private")
  /\ todo' = [todo EXCEPT ![c] =
       IF forced THEN Tail(@)
       ELSE Locked("PRIVATE", alloc \o <<Do("force")>>) \o Tail(@)]
  /\ UNCHANGED <<system, depth, owner, forced, registered, failed>>

ForceLazy(c) ==
  /\ Executes(c, "force")
  /\ forced' = TRUE
  /\ Continue(c)
  /\ UNCHANGED <<system, depth, owner, registered, failed>>

(* An unwrap that succeeds, a PSCI call that returns. *)
Proceed(c) ==
  /\ \E op \in {"unwrap", "system_off", "cpu_off"} : Executes(c, op)
  /\ Continue(c)
  /\ UNCHANGED <<system, depth, owner, forced, registered, failed>>

(* A panic does not unwind: the locks stay taken.  An error of CPU_OFF is  *)
(* unwrapped.                                                              *)
Panics(c) ==
  /\ \E op \in {"unwrap", "panic", "cpu_off"} : Executes(c, op)
  /\ todo' = [todo EXCEPT ![c] = panic]
  /\ failed' = (failed \/ owner["CONSOLE"] = c)
  /\ UNCHANGED <<system, depth, owner, forced, registered>>

Register(c) ==
  /\ Executes(c, "register") \/ Executes(c, "unregister")
  /\ registered' = [registered EXCEPT ![c] = Executes(c, "register")]
  /\ Continue(c)
  /\ UNCHANGED <<system, depth, owner, forced, failed>>

(* PSCI starts the core, if it is off, with exceptions masked. *)
StartCore(c) ==
  /\ Executes(c, "cpu_on")
  /\ LET d == Head(todo[c])[2]
     IN  /\ todo' = [todo EXCEPT ![c] = Tail(@), ![d] = secondary_entry]
         /\ depth' = [depth EXCEPT ![d] = 1]
  /\ UNCHANGED <<system, owner, forced, registered, failed>>

CpuOff(c) ==
  /\ Executes(c, "cpu_off")
  /\ todo' = [todo EXCEPT ![c] = <<>>]
  /\ depth' = [depth EXCEPT ![c] = 1]
  /\ UNCHANGED <<system, owner, forced, registered, failed>>

SystemOff(c) ==
  /\ Executes(c, "system_off")
  /\ system' = "off"
  /\ UNCHANGED <<todo, depth, owner, forced, registered, failed>>

Command ==
  /\ system = "up"
  /\ todo[Primary] = <<>>
  /\ \E p \in Commands : todo' = [todo EXCEPT ![Primary] = p]
  /\ UNCHANGED <<system, depth, owner, forced, registered, failed>>

(* What an IRQ may make core c do. *)
Handlers(c) ==
  CASE c = Primary /\ registered[c] ->
         {handle_shared(console_handle_irq), handle_shared(irq_handle)}
    [] c = Primary /\ ~registered[c] ->
         {handle_shared(console_handle_irq), handle_none}
    [] c # Primary /\ registered[c] -> {handle_private}
    [] OTHER -> {handle_none}

irq_current(c) ==
  /\ system = "up"
  /\ depth[c] = 0
  /\ \E p \in Handlers(c) :
       todo' = [todo EXCEPT ![c] = p \o <<Do("restore")>> \o @]
  /\ depth' = [depth EXCEPT ![c] = 1]
  /\ UNCHANGED <<system, owner, forced, registered, failed>>

Next ==
  \/ Command
  \/ \E c \in Cores :
       \/ Mask(c) \/ Unmask(c) \/ TakeLock(c) \/ DropLock(c) \/ Proceed(c)
       \/ UsePrivate(c) \/ ForceLazy(c) \/ Panics(c) \/ Register(c)
       \/ StartCore(c) \/ CpuOff(c) \/ SystemOff(c)
       \/ irq_current(c)

Spec == Init /\ [][Next]_vars

-----------------------------------------------------------------------------
(* Properties *)

Waits(c) ==
  /\ todo[c] # <<>>
  /\ Head(todo[c])[1] = "take"
  /\ owner[Head(todo[c])[2]] # None

Holder(c) == owner[Head(todo[c])[2]]

(* No set of cores waits for locks within itself: in particular no handler *)
(* waits for a lock of the thread it interrupted, which the note in        *)
(* InterruptDriven ("may be called with the console locked") asks of       *)
(* drivers.  The exception is a panic of the logger, which holds CONSOLE   *)
(* when it unwraps: the panic handler waits for its own core.              *)
NoDeadlock ==
  ~failed => \A S \in (SUBSET {c \in Cores : Waits(c)}) \ {{}} :
               \E c \in S : Holder(c) \notin S

(* A core may end in a loop: in power_off, SYSTEM_OFF having failed after  *)
(* a panic or an exit, or after CPU_OFF.  The shell and the handlers run   *)
(* on without it.  Only a core that is still starting may wait for it, for *)
(* the GIC: secondary_entry panics with its guard when an SGI cannot be    *)
(* enabled.                                                                *)
HaltedCoreStopsOnlyStarting ==
  ~failed => \A c \in Cores :
               Waits(c) /\ Head(todo[Holder(c)]) = Do("loop") =>
                 c \in Secondaries /\ Head(todo[c]) = Take("GIC")

(* A core takes no lock with it: one that CPU_OFF has stopped, which does  *)
(* not return to drop a guard, holds none, nor does the shell between two  *)
(* commands, whatever IRQs and panics came before, the logger's own        *)
(* included.                                                               *)
NoLockLeftBehind ==
  \A l \in Locks : owner[l] # None => todo[owner[l]] # <<>>
=============================================================================
