------------------------------ MODULE Console ------------------------------
(***************************************************************************)
(* The console's input: Read for Console of src/console.rs, the interrupt  *)
(* handlers of src/drivers/ and, external, the receiving half of the UART. *)
(* Output has no state that the code looks at.                             *)
(***************************************************************************)
EXTENDS Interrupts, Sequences

CONSTANTS
  RX_DEPTH,  \* bytes the UART can hold
  Trigger    \* how setup_gic configures CONSOLE_IRQ: "Level" or "Edge"

ASSUME ConsoleAssumption ==
  /\ RX_DEPTH \in Nat \ {0}
  /\ Trigger \in {"Level", "Edge"}

(* The bytes that read_line tells apart; "char" is any that is not an      *)
(* ASCII control character.                                                *)
Bytes == {"char", "enter", "eof", "control"}

VARIABLES
  rx,      \* bytes received and not yet read
  missed   \* history: CONSOLE_IRQ was handled after the last look at rx

consoleVars == <<rx, missed>>

ConsoleTypeOK ==
  /\ rx \in Seq(Bytes)
  /\ Len(rx) <= RX_DEPTH
  /\ missed \in BOOLEAN

ConsoleInit ==
  /\ rx = <<>>
  /\ missed = FALSE

ConsoleLineLow == line' = [line EXCEPT ![Primary] = @ \ {CONSOLE_IRQ}]

(* A byte arrives.  The receive interrupt is raised when the UART stops    *)
(* being empty: the PL011 of QEMU drives a level, the 16550 of crosvm      *)
(* makes an edge.                                                          *)
UartRx(b) ==
  /\ system = "up"
  /\ Len(rx) < RX_DEPTH
  /\ rx' = Append(rx, b)
  /\ \/ /\ rx = <<>> /\ Trigger = "Level"
        /\ line' = [line EXCEPT ![Primary] = @ \union {CONSOLE_IRQ}]
        /\ UNCHANGED pending
     \/ /\ rx = <<>> /\ Trigger = "Edge"
        /\ pending' = [pending EXCEPT ![Primary] = @ \union {CONSOLE_IRQ}]
        /\ UNCHANGED line
     \/ /\ rx # <<>>
        /\ UNCHANGED <<line, pending>>
  /\ UNCHANGED <<system, pc, masked, ready, enabled, active, running>>
  /\ UNCHANGED <<shared, private, missed>>

(* setup_gic of the platform, called by init_gic with IRQs masked, enables *)
(* the interrupt and then registers its handler.                           *)
setup_gic_enable ==
  /\ At(Primary, "init_gic")
  /\ enable_interrupts(Primary, {CONSOLE_IRQ})
  /\ Goto(Primary, "set_console_handler")
  /\ UNCHANGED <<system, masked, ready, pending, line, active, running>>
  /\ UNCHANGED <<shared, private, consoleVars>>

setup_gic_handler ==
  /\ At(Primary, "set_console_handler")
  /\ set_shared_irq_handler(Primary, CONSOLE_IRQ)
  /\ Goto(Primary, "irq_setup")
  /\ UNCHANGED <<masked, gicVars, private, consoleVars>>

(* One turn of the loop in read that finds a byte and takes it; emptying   *)
(* the UART withdraws its interrupt.                                       *)
ReadByte(b) ==
  /\ At(Primary, "read")
  /\ rx # <<>>
  /\ b = Head(rx)
  /\ rx' = Tail(rx)
  /\ \/ Len(rx) = 1 /\ ConsoleLineLow
     \/ Len(rx) > 1 /\ UNCHANGED line
  /\ missed' = FALSE

(* The UART reports an error (an overrun, a break) with the byte, which    *)
(* read passes on and read_line unwraps.                                   *)
read_error ==
  /\ At(Primary, "read")
  /\ rx # <<>>
  /\ Panic("console_error")
  /\ UNCHANGED <<pc, masked, gicVars, shared, private, consoleVars>>

(* The read that empties the UART withdraws the level of an IRQ that the   *)
(* core is about to take: handle_irq has nothing to acknowledge and panics *)
(* ("No pending interrupt").                                               *)
irq_withdrawn ==
  /\ At(Primary, "read")
  /\ Len(rx) = 1
  /\ CONSOLE_IRQ \in line[Primary]
  /\ Signalled(Primary) = {CONSOLE_IRQ}
  /\ rx' = <<>>
  /\ ConsoleLineLow
  /\ missed' = FALSE
  /\ Panic("no_interrupt")
  /\ UNCHANGED <<pc, masked, ready, enabled, pending, active, running>>
  /\ UNCHANGED <<shared, private>>

(* One that finds none and will wait. *)
read_not_ready ==
  /\ At(Primary, "read")
  /\ rx = <<>>
  /\ missed' = FALSE
  /\ Goto(Primary, "before_wfi")
  /\ UNCHANGED <<system, masked, gicVars, shared, private, rx>>

wait_for_irq ==
  /\ At(Primary, "before_wfi")
  /\ Goto(Primary, "wfi")
  /\ UNCHANGED <<system, masked, gicVars, shared, private, consoleVars>>

wfi_returns_early ==
  /\ WfiReturnsEarly(Primary)
  /\ UNCHANGED consoleVars

(* Mutant: after a wake-up read sleeps again without a look at the UART. *)
MutantReadAgain ==
  /\ At(Primary, "woken")
  /\ Goto(Primary, "before_wfi")
  /\ UNCHANGED <<system, masked, gicVars, shared, private, consoleVars>>

read_again ==
  /\ At(Primary, "woken")
  /\ Goto(Primary, "read")
  /\ UNCHANGED <<system, masked, gicVars, shared, private, consoleVars>>

(* Console::handle_irq and the driver's handle_irq: the PL011 clears RXI,  *)
(* which lowers the level, the 16550 has no level; both end the interrupt, *)
(* which the GIC does after the device has seen the write.                 *)
handle_irq ==
  /\ IrqEnded(Primary, CONSOLE_IRQ)
  /\ ConsoleLineLow
  /\ missed' = (missed \/ pc[Primary] = "before_wfi")
  /\ UNCHANGED rx

-----------------------------------------------------------------------------
(* Properties *)

(* read sleeps in wfi while the UART holds a byte only if CONSOLE_IRQ is   *)
(* about to wake it, or was handled between the look at the UART and wfi:  *)
(* that window is the only one in which a wake-up is lost.                 *)
SleepsOnDataOnlyIfMissed ==
  pc[Primary] = "wfi" /\ rx # <<>> =>
    missed \/ CONSOLE_IRQ \in pending[Primary] \union line[Primary]

(* A byte whose interrupt finds read asleep in wfi gets to be read, even   *)
(* while an alarm that has not been finished holds the running priority.   *)
ByteDuringWaitDelivered ==
  (/\ pc[Primary] = "wfi"
   /\ rx # <<>>
   /\ CONSOLE_IRQ \in pending[Primary] \union line[Primary])
    ~> ((pc[Primary] = "read" /\ rx # <<>>) \/ system # "up")

(* The comment in read, "Wait until the console has some data to read":    *)
(* a byte that is there ends the wait.                                     *)
InputDelivered ==
  (pc[Primary] \in {"before_wfi", "wfi"} /\ rx # <<>>)
    ~> ((pc[Primary] = "read" /\ rx # <<>>) \/ system # "up")
=============================================================================
