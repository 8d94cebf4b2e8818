---------------------------- MODULE PrimaryCore ----------------------------
(***************************************************************************)
(* The primary core: main of src/main.rs from the GIC's initialisation on, *)
(* the shell of src/apps/shell.rs, and the interrupts of the console and   *)
(* of the RTC that interleave with it.  Commands that leave the primary    *)
(* core's interrupts alone are one command here; start_cpu and sgi are in  *)
(* SecondaryCpus.                                                          *)
(***************************************************************************)
EXTENDS Console, Alarm

CONSTANT LINE_MAX   \* capacity of the ArrayVec in read_line, 128

ASSUME PrimaryCoreAssumption == LINE_MAX \in Nat \ {0}

VARIABLE lineLen    \* length of the line that read_line is collecting

vars == <<irqVars, consoleVars, alarmVars, lineLen>>

Labels == {"init_gic", "set_console_handler", "irq_setup", "irq_enable",
           "read", "before_wfi", "wfi", "woken", "command", "irq_finish",
           "clear_interrupt", "end_interrupt", "get_time", "set_match",
           "enable_interrupt", "power_off", "halted", "off"}

TypeOK ==
  /\ InterruptsTypeOK
  /\ ConsoleTypeOK
  /\ AlarmTypeOK
  /\ pc \in [Cores -> Labels]
  /\ lineLen \in 0..LINE_MAX

(* The page table is active; IRQs are masked since reset. *)
Init ==
  /\ system = "up"
  /\ pc = [c \in Cores |-> IF c = Primary THEN "init_gic" ELSE "off"]
  /\ masked = [c \in Cores |-> TRUE]
  /\ ready = [c \in Cores |-> FALSE]
  /\ enabled = [c \in Cores |-> {}]
  /\ pending = [c \in Cores |-> {}]
  /\ line = [c \in Cores |-> {}]
  /\ active = [c \in Cores |-> {}]
  /\ running = [c \in Cores |-> {}]
  /\ shared = {}
  /\ private = [c \in Cores |-> {}]
  /\ ConsoleInit
  /\ AlarmInit
  /\ lineLen = 0

-----------------------------------------------------------------------------
(* Boot *)

(* init_gic stores the driver that setup_gic of the platform has set up. *)
init_gic ==
  /\ setup_gic_enable \/ setup_gic_handler
  /\ UNCHANGED <<alarmVars, lineLen>>

(* The start of shell::main: set_priority_mask and alarm::irq_setup. *)
shell_setup ==
  /\ At(Primary, "irq_setup")
  /\ ready' = [ready EXCEPT ![Primary] = TRUE]
  /\ irq_setup
  /\ Goto(Primary, "irq_enable")
  /\ UNCHANGED <<masked, pending, line, active, running, private>>
  /\ UNCHANGED <<consoleVars, alarmVars, lineLen>>

irq_enable ==
  /\ At(Primary, "irq_enable")
  /\ masked' = [masked EXCEPT ![Primary] = FALSE]
  /\ Goto(Primary, "read")
  /\ UNCHANGED <<system, gicVars, shared, private>>
  /\ UNCHANGED <<consoleVars, alarmVars, lineLen>>

-----------------------------------------------------------------------------
(* The shell *)

(* Mutant: every byte is pushed on the line, and its length not checked. *)
MutantReadLine(b) ==
  /\ ReadByte(b)
  /\ lineLen' = lineLen + 1
  /\ UNCHANGED <<system, pc, shared>>
  /\ UNCHANGED <<masked, ready, enabled, pending, active, running, private>>
  /\ UNCHANGED alarmVars

(* read_line: a character is pushed on the line, which panics when it is   *)
(* full; a control character, and EOF inside a line, is dropped; enter     *)
(* ends the line; EOF on an empty line is the line that ends the shell.    *)
read_line(b) ==
  /\ ReadByte(b)
  /\ \/ /\ b = "char" /\ lineLen < LINE_MAX
        /\ lineLen' = lineLen + 1
        /\ UNCHANGED <<system, pc, shared>>
     \/ /\ b = "char" /\ lineLen = LINE_MAX
        /\ Panic("line_too_long")
        /\ UNCHANGED <<pc, shared, lineLen>>
     \/ /\ b = "control" \/ (b = "eof" /\ lineLen > 0)
        /\ UNCHANGED <<system, pc, shared, lineLen>>
     \/ /\ b = "enter"
        /\ Goto(Primary, IF lineLen = 0 THEN "read" ELSE "command")
        /\ lineLen' = 0
        /\ UNCHANGED <<system, shared>>
     \/ /\ b = "eof" /\ lineLen = 0
        /\ irq_remove
        /\ Goto(Primary, "power_off")
        /\ UNCHANGED <<system, lineLen>>
  /\ UNCHANGED <<masked, ready, enabled, pending, active, running, private>>
  /\ UNCHANGED alarmVars

alarm(d) ==
  /\ At(Primary, "command")
  /\ delay' = d
  /\ Goto(Primary, "irq_finish")
  /\ UNCHANGED <<system, masked, gicVars, shared, private>>
  /\ UNCHANGED <<consoleVars, lineLen>>
  /\ UNCHANGED <<ALARM_FIRED, rtcNow, rtcMatch, rtcRis, rtcIm, timestamp,
                 awaited>>

exit ==
  /\ At(Primary, "command")
  /\ irq_remove
  /\ Goto(Primary, "power_off")
  /\ UNCHANGED <<system, masked, gicVars, private>>
  /\ UNCHANGED <<consoleVars, alarmVars, lineLen>>

other_command ==
  /\ At(Primary, "command")
  /\ Goto(Primary, "read")
  /\ UNCHANGED <<system, masked, gicVars, shared, private>>
  /\ UNCHANGED <<consoleVars, alarmVars, lineLen>>

(* PSCI SYSTEM_OFF; when it fails the core loops for ever. *)
power_off ==
  /\ At(Primary, "power_off")
  /\ \/ /\ system' = "off"
        /\ UNCHANGED pc
     \/ /\ Goto(Primary, "halted")
        /\ UNCHANGED system
  /\ UNCHANGED <<masked, gicVars, shared, private>>
  /\ UNCHANGED <<consoleVars, alarmVars, lineLen>>

unexpected_irq(i) ==
  /\ IrqUnexpected(Primary, i)
  /\ UNCHANGED <<consoleVars, alarmVars, lineLen>>

-----------------------------------------------------------------------------
Thread ==
  \/ init_gic \/ shell_setup \/ irq_enable
  \/ \E b \in Bytes : read_line(b)
  \/ /\ read_error \/ read_not_ready \/ wait_for_irq \/ read_again
     /\ UNCHANGED <<alarmVars, lineLen>>
  \/ \E d \in Delays \union {NoDelay} : alarm(d)
  \/ AlarmCommand /\ UNCHANGED <<consoleVars, lineLen>>
  \/ exit \/ other_command \/ power_off

Irq ==
  \/ handle_irq /\ UNCHANGED <<alarmVars, lineLen>>
  \/ irq_handle /\ UNCHANGED <<consoleVars, lineLen>>
  \/ irq_withdrawn /\ UNCHANGED <<alarmVars, lineLen>>
  \/ \E i \in Spis : unexpected_irq(i)

Environment ==
  \/ \E b \in Bytes : UartRx(b) /\ UNCHANGED <<alarmVars, lineLen>>
  \/ wfi_returns_early /\ UNCHANGED <<alarmVars, lineLen>>

Clock == Tick /\ UNCHANGED <<consoleVars, lineLen>>

Next == Thread \/ Irq \/ Clock \/ Environment

Spec == Init /\ [][Next]_vars

(* The core runs, takes the IRQs that are due in finite time, and time     *)
(* passes; bytes and early returns of wfi may or may not come.  Handling   *)
(* the console's IRQ takes less time than a byte does to arrive, so that   *)
(* bytes, whose IRQ has priority, do not keep the RTC's waiting for ever.  *)
FairSpec ==
  /\ Spec
  /\ WF_vars(Thread)
  /\ WF_vars(Irq)
  /\ SF_vars(irq_handle /\ UNCHANGED <<consoleVars, lineLen>>)
  /\ WF_vars(Clock)

-----------------------------------------------------------------------------
(* Properties *)

(* handle_irq finds a handler for every console and RTC interrupt from the *)
(* moment irq_enable unmasks them, except for an alarm that goes off       *)
(* between irq_remove and the end of the system.                           *)
UnexpectedIrqOnlyAtExit ==
  system = "unexpected_irq" => pc[Primary] \in {"power_off", "halted"}
=============================================================================
