------------------------------- MODULE Alarm -------------------------------
(***************************************************************************)
(* The alarm command and the RTC interrupt: src/apps/alarm.rs and,         *)
(* external, the PL031 real-time clock (crate arm-pl031).                  *)
(***************************************************************************)
EXTENDS Interrupts, Integers

CONSTANTS
  RTC_MAX,   \* the last second a u32 of the RTC can hold, where time ends
  Delays,    \* arguments of alarm that parse as an i64
  NoDelay    \* no argument, or one that does not parse

ASSUME AlarmAssumption ==
  /\ RTC_MAX \in Nat \ {0}
  /\ Delays \subseteq Int
  /\ NoDelay \notin Int

VARIABLES
  ALARM_FIRED,
  rtcNow,     \* data register: the time in seconds
  rtcMatch,   \* match register
  rtcRis,     \* raw interrupt status
  rtcIm,      \* interrupt mask register: is the interrupt let through
  delay,      \* local variables of alarm
  timestamp,
  awaited     \* history: times of alarms that were set and not yet due
              \* then, and were neither reported nor replaced

alarmVars == <<ALARM_FIRED, rtcNow, rtcMatch, rtcRis, rtcIm, delay, timestamp,
               awaited>>

AlarmTypeOK ==
  /\ ALARM_FIRED \in BOOLEAN
  /\ rtcNow \in 0..RTC_MAX
  /\ rtcMatch \in 0..RTC_MAX
  /\ rtcRis \in BOOLEAN
  /\ rtcIm \in BOOLEAN
  /\ delay \in Delays \union {NoDelay}
  /\ timestamp \in 0..RTC_MAX
  /\ awaited \in SUBSET (0..RTC_MAX)

(* The clock is past the match register, which is reset to zero. *)
AlarmInit ==
  /\ ALARM_FIRED = FALSE
  /\ rtcNow = 1
  /\ rtcMatch = 0
  /\ rtcRis = FALSE
  /\ rtcIm = FALSE
  /\ delay = NoDelay
  /\ timestamp = 0
  /\ awaited = {}

(* Alarms whose time is still to come. *)
Ahead == {t \in awaited : t > rtcNow}

(* The RTC's registers change, and its interrupt output, a level, with     *)
(* them.                                                                   *)
RtcOutput(ris, im) ==
  /\ rtcRis' = ris
  /\ rtcIm' = im
  /\ line' = [line EXCEPT ![Primary] = IF ris /\ im
                                       THEN @ \union {RTC_IRQ}
                                       ELSE @ \ {RTC_IRQ}]

(* A second passes. *)
Tick ==
  /\ system = "up"
  /\ rtcNow < RTC_MAX
  /\ rtcNow' = rtcNow + 1
  /\ RtcOutput(rtcRis \/ rtcNow + 1 = rtcMatch, rtcIm)
  /\ UNCHANGED <<system, pc, masked, ready, enabled, pending, active, running>>
  /\ UNCHANGED <<shared, private>>
  /\ UNCHANGED <<ALARM_FIRED, rtcMatch, delay, timestamp, awaited>>

(* Mutant: the interrupt is enabled without a handler. *)
MutantIrqSetup ==
  /\ UNCHANGED <<system, shared>>
  /\ enable_interrupts(Primary, {RTC_IRQ})

irq_setup ==
  /\ set_shared_irq_handler(Primary, RTC_IRQ)
  /\ enable_interrupts(Primary, {RTC_IRQ})

irq_remove == remove_shared_irq_handler(RTC_IRQ)

(* The handler leaves the interrupt active until irq_finish. *)
irq_handle ==
  /\ IrqLeftActive(Primary, RTC_IRQ)
  /\ ALARM_FIRED' = TRUE
  /\ awaited' = Ahead
  /\ UNCHANGED <<line, rtcNow, rtcMatch, rtcRis, rtcIm, delay, timestamp>>

-----------------------------------------------------------------------------
(* The alarm command, its calls in order. *)

(* Mutants: the flag is read and not reset; the RTC is not cleared. *)
MutantIrqFinishLoad ==
  /\ At(Primary, "irq_finish")
  /\ Goto(Primary, IF ALARM_FIRED THEN "clear_interrupt" ELSE "get_time")
  /\ UNCHANGED <<system, masked, gicVars, shared, private, alarmVars>>

MutantIrqFinishNoClear ==
  /\ At(Primary, "irq_finish")
  /\ Goto(Primary, IF ALARM_FIRED THEN "end_interrupt" ELSE "get_time")
  /\ ALARM_FIRED' = FALSE
  /\ UNCHANGED <<system, masked, gicVars, shared, private>>
  /\ UNCHANGED <<rtcNow, rtcMatch, rtcRis, rtcIm, delay, timestamp, awaited>>

irq_finish ==
  /\ At(Primary, "irq_finish")
  /\ Goto(Primary, IF ALARM_FIRED THEN "clear_interrupt" ELSE "get_time")
  /\ ALARM_FIRED' = FALSE
  /\ UNCHANGED <<system, masked, gicVars, shared, private>>
  /\ UNCHANGED <<rtcNow, rtcMatch, rtcRis, rtcIm, delay, timestamp, awaited>>

(* Clears the status of every alarm whose time has come. *)
clear_interrupt ==
  /\ At(Primary, "clear_interrupt")
  /\ RtcOutput(FALSE, rtcIm)
  /\ awaited' = Ahead
  /\ Goto(Primary, "end_interrupt")
  /\ UNCHANGED <<system, masked, ready, enabled, pending, active, running>>
  /\ UNCHANGED <<shared, private>>
  /\ UNCHANGED <<ALARM_FIRED, rtcNow, rtcMatch, delay, timestamp>>

end_rtc_interrupt ==
  /\ At(Primary, "end_interrupt")
  /\ end_interrupt(Primary, RTC_IRQ)
  /\ Goto(Primary, "get_time")
  /\ UNCHANGED <<system, masked, ready, enabled, pending, line>>
  /\ UNCHANGED <<shared, private, alarmVars>>

(* Parses the argument and, if there is one, reads the clock. *)
get_time ==
  /\ At(Primary, "get_time")
  /\ \/ /\ delay = NoDelay
        /\ Goto(Primary, "read")
        /\ UNCHANGED timestamp
     \/ /\ delay # NoDelay
        /\ timestamp' = rtcNow
        /\ Goto(Primary, "set_match")
  /\ UNCHANGED <<system, masked, gicVars, shared, private>>
  /\ UNCHANGED <<ALARM_FIRED, rtcNow, rtcMatch, rtcRis, rtcIm, delay, awaited>>

(* A time that does not fit the match register panics.  The write replaces *)
(* an alarm that is ahead; one whose time has come stays asserted.         *)
set_match ==
  /\ At(Primary, "set_match")
  /\ LET alarm_time == timestamp + delay IN
     \/ /\ alarm_time \in 0..RTC_MAX
        /\ rtcMatch' = alarm_time
        /\ RtcOutput(rtcRis \/ alarm_time = rtcNow, rtcIm)
        /\ awaited' = (awaited \ Ahead) \union {t \in {alarm_time} : t >= rtcNow}
        /\ Goto(Primary, "enable_interrupt")
        /\ UNCHANGED system
     \/ /\ alarm_time \notin 0..RTC_MAX
        /\ Panic("alarm_time")
        /\ UNCHANGED <<pc, line, rtcMatch, rtcRis, rtcIm, awaited>>
  /\ UNCHANGED <<masked, ready, enabled, pending, active, running>>
  /\ UNCHANGED <<shared, private, ALARM_FIRED, rtcNow, delay, timestamp>>

(* Mutant: the RTC's interrupt stays masked. *)
MutantEnableInterrupt ==
  /\ At(Primary, "enable_interrupt")
  /\ delay' = NoDelay
  /\ timestamp' = 0
  /\ Goto(Primary, "read")
  /\ UNCHANGED <<system, masked, gicVars, shared, private>>
  /\ UNCHANGED <<ALARM_FIRED, rtcNow, rtcMatch, rtcRis, rtcIm, awaited>>

enable_interrupt ==
  /\ At(Primary, "enable_interrupt")
  /\ RtcOutput(rtcRis, TRUE)
  /\ delay' = NoDelay
  /\ timestamp' = 0
  /\ Goto(Primary, "read")
  /\ UNCHANGED <<system, masked, ready, enabled, pending, active, running>>
  /\ UNCHANGED <<shared, private, ALARM_FIRED, rtcNow, rtcMatch, awaited>>

AlarmCommand ==
  \/ irq_finish
  \/ clear_interrupt
  \/ end_rtc_interrupt
  \/ get_time
  \/ set_match
  \/ enable_interrupt

-----------------------------------------------------------------------------
(* Properties *)

(* The comment on ALARM_FIRED, "The RTC alarm IRQ has fired, and we have   *)
(* not yet cleared the interrupt": while it is set the RTC asserts its     *)
(* interrupt and the GIC holds it active; and the GIC holds it active only *)
(* while the flag is set or irq_finish is on its way to end it.            *)
AlarmFiredUntilFinished ==
  /\ ALARM_FIRED =>
       rtcRis /\ rtcIm /\ RTC_IRQ \in active[Primary] \intersect running[Primary]
  /\ RTC_IRQ \in active[Primary] \union running[Primary] /\ system = "up" =>
       ALARM_FIRED \/ pc[Primary] \in {"clear_interrupt", "end_interrupt"}

(* An alarm rings from irq_handle until irq_finish clears the RTC. *)
Ringing == ALARM_FIRED \/ pc[Primary] = "clear_interrupt"

Timer == INSTANCE AlarmClock WITH now <- rtcNow, due <- awaited, rung <- Ringing

(* The steps of the alarm command, the RTC and irq_handle implement        *)
(* AlarmClock: irq_handle reports only an alarm that was set and whose     *)
(* time has come, and once.  The IRQ of an alarm may be taken as late as   *)
(* after the next alarm is written to the match register, when it reports  *)
(* the older one; an alarm may also come due between irq_finish and that   *)
(* write, and the clock may pass the new time before it is written.        *)
AlarmClockSpec == Timer!Spec

(* An alarm that is still to come while neither the RTC nor the GIC holds  *)
(* an earlier one is reported, unless another alarm replaces it or the     *)
(* system stops.                                                           *)
AlarmReportedIfFinished ==
  \A t \in 0..RTC_MAX :
    (t = rtcMatch /\ rtcNow < t /\ ~rtcRis /\ RTC_IRQ \notin active[Primary])
      ~> (ALARM_FIRED \/ t # rtcMatch \/ system # "up")

(* The comment on irq_finish, "Finishes handling the alarm IRQ, ready to   *)
(* set another alarm in future": every alarm set after it is reported.     *)
AlarmReported ==
  \A t \in 0..RTC_MAX : t \in awaited ~> (t \notin awaited \/ system # "up")
=============================================================================
