------------------------- MODULE PrimaryCoreProofs -------------------------
(***************************************************************************)
(* Safety of the primary core for every size of the UART's buffer, of the  *)
(* line and of the clock, every set of delays and both triggers.           *)
(***************************************************************************)
EXTENDS PrimaryCore, TLAPS

(* Labels at which irq_enable has not run yet. *)
BootLabels == {"init_gic", "set_console_handler", "irq_setup", "irq_enable"}

(* Once unmasked, the core can be signalled both interrupts; an enabled    *)
(* interrupt has its handler, but for the time that setup_gic takes, with  *)
(* IRQs masked, and from irq_remove on.                                    *)
HandlersReady ==
  /\ private[Primary] = {}
  /\ pc[Primary] \in BootLabels => masked[Primary]
  /\ pc[Primary] = "irq_enable" => ready[Primary] /\ RTC_IRQ \in enabled[Primary]
  /\ pc[Primary] \notin BootLabels =>
       ~masked[Primary] /\ ready[Primary] /\ RTC_IRQ \in enabled[Primary]
  /\ CONSOLE_IRQ \in enabled[Primary] =>
       CONSOLE_IRQ \in shared \/ pc[Primary] = "set_console_handler"
  /\ RTC_IRQ \in enabled[Primary] =>
       RTC_IRQ \in shared \/ pc[Primary] \in {"power_off", "halted"}
  /\ UnexpectedIrqOnlyAtExit

(* The RTC's output follows its registers; they are at rest before the     *)
(* first alarm; and while irq_finish runs the GIC holds the interrupt.     *)
RtcAgrees ==
  /\ RTC_IRQ \in line[Primary] <=> rtcRis /\ rtcIm
  /\ RTC_IRQ \notin pending[Primary]
  /\ rtcNow >= 1
  /\ ~rtcIm /\ pc[Primary] # "enable_interrupt" => ~rtcRis /\ rtcMatch = 0
  /\ pc[Primary] \in {"clear_interrupt", "end_interrupt"} =>
       ~ALARM_FIRED /\ rtcIm /\ RTC_IRQ \in active[Primary] \intersect running[Primary]
  /\ system = "up" => running[Primary] \subseteq {RTC_IRQ}
  /\ AlarmFiredUntilFinished

(* SleepsOnDataOnlyIfMissed already holds one step before wfi. *)
WaitsOnDataOnlyIfMissed ==
  pc[Primary] \in {"before_wfi", "wfi"} /\ rx # <<>> =>
    missed \/ CONSOLE_IRQ \in pending[Primary] \union line[Primary]

IInv == TypeOK /\ HandlersReady /\ RtcAgrees /\ WaitsOnDataOnlyIfMissed
-----------------------------------------------------------------------------
(* The CPU interface presents only interrupts that are enabled, pending or *)
(* asserted, and not active.                                               *)
LEMMA AcknowledgedIsSignalled ==
  ASSUME NEW c \in Cores, NEW i \in Acknowledgeable(c)
  PROVE  /\ i \in enabled[c]
         /\ i \in pending[c] \union line[c]
         /\ i \notin active[c]
BY DEF Acknowledgeable, Signalled

(* main hands over to init_gic in a state that satisfies the invariant. *)
LEMMA InitIInv == Init => IInv
<1> SUFFICES ASSUME Init PROVE IInv
  OBVIOUS
<1> USE InterruptsAssumption, ConsoleAssumption, AlarmAssumption,
        PrimaryCoreAssumption
<1>1. InterruptsTypeOK /\ pc \in [Cores -> Labels]
  BY DEF Init, InterruptsTypeOK, Labels
<1>2. ConsoleTypeOK /\ lineLen \in 0..LINE_MAX
  <2>1. RX_DEPTH \in Nat \ {0} /\ LINE_MAX \in Nat \ {0}
    BY ConsoleAssumption, PrimaryCoreAssumption
  <2>2. rx = <<>> /\ lineLen = 0
    BY DEF Init, ConsoleInit
  <2>3. missed \in BOOLEAN
    BY Zenon DEF Init, ConsoleInit
  <2> QED BY <2>1, <2>2, <2>3 DEF ConsoleTypeOK
<1>3. AlarmTypeOK
  <2>1. RTC_MAX \in Nat \ {0} /\ NoDelay \in Delays \union {NoDelay}
    BY AlarmAssumption
  <2>2. rtcNow = 1 /\ rtcMatch = 0 /\ timestamp = 0 /\ delay = NoDelay
    BY DEF Init, AlarmInit
  <2>3. {ALARM_FIRED, rtcRis, rtcIm} \subseteq BOOLEAN /\ awaited = {}
    BY Zenon DEF Init, AlarmInit
  <2> QED BY <2>1, <2>2, <2>3 DEF AlarmTypeOK
<1>4. HandlersReady
  BY DEF Init, HandlersReady, BootLabels, UnexpectedIrqOnlyAtExit
<1>5. RtcAgrees /\ WaitsOnDataOnlyIfMissed
  BY SMTT(30) DEF Init, AlarmInit, ConsoleInit, RtcAgrees, AlarmFiredUntilFinished,
         WaitsOnDataOnlyIfMissed
<1> QED BY <1>1, <1>2, <1>3, <1>4, <1>5 DEF IInv, TypeOK

(* Every step of the thread, its interrupts, the clock and the devices     *)
(* keeps the types.                                                        *)
LEMMA NextKeepsTypes ==
  ASSUME TypeOK, [Next]_vars
  PROVE  TypeOK'
<1> USE InterruptsAssumption, ConsoleAssumption, AlarmAssumption,
        PrimaryCoreAssumption
<1> USE DEF TypeOK, InterruptsTypeOK, ConsoleTypeOK, AlarmTypeOK, Labels, Panics,
            IntIds, Spis, Goto, Panic, irqVars, gicVars, consoleVars, alarmVars
<1>1. CASE init_gic
  BY <1>1 DEF init_gic, setup_gic_enable, setup_gic_handler,
              set_shared_irq_handler, enable_interrupts
<1>2. CASE shell_setup
  BY <1>2 DEF shell_setup, irq_setup, set_shared_irq_handler, enable_interrupts
<1>3. CASE irq_enable
  BY <1>3 DEF irq_enable
<1>4. CASE \E b \in Bytes : read_line(b)
  <2> PICK b \in Bytes : read_line(b)
    BY <1>4
  <2>1. lineLen' \in 0..LINE_MAX
    BY DEF read_line
  <2>2. rx' \in Seq(Bytes) /\ Len(rx') <= RX_DEPTH /\ missed' = FALSE
    BY DEF read_line, ReadByte
  <2>3. line' \in [Cores -> SUBSET IntIds]
    BY DEF read_line, ReadByte, ConsoleLineLow
  <2>4. /\ system' \in {"up", "off"} \union Panics
        /\ pc' \in [Cores -> Labels]
        /\ shared' \in SUBSET IntIds
    BY DEF read_line, ReadByte, irq_remove, remove_shared_irq_handler
  <2> QED BY <2>1, <2>2, <2>3, <2>4, Zenon DEF read_line
<1>5. CASE read_not_ready /\ UNCHANGED <<alarmVars, lineLen>>
  BY <1>5, ZenonT(30) DEF read_not_ready
<1>6. CASE wait_for_irq /\ UNCHANGED <<alarmVars, lineLen>>
  BY <1>6 DEF wait_for_irq
<1>7. CASE read_again /\ UNCHANGED <<alarmVars, lineLen>>
  BY <1>7 DEF read_again
<1>8. CASE \E d \in Delays \union {NoDelay} : alarm(d)
  BY <1>8 DEF alarm
<1>9. CASE irq_finish /\ UNCHANGED <<consoleVars, lineLen>>
  BY <1>9, ZenonT(30) DEF irq_finish
<1>10. CASE clear_interrupt /\ UNCHANGED <<consoleVars, lineLen>>
  BY <1>10, ZenonT(30) DEF clear_interrupt, RtcOutput, Ahead
<1>11. CASE end_rtc_interrupt /\ UNCHANGED <<consoleVars, lineLen>>
  BY <1>11 DEF end_rtc_interrupt, end_interrupt
<1>12. CASE get_time /\ UNCHANGED <<consoleVars, lineLen>>
  BY <1>12 DEF get_time
<1>13. CASE set_match /\ UNCHANGED <<consoleVars, lineLen>>
  <2>1. rtcMatch' \in 0..RTC_MAX
    BY <1>13, Zenon DEF set_match
  <2>2. line' \in [Cores -> SUBSET IntIds]
    BY <1>13 DEF set_match, RtcOutput
  <2>3. rtcRis' \in BOOLEAN /\ rtcIm' \in BOOLEAN /\ awaited' \in SUBSET (0..RTC_MAX)
    <3>1. CASE timestamp + delay \in 0..RTC_MAX
      <4>1. rtcRis' = (rtcRis \/ timestamp + delay = rtcNow) /\ rtcIm' = rtcIm
        BY <1>13, <3>1, Zenon DEF set_match, RtcOutput
      <4>2. awaited' = (awaited \ Ahead) \union {t \in {timestamp + delay} : t >= rtcNow}
        BY <1>13, <3>1, Zenon DEF set_match
      <4> QED BY <3>1, <4>1, <4>2, Zenon
    <3>2. CASE timestamp + delay \notin 0..RTC_MAX
      BY <1>13, <3>2, Zenon DEF set_match
    <3> QED BY <3>1, <3>2, Zenon
  <2>4. system' \in {"up", "off"} \union Panics /\ pc' \in [Cores -> Labels]
    BY <1>13 DEF set_match
  <2> QED BY <1>13, <2>1, <2>2, <2>3, <2>4, Zenon DEF set_match
<1>14. CASE enable_interrupt /\ UNCHANGED <<consoleVars, lineLen>>
  BY <1>14 DEF enable_interrupt, RtcOutput
<1>15. CASE exit
  BY <1>15 DEF exit, irq_remove, remove_shared_irq_handler
<1>16. CASE other_command
  BY <1>16 DEF other_command
<1>17. CASE power_off
  BY <1>17 DEF power_off
<1>18. CASE handle_irq /\ UNCHANGED <<alarmVars, lineLen>>
  BY <1>18 DEF handle_irq, IrqEnded, irq_current, ReturnFromIrq, ConsoleLineLow
<1>19. CASE irq_handle /\ UNCHANGED <<consoleVars, lineLen>>
  BY <1>19, Zenon DEF irq_handle, IrqLeftActive, irq_current, ReturnFromIrq, Ahead
<1>20. CASE \E i \in Spis : unexpected_irq(i)
  BY <1>20 DEF unexpected_irq, IrqUnexpected, irq_current
<1>21. CASE (\E b \in Bytes : UartRx(b)) /\ UNCHANGED <<alarmVars, lineLen>>
  <2>1. PICK b \in Bytes : UartRx(b)
    BY <1>21
  <2>2. Len(rx) < RX_DEPTH /\ rx' = Append(rx, b)
    BY <2>1, Zenon DEF UartRx
  <2>3. rx' \in Seq(Bytes) /\ Len(rx') <= RX_DEPTH
    BY <2>2
  <2>4. line' \in [Cores -> SUBSET IntIds] /\ pending' \in [Cores -> SUBSET IntIds]
    <3>1. /\ \/ UNCHANGED line
             \/ line' = [line EXCEPT ![Primary] = @ \union {CONSOLE_IRQ}]
          /\ \/ UNCHANGED pending
             \/ pending' = [pending EXCEPT ![Primary] = @ \union {CONSOLE_IRQ}]
      BY <2>1, Zenon DEF UartRx
    <3>2. \A S \in SUBSET IntIds : S \union {CONSOLE_IRQ} \in SUBSET IntIds
      BY Zenon DEF IntIds, Spis
    <3>3. line \in [Cores -> SUBSET IntIds] /\ pending \in [Cores -> SUBSET IntIds]
      BY Zenon
    <3> HIDE DEF TypeOK, InterruptsTypeOK, ConsoleTypeOK, AlarmTypeOK, Labels, Panics,
                 IntIds
    <3>4. line' \in [Cores -> SUBSET IntIds]
      BY <3>1, <3>2, <3>3
    <3>5. pending' \in [Cores -> SUBSET IntIds]
      BY <3>1, <3>2, <3>3
    <3> QED BY <3>4, <3>5
  <2> QED BY <1>21, <2>1, <2>3, <2>4, Zenon DEF UartRx
<1>22. CASE wfi_returns_early /\ UNCHANGED <<alarmVars, lineLen>>
  BY <1>22 DEF wfi_returns_early, WfiReturnsEarly
<1>23. CASE Tick /\ UNCHANGED <<consoleVars, lineLen>>
  BY <1>23 DEF Tick, RtcOutput
<1>24. CASE UNCHANGED vars
  BY <1>24 DEF vars
<1>25. CASE read_error /\ UNCHANGED <<alarmVars, lineLen>>
  BY <1>25, Zenon DEF read_error
<1>26. CASE irq_withdrawn /\ UNCHANGED <<alarmVars, lineLen>>
  <2>1. rx' \in Seq(Bytes) /\ Len(rx') <= RX_DEPTH
    <3>1. rx' = <<>>
      BY <1>26, Zenon DEF irq_withdrawn
    <3> QED BY <3>1
  <2>2. line' \in [Cores -> SUBSET IntIds]
    BY <1>26, Zenon DEF irq_withdrawn, ConsoleLineLow
  <2> QED BY <1>26, <2>1, <2>2, Zenon DEF irq_withdrawn
<1> QED
  BY <1>1, <1>2, <1>3, <1>4, <1>5, <1>6, <1>7, <1>8, <1>9, <1>10, <1>11, <1>12,
     <1>13, <1>14, <1>15, <1>16, <1>17, <1>18, <1>19, <1>20, <1>21, <1>22,
     <1>23, <1>24, <1>25, <1>26, ZenonT(30)
  DEF Next, Thread, Irq, Environment, Clock, AlarmCommand

(* Before irq_remove every enabled interrupt has its handler, so handle_irq *)
(* can only find none for the RTC's, on the way to power_off.               *)
LEMMA UnexpectedIsRtc ==
  ASSUME HandlersReady, NEW i \in Spis, unexpected_irq(i)
  PROVE  i = RTC_IRQ /\ pc[Primary] \in {"power_off", "halted"}
<1>1. i \in enabled[Primary] /\ i \notin shared
  BY AcknowledgedIsSignalled, InterruptsAssumption
  DEF unexpected_irq, IrqUnexpected, irq_current
<1>2. ~masked[Primary]
  BY Zenon DEF unexpected_irq, IrqUnexpected, irq_current
<1> QED BY <1>1, <1>2 DEF Spis, HandlersReady, BootLabels

(* Every step keeps the handlers of the interrupts that are enabled, until *)
(* irq_remove.                                                             *)
LEMMA NextKeepsHandlers ==
  ASSUME TypeOK, HandlersReady, [Next]_vars
  PROVE  HandlersReady'
<1> USE InterruptsAssumption
<1>t. /\ pc \in [Cores -> Labels]
      /\ enabled \in [Cores -> SUBSET IntIds]
      /\ masked \in [Cores -> BOOLEAN]
      /\ ready \in [Cores -> BOOLEAN]
      /\ private \in [Cores -> SUBSET IntIds]
  BY Zenon DEF TypeOK, InterruptsTypeOK
<1> USE DEF HandlersReady, BootLabels, UnexpectedIrqOnlyAtExit, At, Goto, Panic,
            irqVars, gicVars
<1>1. CASE init_gic
  BY <1>t, <1>1 DEF init_gic, setup_gic_enable, setup_gic_handler,
              set_shared_irq_handler, enable_interrupts
<1>2. CASE shell_setup
  BY <1>t, <1>2 DEF shell_setup, irq_setup, set_shared_irq_handler, enable_interrupts
<1>3. CASE irq_enable
  BY <1>t, <1>3 DEF irq_enable
<1>4. CASE \E b \in Bytes : read_line(b)
  BY <1>t, <1>4 DEF read_line, ReadByte, irq_remove, remove_shared_irq_handler
<1>5. CASE read_not_ready /\ UNCHANGED <<alarmVars, lineLen>>
  BY <1>t, <1>5 DEF read_not_ready
<1>6. CASE wait_for_irq /\ UNCHANGED <<alarmVars, lineLen>>
  BY <1>t, <1>6 DEF wait_for_irq
<1>7. CASE read_again /\ UNCHANGED <<alarmVars, lineLen>>
  BY <1>t, <1>7 DEF read_again
<1>8. CASE \E d \in Delays \union {NoDelay} : alarm(d)
  BY <1>t, <1>8 DEF alarm
<1>9. CASE irq_finish /\ UNCHANGED <<consoleVars, lineLen>>
  BY <1>t, <1>9 DEF irq_finish
<1>10. CASE clear_interrupt /\ UNCHANGED <<consoleVars, lineLen>>
  BY <1>t, <1>10 DEF clear_interrupt
<1>11. CASE end_rtc_interrupt /\ UNCHANGED <<consoleVars, lineLen>>
  BY <1>t, <1>11 DEF end_rtc_interrupt
<1>12. CASE get_time /\ UNCHANGED <<consoleVars, lineLen>>
  BY <1>t, <1>12 DEF get_time
<1>13. CASE set_match /\ UNCHANGED <<consoleVars, lineLen>>
  BY <1>t, <1>13 DEF set_match
<1>14. CASE enable_interrupt /\ UNCHANGED <<consoleVars, lineLen>>
  BY <1>t, <1>14 DEF enable_interrupt
<1>15. CASE exit
  BY <1>t, <1>15 DEF exit, irq_remove, remove_shared_irq_handler
<1>16. CASE other_command
  BY <1>t, <1>16 DEF other_command
<1>17. CASE power_off
  BY <1>t, <1>17 DEF power_off
<1>18. CASE handle_irq /\ UNCHANGED <<alarmVars, lineLen>>
  BY <1>t, <1>18 DEF handle_irq, IrqEnded, irq_current, ReturnFromIrq
<1>19. CASE irq_handle /\ UNCHANGED <<consoleVars, lineLen>>
  BY <1>t, <1>19 DEF irq_handle, IrqLeftActive, irq_current, ReturnFromIrq
<1>20. CASE \E i \in Spis : unexpected_irq(i)
  <2> PICK i \in Spis : unexpected_irq(i)
    BY <1>20
  <2> QED BY UnexpectedIsRtc, <1>t, Zenon DEF unexpected_irq, IrqUnexpected, irq_current
<1>21. CASE (\E b \in Bytes : UartRx(b)) /\ UNCHANGED <<alarmVars, lineLen>>
  BY <1>t, <1>21 DEF UartRx
<1>22. CASE wfi_returns_early /\ UNCHANGED <<alarmVars, lineLen>>
  BY <1>t, <1>22 DEF wfi_returns_early, WfiReturnsEarly
<1>23. CASE Tick /\ UNCHANGED <<consoleVars, lineLen>>
  BY <1>t, <1>23 DEF Tick
<1>24. CASE UNCHANGED vars
  BY <1>t, <1>24 DEF vars
<1>25. CASE read_error /\ UNCHANGED <<alarmVars, lineLen>>
  BY <1>t, <1>25, Zenon DEF read_error
<1>26. CASE irq_withdrawn /\ UNCHANGED <<alarmVars, lineLen>>
  BY <1>t, <1>26 DEF irq_withdrawn
<1> QED
  BY <1>1, <1>2, <1>3, <1>4, <1>5, <1>6, <1>7, <1>8, <1>9, <1>10, <1>11, <1>12,
     <1>13, <1>14, <1>15, <1>16, <1>17, <1>18, <1>19, <1>20, <1>21, <1>22,
     <1>23, <1>24, <1>25, <1>26, Zenon
  DEF Next, Thread, Irq, Environment, Clock, AlarmCommand

(* Every step keeps WaitsOnDataOnlyIfMissed. *)
LEMMA NextKeepsWaits ==
  ASSUME TypeOK, HandlersReady, WaitsOnDataOnlyIfMissed, [Next]_vars
  PROVE  WaitsOnDataOnlyIfMissed'
<1> USE InterruptsAssumption, ConsoleAssumption
<1>t. /\ pc \in [Cores -> Labels]
      /\ pending \in [Cores -> SUBSET IntIds]
      /\ line \in [Cores -> SUBSET IntIds]
  BY Zenon DEF TypeOK, InterruptsTypeOK
<1> USE DEF WaitsOnDataOnlyIfMissed, At, Goto, irqVars, gicVars, consoleVars
<1>1. CASE init_gic
  BY <1>t, <1>1 DEF init_gic, setup_gic_enable, setup_gic_handler,
              set_shared_irq_handler, enable_interrupts
<1>2. CASE shell_setup
  BY <1>t, <1>2 DEF shell_setup, irq_setup, set_shared_irq_handler, enable_interrupts
<1>3. CASE irq_enable
  BY <1>t, <1>3 DEF irq_enable
<1>4. CASE \E b \in Bytes : read_line(b)
  BY <1>t, <1>4 DEF read_line, ReadByte, irq_remove, remove_shared_irq_handler
<1>5. CASE read_not_ready /\ UNCHANGED <<alarmVars, lineLen>>
  BY <1>t, <1>5 DEF read_not_ready
<1>6. CASE wait_for_irq /\ UNCHANGED <<alarmVars, lineLen>>
  BY <1>t, <1>6 DEF wait_for_irq
<1>7. CASE read_again /\ UNCHANGED <<alarmVars, lineLen>>
  BY <1>t, <1>7 DEF read_again
<1>8. CASE \E d \in Delays \union {NoDelay} : alarm(d)
  BY <1>t, <1>8 DEF alarm
<1>9. CASE irq_finish /\ UNCHANGED <<consoleVars, lineLen>>
  BY <1>t, <1>9 DEF irq_finish
<1>10. CASE clear_interrupt /\ UNCHANGED <<consoleVars, lineLen>>
  BY <1>t, <1>10 DEF clear_interrupt, RtcOutput
<1>11. CASE end_rtc_interrupt /\ UNCHANGED <<consoleVars, lineLen>>
  BY <1>t, <1>11 DEF end_rtc_interrupt
<1>12. CASE get_time /\ UNCHANGED <<consoleVars, lineLen>>
  BY <1>t, <1>12 DEF get_time
<1>13. CASE set_match /\ UNCHANGED <<consoleVars, lineLen>>
  BY <1>t, <1>13 DEF set_match, RtcOutput
<1>14. CASE enable_interrupt /\ UNCHANGED <<consoleVars, lineLen>>
  BY <1>t, <1>14 DEF enable_interrupt, RtcOutput
<1>15. CASE exit
  BY <1>t, <1>15 DEF exit, irq_remove, remove_shared_irq_handler
<1>16. CASE other_command
  BY <1>t, <1>16 DEF other_command
<1>17. CASE power_off
  BY <1>t, <1>17 DEF power_off
<1>18. CASE handle_irq /\ UNCHANGED <<alarmVars, lineLen>>
  BY <1>t, <1>18, Zenon DEF handle_irq, IrqEnded, irq_current, ReturnFromIrq
<1>19. CASE irq_handle /\ UNCHANGED <<consoleVars, lineLen>>
  BY <1>t, <1>19 DEF irq_handle, IrqLeftActive, irq_current, ReturnFromIrq
<1>20. CASE \E i \in Spis : unexpected_irq(i)
  <2> PICK i \in Spis : unexpected_irq(i)
    BY <1>20
  <2>1. i = RTC_IRQ
    BY UnexpectedIsRtc, Zenon
  <2>2. /\ UNCHANGED <<pc, line, rx, missed>>
        /\ pending' = [pending EXCEPT ![Primary] = @ \ {i}]
    BY Zenon DEF unexpected_irq, IrqUnexpected, irq_current
  <2> QED BY <1>t, <2>1, <2>2
<1>21. CASE (\E b \in Bytes : UartRx(b)) /\ UNCHANGED <<alarmVars, lineLen>>
  BY <1>t, <1>21 DEF UartRx
<1>22. CASE wfi_returns_early /\ UNCHANGED <<alarmVars, lineLen>>
  BY <1>t, <1>22 DEF wfi_returns_early, WfiReturnsEarly
<1>23. CASE Tick /\ UNCHANGED <<consoleVars, lineLen>>
  BY <1>t, <1>23 DEF Tick, RtcOutput
<1>24. CASE UNCHANGED vars
  BY <1>t, <1>24 DEF vars
<1>25. CASE read_error /\ UNCHANGED <<alarmVars, lineLen>>
  BY <1>t, <1>25, Zenon DEF read_error
<1>26. CASE irq_withdrawn /\ UNCHANGED <<alarmVars, lineLen>>
  BY <1>t, <1>26 DEF irq_withdrawn, ConsoleLineLow
<1> QED
  BY <1>1, <1>2, <1>3, <1>4, <1>5, <1>6, <1>7, <1>8, <1>9, <1>10, <1>11, <1>12,
     <1>13, <1>14, <1>15, <1>16, <1>17, <1>18, <1>19, <1>20, <1>21, <1>22,
     <1>23, <1>24, <1>25, <1>26, Zenon
  DEF Next, Thread, Irq, Environment, Clock, AlarmCommand

(* Every step keeps the RTC, the flag and the GIC in agreement. *)
LEMMA NextKeepsRtc ==
  ASSUME IInv, [Next]_vars
  PROVE  RtcAgrees'
<1> USE InterruptsAssumption, AlarmAssumption
<1>t. /\ pc \in [Cores -> Labels]
      /\ pending \in [Cores -> SUBSET IntIds]
      /\ line \in [Cores -> SUBSET IntIds]
      /\ active \in [Cores -> SUBSET IntIds]
      /\ running \in [Cores -> SUBSET IntIds]
      /\ RtcAgrees
  BY Zenon DEF IInv, TypeOK, InterruptsTypeOK
<1>n. rtcNow \in 0..RTC_MAX /\ rtcMatch \in 0..RTC_MAX
  BY Zenon DEF IInv, TypeOK, AlarmTypeOK
<1> USE DEF RtcAgrees, AlarmFiredUntilFinished, At, Goto, Panic, irqVars, gicVars,
            alarmVars
<1>1. CASE init_gic
  BY <1>t, <1>1, Zenon DEF init_gic, setup_gic_enable, setup_gic_handler,
              set_shared_irq_handler, enable_interrupts
<1>2. CASE shell_setup
  BY <1>t, <1>2 DEF shell_setup, irq_setup, set_shared_irq_handler, enable_interrupts
<1>3. CASE irq_enable
  BY <1>t, <1>3, Zenon DEF irq_enable
<1>4. CASE \E b \in Bytes : read_line(b)
  <2>1. /\ pc[Primary] = "read" /\ system = "up"
        /\ UNCHANGED <<pending, active, running, alarmVars>>
    BY <1>4, Zenon DEF read_line, ReadByte
  <2>2. UNCHANGED line \/ line' = [line EXCEPT ![Primary] = @ \ {CONSOLE_IRQ}]
    BY <1>4, Zenon DEF read_line, ReadByte, ConsoleLineLow
  <2>3. RTC_IRQ \in line'[Primary] <=> RTC_IRQ \in line[Primary]
    BY <1>t, <2>2
  <2>4. pc'[Primary] \in {"read", "command", "power_off"}
    BY <1>t, <1>4, <2>1 DEF read_line
  <2> QED BY <1>t, <2>1, <2>3, <2>4, Zenon
<1>5. CASE read_not_ready /\ UNCHANGED <<alarmVars, lineLen>>
  BY <1>t, <1>5 DEF read_not_ready
<1>6. CASE wait_for_irq /\ UNCHANGED <<alarmVars, lineLen>>
  BY <1>t, <1>6, Zenon DEF wait_for_irq
<1>7. CASE read_again /\ UNCHANGED <<alarmVars, lineLen>>
  BY <1>t, <1>7, Zenon DEF read_again
<1>8. CASE \E d \in Delays \union {NoDelay} : alarm(d)
  BY <1>t, <1>8 DEF alarm
<1>9. CASE irq_finish /\ UNCHANGED <<consoleVars, lineLen>>
  BY <1>t, <1>9, Zenon DEF irq_finish
<1>10. CASE clear_interrupt /\ UNCHANGED <<consoleVars, lineLen>>
  BY <1>t, <1>10, Zenon DEF clear_interrupt, RtcOutput
<1>11. CASE end_rtc_interrupt /\ UNCHANGED <<consoleVars, lineLen>>
  BY <1>t, <1>11 DEF end_rtc_interrupt, end_interrupt
<1>12. CASE get_time /\ UNCHANGED <<consoleVars, lineLen>>
  BY <1>t, <1>12 DEF get_time
<1>13. CASE set_match /\ UNCHANGED <<consoleVars, lineLen>>
  <2>2. CASE timestamp + delay \in 0..RTC_MAX
    <3> PICK t \in 0..RTC_MAX : t = timestamp + delay
      BY <2>2
    <3>1. /\ rtcMatch' = t
          /\ rtcRis' = (rtcRis \/ t = rtcNow)
          /\ rtcIm' = rtcIm
          /\ line' = [line EXCEPT ![Primary] = IF rtcRis' /\ rtcIm
                                               THEN @ \union {RTC_IRQ}
                                               ELSE @ \ {RTC_IRQ}]
          /\ pc' = [pc EXCEPT ![Primary] = "enable_interrupt"]
          /\ UNCHANGED system
      BY <1>13, <2>2, Zenon DEF set_match, RtcOutput
    <3>2. UNCHANGED <<pending, active, running, ALARM_FIRED, rtcNow>>
      BY <1>13, Zenon DEF set_match
    <3>3. pc[Primary] = "set_match" /\ system = "up"
      BY <1>13, Zenon DEF set_match
    <3>4. pc'[Primary] = "enable_interrupt"
      BY <1>t, <3>1
    <3>5. RTC_IRQ \in line'[Primary] <=> rtcRis' /\ rtcIm'
      BY <1>t, <3>1
    <3>7. AlarmFiredUntilFinished'
      BY <1>t, <3>1, <3>2, <3>3, <3>4, Zenon
    <3> QED BY <1>t, <3>1, <3>2, <3>3, <3>4, <3>5, <3>7
  <2>3. CASE timestamp + delay \notin 0..RTC_MAX
    <3>1. /\ system' = "alarm_time"
          /\ UNCHANGED <<pc, line, pending, active, running, ALARM_FIRED, rtcNow,
                         rtcMatch, rtcRis, rtcIm>>
      BY <1>13, <2>3, Zenon DEF set_match
    <3> QED BY <1>t, <3>1, Zenon
  <2> QED BY <2>2, <2>3, Zenon
<1>14. CASE enable_interrupt /\ UNCHANGED <<consoleVars, lineLen>>
  BY <1>t, <1>n, <1>14, Zenon DEF enable_interrupt, RtcOutput
<1>15. CASE exit
  BY <1>t, <1>15, Zenon DEF exit, irq_remove, remove_shared_irq_handler
<1>16. CASE other_command
  BY <1>t, <1>16, Zenon DEF other_command
<1>17. CASE power_off
  BY <1>t, <1>17, Zenon DEF power_off
<1>18. CASE handle_irq /\ UNCHANGED <<alarmVars, lineLen>>
  BY <1>t, <1>18, Zenon DEF handle_irq, IrqEnded, irq_current, ReturnFromIrq, ConsoleLineLow
<1>19. CASE irq_handle /\ UNCHANGED <<consoleVars, lineLen>>
  <2>1. /\ RTC_IRQ \in line[Primary]
        /\ RTC_IRQ \notin active[Primary]
    BY <1>t, <1>19, AcknowledgedIsSignalled, Zenon DEF irq_handle, IrqLeftActive, irq_current
  <2> QED
    BY <1>t, <1>19, <2>1, Zenon DEF irq_handle, IrqLeftActive, irq_current, ReturnFromIrq
<1>20. CASE \E i \in Spis : unexpected_irq(i)
  <2> PICK i \in Spis : unexpected_irq(i)
    BY <1>20
  <2>1. /\ system' = "unexpected_irq"
        /\ UNCHANGED <<pc, line, ALARM_FIRED, rtcNow, rtcMatch, rtcRis, rtcIm>>
    BY Zenon DEF unexpected_irq, IrqUnexpected
  <2>2. /\ pending' = [pending EXCEPT ![Primary] = @ \ {i}]
        /\ active' = [active EXCEPT ![Primary] = @ \union {i}]
        /\ running' = [running EXCEPT ![Primary] = @ \union {i}]
    BY Zenon DEF unexpected_irq, IrqUnexpected, irq_current
  <2> QED BY <1>t, <2>1, <2>2
<1>21. CASE (\E b \in Bytes : UartRx(b)) /\ UNCHANGED <<alarmVars, lineLen>>
  <2>1. UNCHANGED <<system, pc, active, running, alarmVars>>
    BY <1>21, Zenon DEF UartRx
  <2>2. /\ \/ UNCHANGED line
           \/ line' = [line EXCEPT ![Primary] = @ \union {CONSOLE_IRQ}]
        /\ \/ UNCHANGED pending
           \/ pending' = [pending EXCEPT ![Primary] = @ \union {CONSOLE_IRQ}]
    BY <1>21, Zenon DEF UartRx
  <2>3. /\ RTC_IRQ \in line'[Primary] <=> RTC_IRQ \in line[Primary]
        /\ RTC_IRQ \in pending'[Primary] <=> RTC_IRQ \in pending[Primary]
    BY <1>t, <2>2
  <2> QED BY <1>t, <2>1, <2>3, Zenon
<1>22. CASE wfi_returns_early /\ UNCHANGED <<alarmVars, lineLen>>
  BY <1>t, <1>22 DEF wfi_returns_early, WfiReturnsEarly
<1>23. CASE Tick /\ UNCHANGED <<consoleVars, lineLen>>
  <2>1. /\ rtcNow' = rtcNow + 1
        /\ rtcRis' = (rtcRis \/ rtcNow + 1 = rtcMatch)
        /\ UNCHANGED <<system, pc, pending, active, running, ALARM_FIRED, rtcMatch, rtcIm>>
    BY <1>23, Zenon DEF Tick, RtcOutput
  <2>2. RTC_IRQ \in line'[Primary] <=> rtcRis' /\ rtcIm'
    BY <1>t, <1>23, Zenon DEF Tick, RtcOutput
  <2>3. rtcNow' >= 1
    BY <1>t, <1>n, <2>1
  <2>4. rtcRis' => rtcRis \/ rtcMatch = rtcNow + 1
    BY <2>1, Zenon
  <2>5. ~rtcIm /\ pc[Primary] # "enable_interrupt" => ~rtcRis'
    <3>1. rtcMatch # rtcNow + 1 \/ rtcMatch # 0
      BY <1>n
    <3> QED BY <1>t, <2>4, <3>1, Zenon
  <2>7. AlarmFiredUntilFinished'
    BY <1>t, <2>1, Zenon
  <2> QED BY <1>t, <2>1, <2>2, <2>3, <2>5, <2>7, Zenon
<1>24. CASE UNCHANGED vars
  BY <1>t, <1>24 DEF vars
<1>25. CASE read_error /\ UNCHANGED <<alarmVars, lineLen>>
  BY <1>t, <1>25, Zenon DEF read_error
<1>26. CASE irq_withdrawn /\ UNCHANGED <<alarmVars, lineLen>>
  BY <1>t, <1>26 DEF irq_withdrawn, ConsoleLineLow
<1> QED
  BY <1>1, <1>2, <1>3, <1>4, <1>5, <1>6, <1>7, <1>8, <1>9, <1>10, <1>11, <1>12,
     <1>13, <1>14, <1>15, <1>16, <1>17, <1>18, <1>19, <1>20, <1>21, <1>22,
     <1>23, <1>24, <1>25, <1>26, Zenon
  DEF Next, Thread, Irq, Environment, Clock, AlarmCommand

(* Every step of the thread, its interrupts, the clock and the devices     *)
(* keeps the invariant.                                                    *)
LEMMA NextKeepsIInv ==
  ASSUME IInv, [Next]_vars
  PROVE  IInv'
BY NextKeepsTypes, NextKeepsHandlers, NextKeepsRtc, NextKeepsWaits, Zenon DEF IInv

-----------------------------------------------------------------------------
(* The invariant holds in every reachable state of the primary core. *)
LEMMA InvariantHolds == Spec => []IInv
BY InitIInv, NextKeepsIInv, PTL DEF Spec

(* The registers, tables and buffers of the primary core keep their types; *)
(* in particular the line never outgrows the buffer of read_line.          *)
THEOREM TypeCorrect == Spec => []TypeOK
<1>1. IInv => TypeOK
  BY DEF IInv
<1> QED BY <1>1, InvariantHolds, PTL

(* handle_irq panics on a console or RTC interrupt only after irq_remove,  *)
(* on the way to power_off.                                                *)
THEOREM HandlersRegistered == Spec => []UnexpectedIrqOnlyAtExit
<1>1. IInv => UnexpectedIrqOnlyAtExit
  BY DEF IInv, HandlersReady
<1> QED BY <1>1, InvariantHolds, PTL

(* ALARM_FIRED, the RTC and the GIC agree about an alarm that irq_handle   *)
(* has reported and irq_finish has not finished.                           *)
THEOREM AlarmAgrees == Spec => []AlarmFiredUntilFinished
<1>1. IInv => AlarmFiredUntilFinished
  BY DEF IInv, RtcAgrees
<1> QED BY <1>1, InvariantHolds, PTL

(* The window between the look at the UART and wfi is the only one in      *)
(* which Console::read loses a wake-up.                                    *)
THEOREM OnlyWindow == Spec => []SleepsOnDataOnlyIfMissed
<1>1. IInv => SleepsOnDataOnlyIfMissed
  BY DEF IInv, WaitsOnDataOnlyIfMissed, SleepsOnDataOnlyIfMissed
<1> QED BY <1>1, InvariantHolds, PTL

-----------------------------------------------------------------------------
(* The alarm as an abstract clock. *)

(* An alarm that is ahead was set and has not been reported; and if the    *)
(* RTC holds one that irq_handle has not reported, one that was set has    *)
(* come due.                                                               *)
AlarmsAwaited ==
  /\ rtcNow < rtcMatch => rtcMatch \in awaited
  /\ rtcRis /\ ~Ringing => \E t \in awaited : t <= rtcNow

(* A step that none of the alarm's own takes leaves its registers, its     *)
(* flag and a call of clear_interrupt alone.                               *)
LeavesAlarm ==
  /\ UNCHANGED <<ALARM_FIRED, rtcNow, rtcMatch, rtcRis, awaited>>
  /\ pc[Primary] = "clear_interrupt" <=> pc'[Primary] = "clear_interrupt"

(* The steps that matter to the alarm. *)
LEMMA AlarmSteps ==
  ASSUME TypeOK, [Next]_vars
  PROVE  \/ irq_finish \/ clear_interrupt \/ set_match \/ irq_handle \/ Tick
         \/ LeavesAlarm
<1>t. pc \in [Cores -> Labels] /\ Primary \in Cores
  BY InterruptsAssumption, Zenon DEF TypeOK
<1> USE DEF LeavesAlarm, At, Goto, alarmVars, irqVars
<1>1. CASE init_gic \/ shell_setup \/ irq_enable
  BY <1>t, <1>1 DEF init_gic, setup_gic_enable, setup_gic_handler, shell_setup, irq_enable
<1>2. CASE \E b \in Bytes : read_line(b)
  BY <1>t, <1>2 DEF read_line, ReadByte
<1>3. CASE (read_not_ready \/ wait_for_irq \/ read_again) /\ UNCHANGED <<alarmVars, lineLen>>
  BY <1>t, <1>3 DEF read_not_ready, wait_for_irq, read_again
<1>4. CASE \E d \in Delays \union {NoDelay} : alarm(d)
  BY <1>t, <1>4 DEF alarm
<1>5. CASE end_rtc_interrupt \/ get_time \/ enable_interrupt
  BY <1>t, <1>5 DEF end_rtc_interrupt, get_time, enable_interrupt, RtcOutput
<1>6. CASE exit \/ other_command \/ power_off
  BY <1>t, <1>6 DEF exit, other_command, power_off
<1>7. CASE handle_irq /\ UNCHANGED <<alarmVars, lineLen>>
  BY <1>t, <1>7 DEF handle_irq, IrqEnded, ReturnFromIrq
<1>8. CASE \E i \in Spis : unexpected_irq(i)
  BY <1>t, <1>8, Zenon DEF unexpected_irq, IrqUnexpected
<1>9. CASE Environment
  BY <1>t, <1>9 DEF Environment, UartRx, wfi_returns_early, WfiReturnsEarly
<1>10. CASE UNCHANGED vars
  BY <1>t, <1>10, Zenon DEF vars
<1>11. CASE (read_error \/ irq_withdrawn) /\ UNCHANGED <<alarmVars, lineLen>>
  BY <1>t, <1>11, Zenon DEF read_error, irq_withdrawn
<1> QED
  BY <1>1, <1>2, <1>3, <1>4, <1>5, <1>6, <1>7, <1>8, <1>9, <1>10, <1>11, Zenon
  DEF Next, Thread, Irq, Clock, AlarmCommand

(* irq_handle runs while the RTC asserts an interrupt that is not active:  *)
(* no alarm is reported and not finished.                                  *)
LEMMA IrqHandleReports ==
  ASSUME IInv, irq_handle
  PROVE  /\ rtcRis /\ ~Ringing
         /\ ALARM_FIRED' = TRUE /\ awaited' = Ahead
         /\ UNCHANGED <<rtcNow, rtcMatch, rtcRis>>
<1>1. RTC_IRQ \in pending[Primary] \union line[Primary] /\ RTC_IRQ \notin active[Primary]
  BY AcknowledgedIsSignalled, InterruptsAssumption
  DEF irq_handle, IrqLeftActive, irq_current
<1>2. rtcRis /\ ~Ringing
  BY <1>1, ZenonT(30) DEF IInv, RtcAgrees, AlarmFiredUntilFinished, Ringing
<1> QED BY <1>2, Zenon DEF irq_handle

(* irq_finish leaves an alarm that rings ringing; only clear_interrupt     *)
(* ends it.                                                                *)
LEMMA IrqFinishRings ==
  ASSUME IInv, irq_finish
  PROVE  UNCHANGED <<rtcNow, rtcMatch, rtcRis, awaited, Ringing>>
<1>1. pc \in [Cores -> Labels] /\ Primary \in Cores /\ ALARM_FIRED \in BOOLEAN
  BY InterruptsAssumption, Zenon DEF IInv, TypeOK, AlarmTypeOK
<1>2. /\ pc[Primary] = "irq_finish"
      /\ pc' = [pc EXCEPT ![Primary] = IF ALARM_FIRED THEN "clear_interrupt" ELSE "get_time"]
      /\ ALARM_FIRED' = FALSE
      /\ UNCHANGED <<rtcNow, rtcMatch, rtcRis, awaited>>
  BY Zenon DEF irq_finish, At, Goto
<1>3. pc'[Primary] = "clear_interrupt" <=> ALARM_FIRED
  BY <1>1, <1>2
<1>4. Ringing' <=> Ringing
  BY <1>2, <1>3, Zenon DEF Ringing
<1>5. Ringing \in BOOLEAN /\ Ringing' \in BOOLEAN
  BY Zenon DEF Ringing
<1> QED BY <1>2, <1>4, <1>5, Zenon

(* clear_interrupt ends the ringing, and with it what else has come due. *)
LEMMA ClearInterruptSilences ==
  ASSUME IInv, clear_interrupt
  PROVE  /\ Ringing /\ ~Ringing' /\ ~rtcRis'
         /\ awaited' = Ahead
         /\ UNCHANGED <<rtcNow, rtcMatch>>
<1>1. pc \in [Cores -> Labels] /\ Primary \in Cores
  BY InterruptsAssumption, Zenon DEF IInv, TypeOK
<1>2. /\ pc[Primary] = "clear_interrupt"
      /\ pc' = [pc EXCEPT ![Primary] = "end_interrupt"]
      /\ ~rtcRis'
      /\ awaited' = Ahead
      /\ UNCHANGED <<ALARM_FIRED, rtcNow, rtcMatch>>
  BY Zenon DEF clear_interrupt, At, Goto, RtcOutput
<1>3. pc'[Primary] # "clear_interrupt"
  BY <1>1, <1>2
<1>4. ~ALARM_FIRED
  BY <1>2, Zenon DEF IInv, RtcAgrees
<1> QED BY <1>2, <1>3, <1>4, Zenon DEF Ringing

(* What set_match does to the match register and the history; it is too    *)
(* late to take back an alarm that has come due.                           *)
LEMMA SetMatchSets ==
  ASSUME IInv, set_match
  PROVE  /\ UNCHANGED <<rtcNow, Ringing>>
         /\ \/ /\ rtcMatch' \in 0..RTC_MAX
               /\ awaited' = (awaited \ Ahead) \union {t \in {rtcMatch'} : t >= rtcNow}
               /\ rtcRis' = (rtcRis \/ rtcMatch' = rtcNow)
            \/ UNCHANGED <<rtcMatch, awaited, rtcRis>>
<1>1. pc \in [Cores -> Labels] /\ Primary \in Cores
  BY InterruptsAssumption, Zenon DEF IInv, TypeOK
<1>2. pc[Primary] = "set_match" /\ UNCHANGED <<ALARM_FIRED, rtcNow>>
  BY Zenon DEF set_match, At
<1>3. pc' = [pc EXCEPT ![Primary] = "enable_interrupt"] \/ UNCHANGED pc
  BY Zenon DEF set_match, Goto
<1>4. pc[Primary] # "clear_interrupt" /\ pc'[Primary] # "clear_interrupt"
  BY <1>1, <1>2, <1>3
<1>5. UNCHANGED Ringing
  BY <1>2, <1>4, Zenon DEF Ringing
<1>6. CASE timestamp + delay \in 0..RTC_MAX
  <2>1. /\ rtcMatch' = timestamp + delay
        /\ awaited' = (awaited \ Ahead) \union {t \in {timestamp + delay} : t >= rtcNow}
        /\ rtcRis' = (rtcRis \/ timestamp + delay = rtcNow)
    BY <1>6, Zenon DEF set_match, RtcOutput
  <2> QED BY <1>2, <1>5, <1>6, <2>1, Zenon
<1>7. CASE timestamp + delay \notin 0..RTC_MAX
  BY <1>2, <1>5, <1>7, Zenon DEF set_match
<1> QED BY <1>6, <1>7, Zenon

(* Whatever the interleaving, the RTC holds no alarm that was reported. *)
LEMMA NextKeepsAwaited ==
  ASSUME IInv, AlarmsAwaited, [Next]_vars
  PROVE  AlarmsAwaited'
<1>t. /\ TypeOK
      /\ rtcNow \in 0..RTC_MAX /\ rtcMatch \in 0..RTC_MAX /\ RTC_MAX \in Nat
      /\ awaited \in SUBSET (0..RTC_MAX)
  BY AlarmAssumption, Zenon DEF IInv, TypeOK, AlarmTypeOK
<1>a. rtcNow < rtcMatch => rtcMatch \in Ahead
  BY <1>t DEF AlarmsAwaited, Ahead
<1>1. CASE irq_finish
  <2>1. UNCHANGED <<rtcNow, rtcMatch, rtcRis, awaited>> /\ Ringing' = Ringing
    BY <1>1, IrqFinishRings, Zenon
  <2> QED BY <2>1, Zenon DEF AlarmsAwaited
<1>2. CASE clear_interrupt
  BY <1>a, <1>2, ClearInterruptSilences, Zenon DEF AlarmsAwaited
<1>3. CASE set_match
  <2>1. CASE /\ rtcMatch' \in 0..RTC_MAX
             /\ awaited' = (awaited \ Ahead) \union {t \in {rtcMatch'} : t >= rtcNow}
             /\ rtcRis' = (rtcRis \/ rtcMatch' = rtcNow)
    <3>1. UNCHANGED <<rtcNow, Ringing>>
      BY <1>3, SetMatchSets, Zenon
    <3>2. /\ rtcNow < rtcMatch' => rtcMatch' \in awaited'
          /\ rtcMatch' = rtcNow => rtcMatch' \in awaited' /\ rtcMatch' <= rtcNow
      BY <1>t, <2>1
    <3>3. \A t \in awaited : t <= rtcNow => t \in awaited'
      BY <1>t, <2>1 DEF Ahead
    <3> QED BY <2>1, <3>1, <3>2, <3>3, Zenon DEF AlarmsAwaited
  <2>2. CASE UNCHANGED <<rtcMatch, awaited, rtcRis>>
    BY <1>3, <2>2, SetMatchSets, Zenon DEF AlarmsAwaited
  <2> QED BY <1>3, <2>1, <2>2, SetMatchSets, Zenon
<1>4. CASE irq_handle
  <2>1. Ringing'
    BY <1>4, IrqHandleReports, Zenon DEF Ringing
  <2> QED BY <1>a, <1>4, <2>1, IrqHandleReports, Zenon DEF AlarmsAwaited
<1>5. CASE Tick
  <2>1. /\ rtcNow' = rtcNow + 1
        /\ rtcRis' = (rtcRis \/ rtcNow + 1 = rtcMatch)
        /\ UNCHANGED <<pc, rtcMatch, awaited, ALARM_FIRED>>
    BY <1>5, Zenon DEF Tick, RtcOutput
  <2>2. rtcNow + 1 < rtcMatch \/ rtcNow + 1 = rtcMatch => rtcNow < rtcMatch
    BY <1>t
  <2>3. /\ \A t \in awaited : t <= rtcNow => t <= rtcNow + 1
        /\ rtcNow + 1 = rtcMatch => rtcMatch <= rtcNow + 1
    BY <1>t
  <2>4. UNCHANGED Ringing
    BY <2>1, Zenon DEF Ringing
  <2> QED BY <2>1, <2>2, <2>3, <2>4, Zenon DEF AlarmsAwaited
<1>6. CASE LeavesAlarm
  BY <1>6, Zenon DEF LeavesAlarm, AlarmsAwaited, Ringing
<1> QED BY <1>t, <1>1, <1>2, <1>3, <1>4, <1>5, <1>6, AlarmSteps, Zenon

LEMMA AwaitedHolds == Spec => [](IInv /\ AlarmsAwaited)
<1>1. Init => AlarmsAwaited
  BY DEF Init, AlarmInit, AlarmsAwaited
<1> QED BY <1>1, InvariantHolds, NextKeepsAwaited, PTL DEF Spec

(* The alarm command, the RTC and irq_handle, interleaved with everything  *)
(* else on the primary core, implement a clock that rings only for an      *)
(* alarm that was set and is due, and once, although the core may take the *)
(* IRQ of an alarm only after the next one is set.                         *)
THEOREM AlarmIsClock == Spec => AlarmClockSpec
<1>1. Init => Timer!Init
  <2>1. "init_gic" # "clear_interrupt"
    OBVIOUS
  <2> SUFFICES ASSUME Init PROVE Timer!Init
    OBVIOUS
  <2>2. pc[Primary] = "init_gic"
    BY InterruptsAssumption DEF Init
  <2>3. Ringing = FALSE
    BY <2>1, <2>2, Zenon DEF Init, AlarmInit, Ringing
  <2>4. rtcNow \in Nat /\ awaited = {}
    BY DEF Init, AlarmInit
  <2> QED BY <2>3, <2>4, Zenon DEF Timer!Init
<1>2. ASSUME IInv, AlarmsAwaited, [Next]_vars
      PROVE  [Timer!Next]_<<rtcNow, awaited, Ringing>>
  <2>t. /\ TypeOK
        /\ rtcNow \in 0..RTC_MAX /\ RTC_MAX \in Nat
        /\ awaited \in SUBSET (0..RTC_MAX)
    BY <1>2, AlarmAssumption, Zenon DEF IInv, TypeOK, AlarmTypeOK
  <2>a. Timer!Ahead = Ahead
    BY Zenon DEF Timer!Ahead, Ahead
  <2> SUFFICES Timer!Next \/ UNCHANGED <<rtcNow, awaited, Ringing>>
    OBVIOUS
  <2>1. CASE irq_finish
    BY <1>2, <2>1, IrqFinishRings, Zenon
  <2>2. CASE clear_interrupt
    <3>1. Ringing' = FALSE
      BY <1>2, <2>2, ClearInterruptSilences, Zenon DEF Ringing
    <3> QED BY <1>2, <2>2, <2>a, <3>1, ClearInterruptSilences, Zenon
            DEF Timer!Next, Timer!Silence
  <2>3. CASE set_match
    <3>1. CASE /\ rtcMatch' \in 0..RTC_MAX
               /\ awaited' = (awaited \ Ahead) \union {t \in {rtcMatch'} : t >= rtcNow}
      <4>1. awaited \ Ahead \subseteq awaited'
        BY <3>1, Zenon
      <4>2. \A t, u \in awaited' \ (awaited \ Ahead) : t = u /\ t >= rtcNow
        BY <3>1, Zenon
      <4>3. UNCHANGED <<rtcNow, Ringing>>
        BY <1>2, <2>3, SetMatchSets, Zenon
      <4> QED BY <2>a, <4>1, <4>2, <4>3, Zenon DEF Timer!Next, Timer!Set
    <3>2. CASE UNCHANGED <<rtcMatch, awaited>>
      BY <1>2, <2>3, <3>2, SetMatchSets, Zenon
    <3> QED BY <1>2, <2>3, <3>1, <3>2, SetMatchSets, Zenon
  <2>4. CASE irq_handle
    <3>1. PICK t \in awaited : t <= rtcNow
      BY <1>2, <2>4, IrqHandleReports, Zenon DEF AlarmsAwaited
    <3>2. t \notin Ahead
      BY <2>t, <3>1 DEF Ahead
    <3>3. Ringing' = TRUE
      BY <1>2, <2>4, IrqHandleReports, Zenon DEF Ringing
    <3> QED BY <1>2, <2>4, <2>a, <3>2, <3>3, IrqHandleReports, Zenon
            DEF Timer!Next, Timer!Ring
  <2>5. CASE Tick
    BY <2>5, Zenon DEF Tick, Ringing, Timer!Next, Timer!Tick
  <2>6. CASE LeavesAlarm
    BY <2>6, Zenon DEF LeavesAlarm, Ringing
  <2> QED BY <1>2, <2>t, <2>1, <2>2, <2>3, <2>4, <2>5, <2>6, AlarmSteps, Zenon
<1> QED BY <1>1, <1>2, AwaitedHolds, PTL DEF Spec, AlarmClockSpec, Timer!Spec
=============================================================================
