\* QEMU: PL011, level-triggered.
SPECIFICATION Spec
CONSTANTS
  Cores = {cpu0}
  Primary = cpu0
  SGI_COUNT = 1
  CONSOLE_IRQ = 33
  RTC_IRQ = 34
  RX_DEPTH = 2
  Trigger = "Level"
  RTC_MAX = 4
  Delays <- MCDelays
  NoDelay = NoDelay
  LINE_MAX = 2
INVARIANTS
  TypeOK
  SleepsOnDataOnlyIfMissed
  AlarmFiredUntilFinished
  UnexpectedIrqOnlyAtExit
PROPERTY AlarmClockSpec
\* The system powers off and stops.
CHECK_DEADLOCK FALSE
