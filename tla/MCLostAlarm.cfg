\* QEMU: an alarm that goes off while the next one is being set.
SPECIFICATION FairSpec
CONSTANTS
  Cores = {cpu0}
  Primary = cpu0
  SGI_COUNT = 1
  CONSOLE_IRQ = 33
  RTC_IRQ = 34
  RX_DEPTH = 1
  Trigger = "Level"
  RTC_MAX = 4
  Delays <- MCDelays
  NoDelay = NoDelay
  LINE_MAX = 1
PROPERTY
  AlarmReported
\* The system powers off and stops.
CHECK_DEADLOCK FALSE
