\* QEMU: the interrupt of a byte that arrives just before wfi.
SPECIFICATION FairSpec
CONSTANTS
  Cores = {cpu0}
  Primary = cpu0
  SGI_COUNT = 1
  CONSOLE_IRQ = 33
  RTC_IRQ = 34
  RX_DEPTH = 1
  Trigger = "Level"
  RTC_MAX = 4
  Delays <- MCDelays
  NoDelay = NoDelay
  LINE_MAX = 1
PROPERTY
  InputDelivered
\* The system powers off and stops.
CHECK_DEADLOCK FALSE
