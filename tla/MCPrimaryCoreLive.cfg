\* crosvm: 16550, edge-triggered.
SPECIFICATION FairSpec
CONSTANTS
  Cores = {cpu0}
  Primary = cpu0
  SGI_COUNT = 1
  CONSOLE_IRQ = 32
  RTC_IRQ = 33
  RX_DEPTH = 1
  Trigger = "Edge"
  RTC_MAX = 4
  Delays <- MCDelays
  NoDelay = NoDelay
  LINE_MAX = 1
PROPERTIES
  ByteDuringWaitDelivered
  AlarmReportedIfFinished
\* The system powers off and stops.
CHECK_DEADLOCK FALSE
