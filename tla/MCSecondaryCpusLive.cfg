\* Progress of secondary cores.  The heap has room for one stack only, so
\* that starting a second core runs out of memory.
SPECIFICATION FairSpec
CONSTANTS
  cpu0 = cpu0
  cpu1 = cpu1
  cpu2 = cpu2
  Cores <- MCCores
  Primary = cpu0
  SGI_COUNT = 2
  CONSOLE_IRQ = 33
  RTC_IRQ = 34
  Args = {1, 2}
  Stacks = {s1}
  NoStack = NoStack
PROPERTIES
  StackKept
  LifecycleSpec
  StartedCoreWaits
  FreshSgiStopsCore
\* The system powers off and stops.
CHECK_DEADLOCK FALSE
