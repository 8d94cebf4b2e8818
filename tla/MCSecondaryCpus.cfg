\* Two secondary cores, two SGIs, enough stacks for both.
SPECIFICATION Spec
CONSTANTS
  cpu0 = cpu0
  cpu1 = cpu1
  cpu2 = cpu2
  Cores <- MCCores
  Primary = cpu0
  SGI_COUNT = 2
  CONSOLE_IRQ = 33
  RTC_IRQ = 34
  Args = {1, 2}
  Stacks = {s1, s2}
  NoStack = NoStack
SYMMETRY MCSymmetry
INVARIANTS
  TypeOK
  UnexpectedIrqOnlyAfterEarlyWake
  OneSgiPerPowerOn
  RunningStackIntact
\* The system powers off and stops.
CHECK_DEADLOCK FALSE
