SPECIFICATION Spec
CONSTANTS
  cpu0 = cpu0
  cpu1 = cpu1
  cpu2 = cpu2
  Cores <- MCCores
  Primary = cpu0
  None = None
SYMMETRY MCSymmetry
INVARIANTS
  TypeOK
  NoDeadlock
  HaltedCoreStopsOnlyStarting
  NoLockLeftBehind
\* The system powers off and stops.
CHECK_DEADLOCK FALSE
