SPECIFICATION Spec
CONSTANTS
  cpu0 = cpu0
  cpu1 = cpu1
  cpu2 = cpu2
  Cores <- MCCores
  MPIDR <- MCMPIDR
  DeviceTrees <- MCDeviceTrees
INVARIANTS
  TypeOK
  ExclusiveBorrow
  ListedCoreHasIndex
\* All cores may have failed to find their index.
CHECK_DEADLOCK FALSE
