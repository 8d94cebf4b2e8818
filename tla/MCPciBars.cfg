SPECIFICATION Spec
CONSTANTS
  U32_MAX = 7
  BlockSizes = {1, 2, 4, 8, 16}
  PageTableSize = 14
  RootRanges <- MCRootRanges
  BarInfos <- MCBarInfos
  FUNCTIONS = 2
  SLOTS = 2
INVARIANTS
  TypeOK
  WindowsDisjoint
  WindowsMapped
  Reach32
  PrefetchableKeptApart
\* The bus is set up once.
CHECK_DEADLOCK FALSE
