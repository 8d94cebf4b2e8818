SPECIFICATION PageTableSpec
CONSTANTS
  ENTRIES = 2
  PAGE_HEAP = 6
INVARIANT PageTableTypeOK
PROPERTIES
  FlatSpec
  TablesPerRegion
\* A panic ends it.
CHECK_DEADLOCK FALSE
