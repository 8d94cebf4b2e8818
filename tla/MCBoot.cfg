SPECIFICATION Spec
CONSTANTS
  ENTRIES = 3
  PAGE_HEAP = 10
  PAGE_SIZE = 2
  HEADER_SIZE = 1
  GICD_SIZE = 2
  GICR_SIZE = 2
  CAM_SIZE = 2
  ECAM_SIZE = 3
  Boards <- MCBoards
INVARIANTS
  TypeOK
  ImageMapped
  DevicesMapped
PROPERTY LiveTableKept
\* A panic ends the boot.
CHECK_DEADLOCK FALSE
