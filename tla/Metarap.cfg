SPECIFICATION Spec
CONSTANTS
  FilterEvents <- Filter
  InputEvents <- Input
  MaxFilter = 3
  MaxInput = 3
  WordSize = 2
  Rplc0 = 8
  Cords0 = 2
  Terms0 = 1
  Buf0 = 2
  Faults = {"world", "filter"}
INVARIANTS
  TypeOK
  TablesInBounds
  SlotsNamed
  MetadataExact
CHECK_DEADLOCK FALSE
