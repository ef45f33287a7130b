SPECIFICATION Spec
CONSTANTS
  FilterEvents <- PartOfName
  InputEvents <- BothNames
  MaxFilter = 3
  MaxInput = 3
  WordSize = 2
  Rplc0 = 8
  Cords0 = 2
  Terms0 = 1
  Buf0 = 2
  Faults = {}
INVARIANTS
  EveryPrefixServed
CHECK_DEADLOCK FALSE
