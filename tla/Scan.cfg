SPECIFICATION Spec
CONSTANTS
  Texts <- ScanTexts
  Cap0 = 2
  Seps = {}
  Faults = {"read", "mmap"}
INVARIANTS
  TypeOK
  Contiguous
  RoomToRead
  GrowthEarned
PROPERTIES
  ChunkIndependent
  LastTryFindsNothing
  Terminates
