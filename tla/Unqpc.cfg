SPECIFICATION Spec
CONSTANTS
  Lines <- ManyLines
INVARIANTS
  TypeOK
  InPlace
  NothingLeft
PROPERTIES
  EveryLineWritten
