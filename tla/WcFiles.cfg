SPECIFICATION WcSpec
CONSTANTS
  Texts <- FileTexts
  Cap0 = 4
  Seps = {",", ";"}
  Faults = {}
  MaxFiles = 2
  MayNotOpen = TRUE
INVARIANTS
  WcTypeOK
  SubjectsExact
  NothingMissed
  OneReadExact
PROPERTIES
  WcTerminates
