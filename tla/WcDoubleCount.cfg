SPECIFICATION WcSpec
CONSTANTS
  Texts <- CountTexts
  Cap0 = 3
  Seps = {",", ";"}
  Faults = {}
  MaxFiles = 1
  MayNotOpen = FALSE
INVARIANTS
  CountsExact
