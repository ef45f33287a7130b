SPECIFICATION Spec
CONSTANTS
  Stmt <- Stmts
  Defaults <- Dflt
  Buf0 = 32
  Prb0 = 4
  Pres0 = 2
  NewSize <- Pow2
  Longest = 34
  MaxCalls = 4
  MaxInputs = 2
  Faults = {"mmap", "input"}
INVARIANTS
  TypeOK
  InPlaceExact
  Declared
  NamesKept
  OnceAndInOrder
  WritesInBounds
