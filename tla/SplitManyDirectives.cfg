SPECIFICATION Spec
CONSTANTS
  Stmt <- Stmts
  Dirs <- Prefix
  Size <- Sizes
  NewSize <- Pow2
  Buf0 = 8
  nstmt = 2
  MaxCalls = 6
  MaxInputs = 1
  Faults = {}
INVARIANTS
  DirNeverOverrun
