SPECIFICATION SplitSpec
CONSTANTS
  Texts <- SplitTexts
  Cap0 = 3
  Seps = {}
  Faults = {"read", "mmap"}
  Buf0 = 8
  NewSize <- Pow2
  nstmt = 2
  MaxInputs = 2
  MaxCalls = 8
  MayNotOpen = TRUE
  OutFaults = {"open", "write"}
INVARIANTS
  OnceAndInOrder
  SelfContained
  Quota
  PiecesOfText
  FromTextToPiece
PROPERTIES
  SplitTerminates
