\* Writes shorter than a symbol.
SPECIFICATION Spec
CONSTANTS
  Fec = TRUE
  Mss = 2
  Sym = 2
  K = 3
  R = 2
  RxBlocks = 1
  RcvWnd = 8
  BigSegment = 1
  Writers = {"A"}
  WriteSizes = {2, 3}
  IdleWrites = FALSE
  MaxBytes = 5
  Closers = {}
  QuietClosers = {}
  Impatient = {}
  GivesUp = TRUE
  Duplicates = TRUE
  MaxLoss = 0
  MaxStrays = 2
INVARIANTS SplicesBelong
CHECK_DEADLOCK FALSE
