\* The peer closes while a second buffer waits: in CLOSE_WAIT nothing sends it.
SPECIFICATION Spec
CONSTANTS
  Fec = FALSE
  Mss = 2
  Sym = 2
  K = 2
  R = 2
  RxBlocks = 1
  RcvWnd = 8
  BigSegment = 1
  Writers = {"A"}
  WriteSizes = {3}
  IdleWrites = FALSE
  MaxBytes = 3
  Closers = {"B"}
  QuietClosers = {}
  Impatient = {}
  GivesUp = TRUE
  Duplicates = TRUE
  MaxLoss = 0
  MaxStrays = 2
INVARIANTS RetransmitCovered
CHECK_DEADLOCK FALSE
