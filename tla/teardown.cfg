\* The writer closes, the reader closes after end-of-file or its user timeout expires;
\* without data both may close, in any order or at once.
SPECIFICATION Spec
CONSTANTS
  Fec = FALSE
  Mss = 2
  Sym = 2
  K = 2
  R = 2
  RxBlocks = 1
  RcvWnd = 8
  BigSegment = 1
  Writers = {"A"}
  WriteSizes = {1, 3}
  IdleWrites = FALSE
  MaxBytes = 4
  Closers = {"A"}
  QuietClosers = {"B"}
  Impatient = {"B"}
  GivesUp = TRUE
  Duplicates = TRUE
  MaxLoss = 0
  MaxStrays = 2
INVARIANTS EofComplete
PROPERTIES ImplementsStream
CHECK_DEADLOCK FALSE
