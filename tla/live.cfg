\* Without FEC everything written is acknowledged although a segment is lost and timers fire late.
SPECIFICATION FairSpec
CONSTANTS
  Fec = FALSE
  Mss = 2
  Sym = 2
  K = 2
  R = 2
  RxBlocks = 1
  RcvWnd = 8
  BigSegment = 1
  Writers = {"A"}
  WriteSizes = {3, 6}
  IdleWrites = FALSE
  MaxBytes = 6
  Closers = {}
  QuietClosers = {}
  Impatient = {}
  GivesUp = FALSE
  Duplicates = FALSE
  MaxLoss = 2
  MaxStrays = 2
PROPERTIES EventuallyAcked
CHECK_DEADLOCK FALSE
