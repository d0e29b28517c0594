\* FEC: this stack's sender, whose every write fills a block on an idle connection, or an
\* external one that sends three blocks to a receiver with slots for two.
SPECIFICATION MCSpec
CONSTANTS
  Fec = TRUE
  Mss = 2
  Sym = 2
  K = 2
  R = 1
  RxBlocks = 2
  RcvWnd = 6
  BigSegment = 1
  Writers = {"A"}
  WriteSizes = {4, 6}
  IdleWrites = TRUE
  MaxBytes = 10
  Closers = {}
  QuietClosers = {}
  Impatient = {}
  GivesUp = TRUE
  Duplicates = TRUE
  MaxLoss = 0
  MaxStrays = 2
  Blocks = 3
INVARIANTS StreamIntact RecoveredOnceRecoverable
VIEW MCView
CHECK_DEADLOCK FALSE
