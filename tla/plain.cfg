\* One application writes, without FEC, over a network that loses, repeats and reorders.
SPECIFICATION Spec
CONSTANTS
  Fec = FALSE
  Mss = 2
  Sym = 2
  K = 2
  R = 2
  RxBlocks = 1
  RcvWnd = 8
  BigSegment = 1
  Writers = {"A"}
  WriteSizes = {1, 3, 8}
  IdleWrites = FALSE
  MaxBytes = 8
  Closers = {}
  QuietClosers = {}
  Impatient = {}
  GivesUp = TRUE
  Duplicates = TRUE
  MaxLoss = 0
  MaxStrays = 2
INVARIANTS OneWayInv StreamIntact RetransmitCovered RetransmitsAtItsOwnSeq NoAckBeyondSent
PROPERTIES ImplementsStream
CHECK_DEADLOCK FALSE
