\* The control socket with one caller; a reader, the segments that arrive and the end of
\* the connection; two neighbours, one of which changes its address, and a lost packet;
\* up to four words for any of nine pairs of addresses.
SPECIFICATION MCSpec
CONSTANTS
  Callers = {"c"}
  Sizes = {2, 4}
  MaxBytes = 5
  IPC_BUFLEN = 3
  RCBUF_LEN = 2
  Piece = 5
  SkbSizes = {1, 2}
  ReadSizes = {1, 3}
  ReadBytes = 5
  NonBlock = {TRUE, FALSE}
  Rebuilt = {FALSE}
  Neighbours = {"gateway", "host"}
  Us = "us"
  Movers = {"host"}
  MaxMoves = 1
  MaxLoss = 1
  MaxCalls = 1
  W = 16
  Words = {0, 1, 9, 15}
  MaxWords = 4
  Addresses = {3, 37, 75}
INVARIANTS AnswersItsRequest BytesIntact ReadsAreExact PollSeesData OneEntryEach FrameHalvesAnnounced ChecksumVerifies
PROPERTIES CallReturns ThreadFreed PushedDataReturned RetriedPacketGoesOut
CHECK_DEADLOCK FALSE
