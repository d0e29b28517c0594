\* Opening a connection over a network that loses segments and keeps old ones.
SPECIFICATION FairSpec
CONSTANTS
  PeerIss = 5
  PeerStates = {"CLOSED", "LISTEN", "SYN_SENT"}
  PeerFec = {TRUE, FALSE}
  AllocFails = FALSE
  MayClose = TRUE
  Duplicates = FALSE
  MaxLoss = 5
  OldSegments <- MCOldSegments
  TCP_CONN_RETRIES = 3
  RcvWnd = 8
INVARIANTS PeerKnowsUs FecBothOrNeither ConnectTruthful WokenOnce
PROPERTY PeerFollows
CHECK_DEADLOCK FALSE
