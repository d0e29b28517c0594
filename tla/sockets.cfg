SPECIFICATION FairSpec
CONSTANTS
  Apps = {"a"}
  Sockets = {"s"}
  TCP_CONN_RETRIES = 0
  Env = {}
INVARIANT LifeInv
PROPERTIES OpenConnectionKept  Collected
CHECK_DEADLOCK FALSE
