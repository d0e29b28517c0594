\* The three timers of a connection and the collector's, of two and one allocated in all.
SPECIFICATION FairSpec
CONSTANTS
  MaxTimers = 3
  Step = 1
  FirstTick = 0
  Modulus = 1000
  DelAck = 1
  Rtos = {2}
  Linger = 2
  Collect = 1
  Kinds = {"small", "big", "psh", "ack"}
INVARIANTS TimerInv  AckPromised
PROPERTIES TimersFreed
