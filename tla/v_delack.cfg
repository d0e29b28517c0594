\* Segments of every kind, with the user timeout running; the unit of time is 20 ms.
SPECIFICATION Spec
CONSTANTS
  MaxTimers = 3
  Step = 1
  FirstTick = 0
  Modulus = 1000
  DelAck = 10
  Rtos = {15}
  Linger = 30
  Collect = 20
  Kinds = {"small", "ack"}
INVARIANT AckInTime
