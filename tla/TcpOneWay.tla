------------------------------ MODULE TcpOneWay ------------------------------
(***************************************************************************)
(* The inductive invariant of a one-way transfer: A writes, B reads, no    *)
(* FEC, nobody closes and no user timeout expires.  The network may lose,  *)
(* repeat and reorder, RTO handlers may run late, and A may give up.       *)
(***************************************************************************)
EXTENDS TcpConn, StreamInv

OneWay == Fec = FALSE /\ Writers \subseteq {"A"} /\ Closers = {} /\ QuietClosers = {}
  /\ Impatient = {}

\* The inductive invariant of tcp_send, tcp_input_state and the RTO handler in a
\* one-way transfer: every segment on the wire carries its own stream bytes, and
\* no acknowledgment can split a buffer that may be sent again.
OneWayInv ==
  /\ sk = [e \in Ends |-> sk[e]] /\ net = [e \in Ends |-> net[e]]
  /\ lost \in 0..MaxLoss
  /\ SenderInv(sk["A"]) /\ ClockInv(sk["A"]) /\ sk["A"].out = {}
  /\ ReceiverInv(sk["B"]) /\ sk["B"].out = {} /\ ReaderInv(sk["A"], sk["B"])
  /\ DataInv(sk["A"], net["B"]) /\ AckInv(sk["A"], net["A"])

==============================================================================
