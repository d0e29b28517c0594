------------------------------ MODULE StreamInv ------------------------------
(***************************************************************************)
(* How the queues of the two ends of one direction of a connection hang    *)
(* together with the byte stream: the vocabulary of the proofs.            *)
(***************************************************************************)
EXTENDS TcpSend

RunSet == [pos : Nat, len : Nat]
SegSet == [seq : Nat, ack : Nat, run : RunSet, psh : BOOLEAN, fin : {FALSE},
           rst : {FALSE}, tag : {NoTag}]
SkbSet == [run : RunSet, psh : BOOLEAN, fin : {FALSE}, tag : {NoTag}, seq : Nat, end_seq : Nat]
OfoSet == [seq : Nat, run : RunSet]

\* A socket record: one with these fields.
SockFields ==
  {"state", "snd_una", "snd_nxt", "inflight", "write_queue", "rto", "strays", "rcv_nxt",
   "ofo_queue", "receive_queue", "fin", "delack", "delacks", "linger", "fec", "enc",
   "tx_base_seq", "tx_tail_len", "rx", "written", "closed", "out"}

IsSock(s) == s = [f \in SockFields |-> s[f]]

\* Where buffer i of the write queue q begins in the stream; behind the last one
\* comes the byte the application writes next, number w + 1.
Edge(q, w, i) == IF i > Len(q) THEN w + 1 ELSE q[i].run.pos

\* The buffers follow each other in the stream without a gap.
Contiguous(q, w) ==
  /\ q \in Seq(SkbSet)
  /\ w \in Nat
  /\ \A i \in 1..Len(q) : /\ q[i].run.len >= 1
                          /\ Edge(q, w, i + 1) = q[i].run.pos + q[i].run.len
  /\ \A i, j \in 1..Len(q)+1 : i <= j => Edge(q, w, i) <= Edge(q, w, j)

\* The first n buffers are transmitted, and snd_nxt is where the others begin.
QueueInv(q, w, una, nxt, n) ==
  /\ Contiguous(q, w)
  /\ n \in Nat /\ n <= Len(q)
  /\ una \in Nat /\ una >= 1 /\ una = Edge(q, w, 1)
  /\ nxt \in Nat /\ nxt = Edge(q, w, n + 1)
  /\ \A i \in 1..n : q[i].seq = q[i].run.pos /\ q[i].end_seq = q[i].run.pos + q[i].run.len
  /\ \A i \in 1..Len(q) : i > n => q[i].seq = 0

\* v lies within what is written and inside no buffer of the write queue q.
Cut(q, w, v) ==
  /\ v \in Nat /\ 1 <= v /\ v <= w + 1
  /\ \A i \in 1..Len(q) : v <= Edge(q, w, i) \/ Edge(q, w, i + 1) <= v

\* B may acknowledge v.
Ackable(s, v) ==
  Cut(s.write_queue, s.written, v) /\ (s.state = "ESTABLISHED" => v <= s.snd_nxt)

\* A piece of A's stream, at its own sequence number, ending where B may acknowledge.
Piece(s, seq, run) == run.len >= 1 /\ run.pos = seq /\ seq >= 1 /\ Ackable(s, seq + run.len)

\* The reader's queues hold a prefix of the stream that ends before nxt, and pieces of it.
InSequence(q, nxt) ==
  /\ q \in Seq(RunSet)
  /\ \A i \in 1..Len(q) : q[i].pos = (IF i = 1 THEN 1 ELSE q[i-1].pos + q[i-1].len)
  /\ nxt = IF q = <<>> THEN 1 ELSE q[Len(q)].pos + q[Len(q)].len

Pieces(s, q) ==
  q \in Seq(OfoSet) /\ \A i \in 1..Len(q) : Piece(s, q[i].seq, q[i].run)

\* While the connection is open a queued buffer is in flight and guarded by a timer.
ClockInv(s) ==
  s.state = "ESTABLISHED" /\ s.write_queue # <<>> => s.inflight > 0 /\ (s.rto \/ s.strays > 0)

\* The writing socket: it receives acknowledgments only.
SenderInv(s) ==
  /\ IsSock(s)
  /\ s.state \in {"ESTABLISHED", "CLOSING", "TIME_WAIT"}
  /\ s.rcv_nxt = 1 /\ s.ofo_queue = <<>> /\ s.receive_queue = <<>>
  /\ s.fec = FALSE /\ s.closed = FALSE /\ s.linger \in {"user", "none"}
  /\ s.rto \in BOOLEAN /\ s.strays \in 0..MaxStrays /\ s.delacks \in Nat
  /\ s.enc = <<>>
  /\ QueueInv(s.write_queue, s.written, s.snd_una, s.snd_nxt, s.inflight)

\* What A has put on the wire: its stream, and empty segments.
DataInv(s, M) ==
  \A m \in M : m \in SegSet /\ (m.psh \/ m.run.len > 0 => Piece(s, m.seq, m.run))

\* What B has put on the wire: acknowledgments.
AckInv(s, M) ==
  \A m \in M : m \in SegSet /\ m.seq = 1 /\ m.run = Nothing /\ m.psh = FALSE /\ Ackable(s, m.ack)

ReaderInv(s, r) ==
  Pieces(s, r.ofo_queue) /\ InSequence(r.receive_queue, r.rcv_nxt) /\ Ackable(s, r.rcv_nxt)

\* The reading socket: it has nothing to send but acknowledgments.
ReceiverInv(r) ==
  /\ IsSock(r)
  /\ r.state = "ESTABLISHED" /\ r.snd_una = 1 /\ r.snd_nxt = 1 /\ r.inflight = 0
  /\ r.write_queue = <<>> /\ r.rto = FALSE /\ r.strays = 0
  /\ r.fec = FALSE /\ r.closed = FALSE /\ r.linger = "user" /\ r.written = 0
  /\ r.delacks \in Nat /\ r.enc = <<>>

==============================================================================
