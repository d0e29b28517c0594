---------------------------- MODULE TcpReassembly ----------------------------
(***************************************************************************)
(* The receive side of the byte stream (src/tcp_data.c): the out-of-order  *)
(* queue, and its draining into the receive queue.  The operators map a    *)
(* socket record to the socket record the C function leaves behind.        *)
(* receive_queue keeps everything ever delivered in order; reading from it *)
(* is not modelled here.                                                   *)
(***************************************************************************)
EXTENDS TcpWire

End(x) == x.seq + x.run.len

\* Where the walk over the out-of-order queue stops: at a buffer with the same
\* sequence number, or before the first one that lies wholly behind the new
\* segment.  A later buffer that overlaps is stepped over ("Could not join").
StopsAt(q, seq, run, i) ==
  \/ q[i].seq = seq
  \/ seq < q[i].seq /\ seq + run.len <= q[i].seq

tcp_data_insert_ordered(q, seq, run) ==
  LET stops == {i \in 1..Len(q) : StopsAt(q, seq, run, i)}
      i     == CHOOSE n \in stops : \A m \in stops : n <= m
      skb   == [seq |-> seq, run |-> run]
  IN  IF stops = {} THEN Append(q, skb)
      ELSE IF q[i].seq = seq THEN q
      ELSE SubSeq(q, 1, i - 1) \o <<skb>> \o SubSeq(q, i, Len(q))

\* Mutant: the walk does not compare the head of the queue with rcv_nxt.
Chains_HeadUnchecked(q, seq, n) ==
  \A i \in 1..n : i = 1 \/ q[i].seq = End(q[i-1])

\* The first n buffers of the out-of-order queue continue the stream at seq.
Chains(q, seq, n) ==
  \A i \in 1..n : q[i].seq = IF i = 1 THEN seq ELSE End(q[i-1])

Consumed(q, seq) ==
  CHOOSE n \in 0..Len(q) : /\ Chains(q, seq, n)
                           /\ n < Len(q) => ~Chains(q, seq, n + 1)

tcp_consume_ofo_queue(s) ==
  LET q == s.ofo_queue
      n == Consumed(q, s.rcv_nxt)
  IN  [s EXCEPT
        !.rcv_nxt       = IF n = 0 THEN @ ELSE End(q[n]),
        !.ofo_queue     = SubSeq(q, n + 1, Len(q)),
        !.receive_queue = @ \o [i \in 1..n |-> q[i].run]]

\* Mutant: the segment is appended without a look at its sequence number.
tcp_data_queue_AnySeq(s, seq, run) ==
  tcp_consume_ofo_queue([s EXCEPT !.rcv_nxt = @ + run.len, !.receive_queue = Append(@, run)])

\* The segment is the next in sequence, or it waits in the out-of-order queue
\* and is answered at once with a duplicate ACK.
tcp_data_queue(s, seq, run) ==
  IF seq = s.rcv_nxt
  THEN tcp_consume_ofo_queue([s EXCEPT !.rcv_nxt = @ + run.len,
                                       !.receive_queue = Append(@, run)])
  ELSE tcp_send_ack([s EXCEPT
         !.ofo_queue = tcp_data_insert_ordered(@, seq, run)])

==============================================================================
