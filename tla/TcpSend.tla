------------------------------- MODULE TcpSend -------------------------------
(***************************************************************************)
(* The timers of a socket and its send side (src/tcp.c, src/tcp_output.c,  *)
(* tcp_clean_rto_queue of src/tcp_input.c): the write queue, of which the  *)
(* first inflight buffers are transmitted, and its cleaning by ACKs.       *)
(*                                                                         *)
(* The RTO timer: rto says that tsk->retransmit is a running timer.  An    *)
(* expired timer has become a thread waiting for the lock, which nothing   *)
(* can cancel any more; and timer_release drops a timer without cancelling *)
(* it.  strays counts these handler runs still to come.                    *)
(***************************************************************************)
EXTENDS FecTx

CONSTANT MaxStrays    \* bound: RTO handlers pending at once

ASSUME StraysAssumption == MaxStrays \in Nat \ {0}

------------------------------------------------------------------------------
\* Timers.

tcp_stop_rto_timer(s) == [s EXCEPT !.rto = FALSE]

\* timer_release leaves a running timer behind that can no longer be cancelled.
tcp_release_rto_timer(s) ==
  [s EXCEPT !.rto = FALSE,
            !.strays = IF s.rto THEN MinOf(@ + 1, MaxStrays) ELSE @]

\* Mutant: the old timer is released and no new one is added.
tcp_rearm_rto_timer_NotAdded(s) == tcp_release_rto_timer(s)

tcp_rearm_rto_timer(s) == [tcp_release_rto_timer(s) EXCEPT !.rto = TRUE]

tcp_clear_timers(s) ==
  [tcp_stop_rto_timer(s) EXCEPT !.delack = FALSE, !.linger = "none"]

tcp_enter_time_wait(s) ==
  [tcp_clear_timers(s) EXCEPT !.state = "TIME_WAIT", !.linger = "2msl"]

tcp_rearm_user_timeout(s) ==
  IF s.state = "TIME_WAIT" THEN s ELSE [s EXCEPT !.linger = "user"]

\* tcp_done: the socket stays reachable, with its write queue, until it is
\* garbage collected.
tcp_done(s) ==
  [tcp_clear_timers(s) EXCEPT !.state = "CLOSING", !.ofo_queue = <<>>, !.fec = FALSE]

------------------------------------------------------------------------------
\* Sending.

\* Sequence space of a buffer; end_seq leaves out the FIN's own number.
SeqLen(skb) == skb.run.len + (IF skb.fin THEN 1 ELSE 0)

Sent(skb, seq) == [skb EXCEPT !.seq = seq, !.end_seq = seq + skb.run.len]

\* Mutant: snd_nxt does not move past the buffer that goes out at once.
tcp_queue_transmit_skb_NoAdvance(s, skb) ==
  LET t == IF s.write_queue = <<>> THEN tcp_rearm_rto_timer(s) ELSE s
  IN  IF s.inflight = 0
      THEN [tcp_transmit_skb(t, skb, s.snd_nxt) EXCEPT
              !.inflight = 1, !.write_queue = Append(@, Sent(skb, s.snd_nxt))]
      ELSE [t EXCEPT !.write_queue = Append(@, skb)]

\* A buffer goes out at once if nothing is in flight, and is queued anyway.
tcp_queue_transmit_skb(s, skb) ==
  LET t == IF s.write_queue = <<>> THEN tcp_rearm_rto_timer(s) ELSE s
  IN  IF s.inflight = 0
      THEN [tcp_transmit_skb(t, skb, s.snd_nxt) EXCEPT
              !.inflight    = 1,
              !.snd_nxt     = @ + SeqLen(skb),
              !.write_queue = Append(@, Sent(skb, s.snd_nxt))]
      ELSE [t EXCEPT !.write_queue = Append(@, skb)]

\* The chunks of a write of n bytes, and the sequence of their buffers.
Chunks(s, n) ==
  LET mss   == IF s.fec THEN Sym ELSE Mss
      count == (n + mss - 1) \div mss
  IN  [i \in 1..count |->
         Run(s.written + (i - 1) * mss + 1, IF i < count THEN mss ELSE n - (count - 1) * mss)]

Buffers(s, n) ==
  LET runs == Chunks(s, n)
  IN  [i \in DOMAIN runs |->
         Skb(runs[i], i = Len(runs), FALSE,
             IF s.fec THEN SourceTag(TxBlockId, tx_index(s, i)) ELSE NoTag)]

\* tcp_send: after its first chunk something is in flight, so the others are
\* only queued.
tcp_send(s, n, intact) ==
  LET skbs == Buffers(s, n)
      q    == [tcp_queue_transmit_skb(s, skbs[1]) EXCEPT
                 !.write_queue = @ \o Tail(skbs), !.written = @ + n]
      f    == IF s.fec THEN tcp_fec_register(s, q, Chunks(s, n), intact) ELSE q
  IN  tcp_rearm_user_timeout(f)

tcp_queue_fin(s, intact) ==
  tcp_queue_transmit_skb(tcp_fec_flush(s, intact), Skb(Nothing, FALSE, TRUE, NoTag))

\* Mutant: the buffers of one burst all go out at the same sequence number.
SendOffset_Same(q, i) == 0

\* tcp_send_next(s, n): the first n buffers of the queue go out at snd_nxt.
SendOffset(q, i) ==
  IF i = 1 THEN 0 ELSE IF i = 2 THEN SeqLen(q[1]) ELSE SeqLen(q[1]) + SeqLen(q[2])

tcp_send_next(s, n) ==
  LET q == s.write_queue
      at(i) == s.snd_nxt + SendOffset(q, i)
  IN  [s EXCEPT
        !.write_queue = [i \in DOMAIN q |-> IF i <= n THEN Sent(q[i], at(i)) ELSE q[i]],
        !.snd_nxt = at(n) + SeqLen(q[n]),
        !.out = @ \union {Segment(at(i), s.rcv_nxt, q[i].run, q[i].psh, q[i].fin, FALSE,
                                  q[i].tag) : i \in 1..n}]

\* Mutant: a buffer whose last byte is just acknowledged stays in the queue.
FullyAcked_OffByOne(q, una, n) == \A i \in 1..n : q[i].seq > 0 /\ q[i].end_seq < una

\* The prefix of the write queue an acknowledgment removes.
FullyAcked(q, una, n) == \A i \in 1..n : q[i].seq > 0 /\ q[i].end_seq <= una

Cleaned(q, una) ==
  CHOOSE n \in 0..Len(q) : /\ FullyAcked(q, una, n)
                           /\ n < Len(q) => ~FullyAcked(q, una, n + 1)

tcp_clean_rto_queue(s, una) ==
  LET q == s.write_queue
      n == Cleaned(q, una)
      t == [s EXCEPT !.write_queue = SubSeq(q, n + 1, Len(q)),
                     !.inflight = IF @ >= n THEN @ - n ELSE 0]
  IN  IF t.write_queue = <<>> \/ t.inflight = 0 THEN tcp_stop_rto_timer(t) ELSE t

==============================================================================
