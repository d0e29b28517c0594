---------------------------- MODULE TcpOneWayProofs ----------------------------
(***************************************************************************)
(* OneWayInv is an invariant of every one-way transfer, whatever the       *)
(* network does and whenever the timers' threads get to run.  By it every  *)
(* one-way transfer implements ReliableStream in both directions: what the *)
(* reader has got is what lies before its rcv_nxt, so it remains to show   *)
(* that no handler takes rcv_nxt or what is written back, and that the two *)
(* never move in one step.                                                 *)
(***************************************************************************)
EXTENDS TcpOneWay, TcpStream, TcpEndProofs

------------------------------------------------------------------------------
\* From sockets to states.

\* A handler of A that continues its stream keeps the invariant.
LEMMA SenderStep ==
  ASSUME OneWayInv, NEW s, Continues(sk["A"], s), ClockInv(s),
         sk' = [sk EXCEPT !["A"] = [s EXCEPT !.out = {}]],
         net' = [e \in Ends |-> net'[e]],
         net'["A"] \subseteq net["A"], net'["B"] = net["B"] \union s.out,
         lost' = lost
  PROVE  OneWayInv'
<1>1. PICK t : t = [s EXCEPT !.out = {}]
  BY Zenon
<1>2. /\ sk' = [e \in Ends |-> sk'[e]] /\ sk'["A"] = t /\ sk'["B"] = sk["B"]
  BY Zenon, <1>1 DEF OneWayInv, Ends
<1>3. /\ IsSock(t) /\ t.out = {} /\ \A f \in SockFields \ {"out"} : t[f] = s[f]
  BY Zenon, <1>1 DEF Continues, SenderInv, IsSock, SockFields
<1>4. /\ t.state = s.state /\ t.rto = s.rto /\ t.strays = s.strays /\ t.delacks = s.delacks
      /\ t.linger = s.linger /\ t.write_queue = s.write_queue /\ t.inflight = s.inflight
  BY Zenon, <1>3 DEF SockFields
<1>5. SenderInv(s) /\ DataInv(s, s.out) /\ \A v : Ackable(sk["A"], v) => Ackable(s, v)
  BY Zenon DEF Continues
<1>6. SenderInv(t) /\ \A v : Ackable(s, v) => Ackable(t, v)
  <2>1. /\ s.state \in {"ESTABLISHED", "CLOSING", "TIME_WAIT"} /\ s.rto \in BOOLEAN
        /\ s.strays \in 0..MaxStrays /\ s.delacks \in Nat /\ s.linger \in {"user", "none"}
    BY Zenon, <1>5 DEF SenderInv
  <2>9. KeepsStream(s, t)
    BY Zenon, <1>3, <1>4, <1>5, <2>1 DEF KeepsStream
  <2> QED BY Zenon, <1>5, <2>9, SenderFrame
<1>7. ClockInv(t)
  BY Zenon, <1>4 DEF ClockInv
<1>8. \A v : Ackable(sk["A"], v) => Ackable(t, v)
  BY Zenon, <1>5, <1>6
<1>9. ReaderInv(t, sk["B"]) /\ DataInv(t, net["B"]) /\ AckInv(t, net["A"]) /\ DataInv(t, s.out)
  BY Zenon, <1>5, <1>6, <1>8, Monotone DEF OneWayInv
<1>10. DataInv(t, net'["B"]) /\ AckInv(t, net'["A"])
  BY Zenon, <1>9 DEF DataInv, AckInv
<1>11. ReceiverInv(sk["B"]) /\ sk["B"].out = {} /\ lost' \in 0..MaxLoss
  BY Zenon DEF OneWayInv
<1> QED BY Zenon, <1>2, <1>3, <1>6, <1>7, <1>9, <1>10, <1>11 DEF OneWayInv

\* So does a handler of B that keeps reading in order.
LEMMA ReaderStep ==
  ASSUME OneWayInv, NEW r, ReceiverInv(r), ReaderInv(sk["A"], r), AckInv(sk["A"], r.out),
         sk' = [sk EXCEPT !["B"] = [r EXCEPT !.out = {}]],
         net' = [e \in Ends |-> net'[e]],
         net'["B"] \subseteq net["B"], net'["A"] = net["A"] \union r.out,
         lost' = lost
  PROVE  OneWayInv'
<1>1. PICK t : t = [r EXCEPT !.out = {}]
  BY Zenon
<1>2. /\ sk' = [e \in Ends |-> sk'[e]] /\ sk'["B"] = t /\ sk'["A"] = sk["A"]
  BY Zenon, <1>1 DEF OneWayInv, Ends
<1>3. /\ IsSock(t) /\ t.out = {} /\ \A f \in SockFields \ {"out"} : t[f] = r[f]
  BY Zenon, <1>1 DEF ReceiverInv, IsSock, SockFields
<1>4. ReceiverInv(t)
  <2>1. /\ t.state = r.state /\ t.snd_una = r.snd_una /\ t.snd_nxt = r.snd_nxt
        /\ t.inflight = r.inflight /\ t.write_queue = r.write_queue /\ t.rto = r.rto
        /\ t.strays = r.strays /\ t.fec = r.fec /\ t.closed = r.closed /\ t.linger = r.linger
        /\ t.written = r.written /\ t.delacks = r.delacks /\ t.enc = r.enc
    BY Zenon, <1>3 DEF SockFields
  <2> QED BY <1>3, <2>1 DEF ReceiverInv
<1>5. ReaderInv(sk["A"], t)
  <2>1. /\ t.ofo_queue = r.ofo_queue /\ t.receive_queue = r.receive_queue
        /\ t.rcv_nxt = r.rcv_nxt
    BY Zenon, <1>3 DEF SockFields
  <2> QED BY Zenon, <2>1 DEF ReaderInv
<1>6. DataInv(sk["A"], net'["B"]) /\ AckInv(sk["A"], net'["A"])
  BY Zenon DEF OneWayInv, DataInv, AckInv
<1>7. SenderInv(sk["A"]) /\ ClockInv(sk["A"]) /\ sk["A"].out = {} /\ lost' \in 0..MaxLoss
  BY Zenon DEF OneWayInv
<1> QED BY Zenon, <1>2, <1>3, <1>4, <1>5, <1>6, <1>7 DEF OneWayInv

------------------------------------------------------------------------------
\* The handlers of the writing socket.

\* An expired RTO timer becomes a waiting handler.
LEMMA ExpireContinues ==
  ASSUME NEW s, SenderInv(s), ClockInv(s), s.out = {}, s.strays < MaxStrays,
         NEW t, t = [s EXCEPT !.rto = FALSE, !.strays = @ + 1]
  PROVE  Continues(s, t) /\ ClockInv(t)
<1>1. /\ IsSock(t) /\ t.rto = FALSE /\ t.strays = s.strays + 1
      /\ \A f \in SockFields \ {"rto", "strays"} : t[f] = s[f]
  BY ZenonT(40) DEF SenderInv, IsSock, SockFields
<1>2. /\ t.state = s.state /\ t.delacks = s.delacks /\ t.linger = s.linger /\ t.out = s.out
      /\ t.write_queue = s.write_queue /\ t.inflight = s.inflight
  BY Zenon, <1>1 DEF SockFields
<1>3. t.strays \in 0..MaxStrays /\ t.strays > 0
  BY <1>1, StraysAssumption DEF SenderInv
<1>4. SenderInv(t) /\ \A v : Ackable(s, v) => Ackable(t, v)
  <2>1. /\ s.state \in {"ESTABLISHED", "CLOSING", "TIME_WAIT"}
        /\ s.delacks \in Nat /\ s.linger \in {"user", "none"}
    BY Zenon DEF SenderInv
  <2>2. \A f \in SockFields \ {"state", "rto", "strays", "delack", "delacks", "linger",
                               "fin", "out"} : t[f] = s[f]
    BY Zenon, <1>1
  <2>3. /\ t.state \in {"ESTABLISHED", "CLOSING", "TIME_WAIT"} /\ t.delacks \in Nat
        /\ t.linger \in {"user", "none"} /\ (t.state = "ESTABLISHED" => s.state = "ESTABLISHED")
    BY Zenon, <1>2, <2>1
  <2>4. IsSock(t) /\ t.rto \in BOOLEAN /\ t.strays \in 0..MaxStrays
    BY Zenon, <1>1, <1>3
  <2>9. KeepsStream(s, t)
    BY Zenon, <2>2, <2>3, <2>4 DEF KeepsStream
  <2> QED BY Zenon, <2>9, SenderFrame
<1>5. DataInv(t, t.out)
  BY Zenon, <1>2 DEF DataInv
<1>6. ClockInv(t)
  BY Zenon, <1>2, <1>3 DEF ClockInv
<1> QED BY Zenon, <1>4, <1>5, <1>6 DEF Continues

\* The thread of an expired timer, before it looks at the write queue.
LEMMA LateFields ==
  ASSUME NEW s, SenderInv(s), s.strays > 0, NEW t, t = LateHandler(s)
  PROVE  /\ IsSock(t) /\ t.rto = FALSE /\ t.strays \in 0..MaxStrays
         /\ \A f \in SockFields \ {"rto", "strays"} : t[f] = s[f]
<1>1. PICK u : u = [s EXCEPT !.strays = @ - 1]
  BY Zenon
<1>2. /\ IsSock(u) /\ u.strays = s.strays - 1
      /\ \A f \in SockFields \ {"strays"} : u[f] = s[f]
  BY Zenon, <1>1 DEF SenderInv, IsSock, SockFields
<1>3. t = tcp_release_rto_timer(u)
  BY Zenon, <1>1 DEF LateHandler
<1>4. /\ IsSock(t) /\ t.rto = FALSE
      /\ t.strays = (IF u.rto THEN MinOf(u.strays + 1, MaxStrays) ELSE u.strays)
      /\ \A f \in SockFields \ {"rto", "strays"} : t[f] = u[f]
  BY ZenonT(40), <1>2, <1>3 DEF tcp_release_rto_timer, IsSock, SockFields
<1>5. u.strays \in 0..MaxStrays
  BY <1>2, StraysAssumption DEF SenderInv
<1>6. t.strays \in 0..MaxStrays
  BY <1>4, <1>5, StraysAssumption DEF MinOf
<1>7. \A f \in SockFields \ {"rto", "strays"} : t[f] = s[f]
  BY Zenon, <1>2, <1>4
<1> QED BY Zenon, <1>4, <1>6, <1>7

\* It finds the write queue empty.
LEMMA LateEmptyContinues ==
  ASSUME NEW s, SenderInv(s), s.out = {}, s.strays > 0, s.write_queue = <<>>,
         NEW t, t = LateHandler(s)
  PROVE  Continues(s, t) /\ ClockInv(t)
<1>1. /\ IsSock(t) /\ t.rto = FALSE /\ t.strays \in 0..MaxStrays
      /\ \A f \in SockFields \ {"rto", "strays"} : t[f] = s[f]
  BY Zenon, LateFields
<1>2. /\ t.state = s.state /\ t.delacks = s.delacks /\ t.linger = s.linger /\ t.out = s.out
      /\ t.write_queue = s.write_queue
  BY Zenon, <1>1 DEF SockFields
<1>3. /\ s.state \in {"ESTABLISHED", "CLOSING", "TIME_WAIT"}
      /\ s.delacks \in Nat /\ s.linger \in {"user", "none"}
  BY Zenon DEF SenderInv
<1>4. SenderInv(t) /\ \A v : Ackable(s, v) => Ackable(t, v)
  <2>9. KeepsStream(s, t)
    BY Zenon, <1>1, <1>2, <1>3 DEF KeepsStream
  <2> QED BY Zenon, <2>9, SenderFrame
<1>5. DataInv(t, t.out) /\ ClockInv(t)
  BY Zenon, <1>2 DEF DataInv, ClockInv
<1> QED BY Zenon, <1>4, <1>5 DEF Continues

\* It retransmits the head of the queue: at snd_una, which is where the head begins.
LEMMA HeadIsPiece ==
  ASSUME NEW s, SenderInv(s), ClockInv(s), s.write_queue # <<>>,
         NEW m, m = Segment(s.snd_una, s.rcv_nxt, s.write_queue[1].run, s.write_queue[1].psh,
                            s.write_queue[1].fin, FALSE, s.write_queue[1].tag)
  PROVE  m \in SegSet /\ Piece(s, m.seq, m.run) /\ s.write_queue[1].fin = FALSE
<1>1. /\ QueueInv(s.write_queue, s.written, s.snd_una, s.snd_nxt, s.inflight)
      /\ s.rcv_nxt \in Nat
  BY SMTT(40) DEF SenderInv
<1>2. /\ s.write_queue \in Seq(SkbSet) /\ s.snd_una = Edge(s.write_queue, s.written, 1)
      /\ s.inflight \in Nat
  BY Zenon, <1>1 DEF QueueInv, Contiguous
<1>3. 1 \in 1..Len(s.write_queue)
  BY <1>2
<1>4. s.state = "ESTABLISHED" => 1 <= s.inflight
  BY <1>2 DEF ClockInv
<1>5. m \in SegSet /\ Piece(s, m.seq, m.run)
  BY Zenon, <1>1, <1>2, <1>3, <1>4, BufferPiece
<1>6. s.write_queue[1].fin = FALSE
  <2>1. s.write_queue[1] \in SkbSet
    BY <1>2, <1>3
  <2> QED BY Zenon, <2>1, SkbTypes
<1> QED BY Zenon, <1>5, <1>6

\* tcp_retransmission_timeout sends the head of the queue at its own sequence number
\* and arms the next timeout; the head is no FIN.
LEMMA RetransmitContinues ==
  ASSUME NEW s, SenderInv(s), ClockInv(s), s.out = {}, s.strays > 0, s.write_queue # <<>>,
         NEW l, l = LateHandler(s),
         NEW t, t = [tcp_transmit_skb(l, l.write_queue[1], l.snd_una) EXCEPT !.rto = TRUE]
  PROVE  Continues(s, t) /\ ClockInv(t) /\ l.write_queue[1].fin = FALSE
<1>1. /\ IsSock(l) /\ l.rto = FALSE /\ l.strays \in 0..MaxStrays
      /\ \A f \in SockFields \ {"rto", "strays"} : l[f] = s[f]
  BY Zenon, LateFields
<1>2. l.write_queue = s.write_queue /\ l.snd_una = s.snd_una /\ l.rcv_nxt = s.rcv_nxt /\ l.out = {}
  BY Zenon, <1>1 DEF SockFields
<1>3. PICK m : m = Segment(s.snd_una, s.rcv_nxt, s.write_queue[1].run, s.write_queue[1].psh,
                           s.write_queue[1].fin, FALSE, s.write_queue[1].tag)
  BY Zenon
<1>4. m \in SegSet /\ Piece(s, m.seq, m.run) /\ s.write_queue[1].fin = FALSE
  BY Zenon, <1>3, HeadIsPiece
<1>5. /\ IsSock(t) /\ t.rto = TRUE /\ t.out = {m}
      /\ \A f \in SockFields \ {"rto", "out"} : t[f] = l[f]
  BY ZenonT(40), <1>1, <1>2, <1>3 DEF tcp_transmit_skb, IsSock, SockFields
<1>6. \A f \in SockFields \ {"state", "rto", "strays", "delack", "delacks", "linger",
                             "fin", "out"} : t[f] = s[f]
  BY Zenon, <1>1, <1>5
<1>7. /\ t.state = s.state /\ t.strays = l.strays /\ t.delacks = s.delacks
      /\ t.linger = s.linger /\ t.inflight = s.inflight /\ t.write_queue = s.write_queue
  BY Zenon, <1>1, <1>5 DEF SockFields
<1>8. SenderInv(t) /\ \A v : Ackable(s, v) => Ackable(t, v)
  <2>1. /\ s.state \in {"ESTABLISHED", "CLOSING", "TIME_WAIT"} /\ t.rto \in BOOLEAN
        /\ s.delacks \in Nat /\ s.linger \in {"user", "none"}
    BY Zenon, <1>5 DEF SenderInv
  <2>2. /\ t.state \in {"ESTABLISHED", "CLOSING", "TIME_WAIT"} /\ t.delacks \in Nat
        /\ t.linger \in {"user", "none"} /\ (t.state = "ESTABLISHED" => s.state = "ESTABLISHED")
    BY Zenon, <1>7, <2>1
  <2>3. IsSock(t) /\ t.rto \in BOOLEAN /\ t.strays \in 0..MaxStrays
    BY Zenon, <1>1, <1>5, <1>7
  <2>9. KeepsStream(s, t)
    BY Zenon, <1>6, <2>2, <2>3 DEF KeepsStream
  <2> QED BY ZenonT(40), <2>9, SenderFrame
<1>9. DataInv(t, t.out)
  <2>1. Piece(t, m.seq, m.run)
    BY ZenonT(40), <1>4, <1>8 DEF Piece
  <2> QED BY Zenon, <1>4, <1>5, <2>1 DEF DataInv
<1>10. ClockInv(t)
  BY Zenon, <1>5, <1>7 DEF ClockInv
<1> QED BY Zenon, <1>2, <1>4, <1>8, <1>9, <1>10 DEF Continues

\* The last retransmission: the connection is given up.
LEMMA GiveUpContinues ==
  ASSUME NEW s, SenderInv(s), ClockInv(s), s.out = {}, s.strays > 0, s.write_queue # <<>>,
         NEW l, l = LateHandler(s),
         NEW t, t = tcp_done(tcp_transmit_skb(l, l.write_queue[1], l.snd_una))
  PROVE  Continues(s, t) /\ ClockInv(t)
<1>1. /\ IsSock(l) /\ l.rto = FALSE /\ l.strays \in 0..MaxStrays
      /\ \A f \in SockFields \ {"rto", "strays"} : l[f] = s[f]
  BY Zenon, LateFields
<1>2. l.write_queue = s.write_queue /\ l.snd_una = s.snd_una /\ l.rcv_nxt = s.rcv_nxt /\ l.out = {}
  BY Zenon, <1>1 DEF SockFields
<1>3. PICK m : m = Segment(s.snd_una, s.rcv_nxt, s.write_queue[1].run, s.write_queue[1].psh,
                           s.write_queue[1].fin, FALSE, s.write_queue[1].tag)
  BY Zenon
<1>4. m \in SegSet /\ Piece(s, m.seq, m.run)
  BY Zenon, <1>3, HeadIsPiece
<1>5. PICK u : u = tcp_transmit_skb(l, l.write_queue[1], l.snd_una)
  BY Zenon
<1>6. IsSock(u) /\ u.out = {m} /\ \A f \in SockFields \ {"out"} : u[f] = l[f]
  BY ZenonT(40), <1>1, <1>2, <1>3, <1>5 DEF tcp_transmit_skb, IsSock, SockFields
<1>7. /\ IsSock(t) /\ t.state = "CLOSING" /\ t.rto = FALSE /\ t.linger = "none"
      /\ t.ofo_queue = <<>> /\ t.fec = FALSE
      /\ \A f \in SockFields \ {"state", "rto", "delack", "linger", "ofo_queue", "fec"} :
           t[f] = u[f]
  BY ZenonT(40), <1>5, <1>6 DEF tcp_done, tcp_clear_timers, tcp_stop_rto_timer, IsSock, SockFields
<1>8. s.ofo_queue = <<>> /\ s.fec = FALSE
  BY Zenon DEF SenderInv
<1>9. \A f \in SockFields \ {"state", "rto", "strays", "delack", "delacks", "linger",
                             "fin", "out"} : t[f] = s[f]
  <2>1. \A f \in SockFields \ {"state", "rto", "strays", "delack", "delacks", "linger",
                               "fin", "out", "ofo_queue", "fec"} : t[f] = s[f]
    BY ZenonT(40), <1>1, <1>6, <1>7
  <2> QED BY ZenonT(40), <1>7, <1>8, <2>1
<1>10. t.strays = l.strays /\ t.delacks = s.delacks /\ t.out = {m}
  BY ZenonT(40), <1>1, <1>6, <1>7 DEF SockFields
<1>11. SenderInv(t) /\ \A v : Ackable(s, v) => Ackable(t, v)
  <2>1. s.delacks \in Nat /\ t.rto \in BOOLEAN /\ t.linger \in {"user", "none"}
    BY Zenon, <1>7 DEF SenderInv
  <2>9. KeepsStream(s, t)
    BY ZenonT(40), <1>1, <1>7, <1>9, <1>10, <2>1 DEF KeepsStream
  <2> QED BY Zenon, <2>9, SenderFrame
<1>12. DataInv(t, t.out)
  <2>1. Piece(t, m.seq, m.run)
    BY Zenon, <1>4, <1>11 DEF Piece
  <2> QED BY Zenon, <1>4, <1>10, <2>1 DEF DataInv
<1>13. ClockInv(t)
  BY Zenon, <1>7 DEF ClockInv
<1> QED BY Zenon, <1>11, <1>12, <1>13 DEF Continues

\* A pure acknowledgment, at once or from the delayed-ACK timer.
LEMMA AckContinues ==
  ASSUME NEW s, SenderInv(s), ClockInv(s), s.out = {}, NEW d \in BOOLEAN, NEW n \in Nat,
         NEW t, t = tcp_send_ack([s EXCEPT !.delack = d, !.delacks = n])
  PROVE  Continues(s, t) /\ ClockInv(t)
<1>1. PICK m : m = Segment(s.snd_nxt, 1, Nothing, FALSE, FALSE, FALSE, NoTag)
  BY Zenon
<1>2. s.rcv_nxt = 1
  BY Zenon DEF SenderInv
<1>3. /\ IsSock(t) /\ t.out = {m} /\ t.delacks = n
      /\ \A f \in SockFields \ {"delack", "delacks", "out"} : t[f] = s[f]
  BY ZenonT(40), <1>1, <1>2 DEF tcp_send_ack, tcp_transmit_skb, Skb, SenderInv, IsSock, SockFields
<1>4. /\ t.state = s.state /\ t.strays = s.strays /\ t.rto = s.rto /\ t.linger = s.linger
      /\ t.inflight = s.inflight /\ t.write_queue = s.write_queue /\ t.snd_nxt = s.snd_nxt
  BY Zenon, <1>3 DEF SockFields
<1>5. SenderInv(t) /\ \A v : Ackable(s, v) => Ackable(t, v)
  <2>1. /\ s.state \in {"ESTABLISHED", "CLOSING", "TIME_WAIT"} /\ s.rto \in BOOLEAN
        /\ s.strays \in 0..MaxStrays /\ s.linger \in {"user", "none"}
    BY Zenon DEF SenderInv
  <2>2. \A f \in SockFields \ {"state", "rto", "strays", "delack", "delacks", "linger",
                               "fin", "out"} : t[f] = s[f]
    BY Zenon, <1>3
  <2>9. KeepsStream(s, t)
    BY SMTT(40), <1>3, <1>4, <2>1, <2>2 DEF KeepsStream
  <2> QED BY Zenon, <2>9, SenderFrame
<1>6. DataInv(t, t.out)
  BY Zenon, <1>1, <1>3, <1>4, <1>5, SenderAck
<1>7. ClockInv(t)
  BY Zenon, <1>4 DEF ClockInv
<1> QED BY Zenon, <1>5, <1>6, <1>7 DEF Continues

------------------------------------------------------------------------------
\* A segment arrives at the writing socket: an acknowledgment at sequence number 1.

\* The ACK processing of tcp_input_state with tcp_clean_rto_queue: the write queue
\* still begins at snd_una, and what is in flight keeps its timer.
LEMMA AckFieldContinues ==
  ASSUME NEW s, SenderInv(s), ClockInv(s), s.out = {}, NEW m, Ackable(s, m.ack),
         NEW t, t = AckField(s, m)
  PROVE  /\ SenderInv(t) /\ t.out = {} /\ t.state = s.state
         /\ \A v : Ackable(s, v) => Ackable(t, v)
         /\ t.state = "ESTABLISHED" /\ t.write_queue # <<>> /\ t.inflight > 0
              => t.rto \/ t.strays > 0
<1>1. CASE NewAck(s, m)
  <2>1. s.snd_una < m.ack /\ m.ack <= s.snd_nxt
    BY Zenon, <1>1 DEF NewAck
  <2>2. t = tcp_clean_rto_queue([s EXCEPT !.snd_una = m.ack], m.ack)
    BY Zenon, <1>1 DEF AckField
  <2>3. /\ SenderInv(t) /\ \A v : Ackable(s, v) => Ackable(t, v)
        /\ t.out = s.out /\ t.state = s.state
        /\ t.write_queue # <<>> /\ t.inflight > 0 => t.rto = s.rto /\ t.strays = s.strays
    BY SMTT(40), <2>1, <2>2, CleanContinues
  <2>4. s.write_queue # <<>>
    <3>1. QueueInv(s.write_queue, s.written, s.snd_una, s.snd_nxt, s.inflight)
      BY Zenon DEF SenderInv
    <3>2. /\ s.inflight \in Nat /\ s.inflight <= Len(s.write_queue) /\ s.snd_una \in Nat
          /\ s.snd_una = Edge(s.write_queue, s.written, 1)
          /\ s.snd_nxt = Edge(s.write_queue, s.written, s.inflight + 1) /\ s.snd_nxt \in Nat
      BY Zenon, <3>1 DEF QueueInv
    <3>3. m.ack \in Nat
      BY Zenon DEF Ackable, Cut
    <3>4. ASSUME s.write_queue = <<>> PROVE FALSE
      <4>1. s.inflight = 0
        BY SMTT(40), <3>2, <3>4
      <4>2. s.snd_una = s.snd_nxt
        BY SMTT(40), <3>2, <4>1
      <4> QED BY SMTT(40), <2>1, <3>2, <3>3, <4>2
    <3> QED BY Zenon, <3>4
  <2> QED BY Zenon, <2>3, <2>4 DEF ClockInv
<1>2. CASE ~NewAck(s, m)
  <2>1. t = s
    BY Zenon, <1>2 DEF AckField
  <2> QED BY Zenon, <2>1 DEF ClockInv
<1> QED BY Zenon, <1>1, <1>2

\* In ESTABLISHED: the next buffers go out, or nothing but the counters changes.
LEMMA SendOrAckContinues ==
  ASSUME NEW s, SenderInv(s), s.out = {}, s.state = "ESTABLISHED",
         s.write_queue # <<>> /\ s.inflight > 0 => s.rto \/ s.strays > 0,
         NEW m, m.psh = FALSE, m.run = Nothing,
         NEW t, t = SendOrAck(s, m)
  PROVE  Continues(s, t) /\ ClockInv(t)
<1>1. PICK u : u = [s EXCEPT !.delack = FALSE]
  BY Zenon
<1>2. IsSock(u) /\ \A f \in SockFields \ {"delack"} : u[f] = s[f]
  BY Zenon, <1>1 DEF SenderInv, IsSock, SockFields
<1>3. /\ u.state = s.state /\ u.rto = s.rto /\ u.strays = s.strays /\ u.delacks = s.delacks
      /\ u.linger = s.linger /\ u.out = {} /\ u.inflight = s.inflight
      /\ u.write_queue = s.write_queue
  BY Zenon, <1>2 DEF SockFields
<1>4. SenderInv(u) /\ \A v : Ackable(s, v) => Ackable(u, v)
  <2>1. /\ u.state \in {"ESTABLISHED", "CLOSING", "TIME_WAIT"} /\ u.rto \in BOOLEAN
        /\ u.strays \in 0..MaxStrays /\ u.delacks \in Nat /\ u.linger \in {"user", "none"}
        /\ (u.state = "ESTABLISHED" => s.state = "ESTABLISHED")
    BY Zenon, <1>3 DEF SenderInv
  <2>2. \A f \in SockFields \ {"state", "rto", "strays", "delack", "delacks", "linger",
                               "fin", "out"} : u[f] = s[f]
    BY Zenon, <1>2
  <2>9. KeepsStream(s, u)
    BY SMTT(40), <1>2, <2>1, <2>2 DEF KeepsStream
  <2> QED BY Zenon, <2>9, SenderFrame
<1>5. s.write_queue \in Seq(SkbSet) /\ s.inflight \in Nat /\ Len(s.write_queue) \in Nat
  BY DEF SenderInv, QueueInv, Contiguous
<1>6. PICK n : n = Pending(s)
  BY Zenon
<1>7. n \in 0..3 /\ n <= Len(s.write_queue) /\ (s.write_queue # <<>> => n > 0)
  <2>1. s.write_queue # <<>> => Len(s.write_queue) > 0
    BY <1>5
  <2>2. PICK k \in Nat : k = Len(s.write_queue)
    BY Zenon, <1>5
  <2>3. n = IF k <= 3 THEN k ELSE 3
    BY Zenon, <1>6, <2>2 DEF Pending, MinOf
  <2>4. n \in 0..3 /\ n <= k /\ (k > 0 => n > 0)
    BY <2>3
  <2> QED BY Zenon, <2>1, <2>2, <2>4
<1>8. CASE s.inflight = 0 /\ n > 0
  <2>1. t = tcp_rearm_rto_timer([tcp_send_next(u, n) EXCEPT !.inflight = n])
    BY Zenon, <1>1, <1>6, <1>8 DEF SendOrAck
  <2>2. n \in 1..3 /\ n <= Len(u.write_queue) /\ u.inflight = 0
    BY SMTT(40), <1>3, <1>7, <1>8
  <2>3. Continues(u, t) /\ ClockInv(t)
    BY ZenonT(40), <1>3, <1>4, <2>1, <2>2, SendNextContinues
  <2> QED BY Zenon, <1>4, <2>3 DEF Continues
<1>9. CASE ~(s.inflight = 0 /\ n > 0)
  <2>1. m.run.len = 0 /\ ~(m.run.len > BigSegment)
    BY WireAssumption DEF Nothing, Run
  <2>2. t = [u EXCEPT !.delacks = s.delacks, !.delack = (m.run.len > 0)]
    <3>1. ~(m.psh \/ (m.run.len > BigSegment /\
                        (IF m.run.len > BigSegment THEN s.delacks + 1 ELSE s.delacks) > 1))
      BY Zenon, <2>1
    <3> QED BY Zenon, <1>1, <1>6, <1>9, <2>1, <3>1 DEF SendOrAck
  <2>3. /\ IsSock(t) /\ t.delacks = s.delacks
        /\ \A f \in SockFields \ {"delack", "delacks"} : t[f] = u[f]
    BY ZenonT(40), <1>2, <2>2 DEF IsSock, SockFields
  <2>4. /\ t.state = s.state /\ t.rto = s.rto /\ t.strays = s.strays /\ t.linger = s.linger
        /\ t.out = {} /\ t.inflight = s.inflight /\ t.write_queue = s.write_queue
    BY Zenon, <1>3, <2>3 DEF SockFields
  <2>5. SenderInv(t) /\ \A v : Ackable(u, v) => Ackable(t, v)
    <3>1. /\ t.state \in {"ESTABLISHED", "CLOSING", "TIME_WAIT"} /\ t.rto \in BOOLEAN
          /\ t.strays \in 0..MaxStrays /\ t.delacks \in Nat /\ t.linger \in {"user", "none"}
          /\ (t.state = "ESTABLISHED" => u.state = "ESTABLISHED")
      BY Zenon, <1>3, <2>3, <2>4 DEF SenderInv
    <3>2. \A f \in SockFields \ {"state", "rto", "strays", "delack", "delacks", "linger",
                                 "fin", "out"} : t[f] = u[f]
      BY Zenon, <2>3
    <3>9. KeepsStream(u, t)
      BY SMTT(40), <1>4, <2>3, <3>1, <3>2 DEF KeepsStream
    <3> QED BY Zenon, <1>4, <3>9, SenderFrame
  <2>6. DataInv(t, t.out)
    BY Zenon, <2>4 DEF DataInv
  <2>7. ClockInv(t)
    BY SMTT(40), <1>5, <1>7, <1>9, <2>4 DEF ClockInv
  <2> QED BY Zenon, <1>4, <2>5, <2>6, <2>7 DEF Continues
<1> QED BY Zenon, <1>8, <1>9

\* Outside ESTABLISHED: the FIN switch of tcp_input_state, which takes a connection
\* that was given up to TIME_WAIT and answers in TIME_WAIT.
LEMMA FinAckedContinues ==
  ASSUME NEW s, SenderInv(s), s.out = {}, NEW m, m.seq = 1, NEW t, t = FinAcked(s, m)
  PROVE  /\ s.state = "ESTABLISHED" => t = s
         /\ s.state # "ESTABLISHED" => Continues(s, t) /\ t.state # "ESTABLISHED"
         /\ t.state \in {"ESTABLISHED", "CLOSING", "TIME_WAIT"} /\ t.rcv_nxt = 1
<1>1. /\ s.state \in {"ESTABLISHED", "CLOSING", "TIME_WAIT"} /\ s.rto \in BOOLEAN
      /\ s.strays \in 0..MaxStrays /\ s.delacks \in Nat /\ s.linger \in {"user", "none"}
      /\ s.rcv_nxt = 1 /\ IsSock(s)
  BY Zenon DEF SenderInv
<1>2. CASE t = s
  <2>1. DataInv(s, s.out)
    BY Zenon DEF DataInv
  <2> QED BY Zenon, <1>1, <1>2, <2>1 DEF Continues
<1>3. CASE s.write_queue = <<>> /\ s.state = "CLOSING"
  <2>1. t = [s EXCEPT !.state = "TIME_WAIT"]
    BY Zenon, <1>3 DEF FinAcked
  <2>2. IsSock(t) /\ t.state = "TIME_WAIT" /\ \A f \in SockFields \ {"state"} : t[f] = s[f]
    BY Zenon, <1>1, <2>1 DEF IsSock, SockFields
  <2>3. /\ t.rto = s.rto /\ t.strays = s.strays /\ t.delacks = s.delacks /\ t.linger = s.linger
        /\ t.out = {} /\ t.rcv_nxt = 1
    BY Zenon, <1>1, <2>2 DEF SockFields
  <2>4. KeepsStream(s, t)
    BY SMTT(40), <1>1, <2>2, <2>3 DEF KeepsStream
  <2>5. SenderInv(t) /\ \A v : Ackable(s, v) => Ackable(t, v)
    BY Zenon, <2>4, SenderFrame
  <2>6. DataInv(t, t.out)
    BY Zenon, <2>3 DEF DataInv
  <2> QED BY SMTT(40), <1>3, <2>2, <2>3, <2>5, <2>6 DEF Continues
<1>4. CASE s.write_queue = <<>> /\ s.state = "TIME_WAIT"
  <2>1. t = tcp_send_ack([s EXCEPT !.fin = TRUE])
    BY Zenon, <1>1, <1>4 DEF FinAcked
  <2>2. PICK x : x = Segment(s.snd_nxt, 1, Nothing, FALSE, FALSE, FALSE, NoTag)
    BY Zenon
  <2>3. IsSock(t) /\ t.out = {x} /\ \A f \in SockFields \ {"fin", "out"} : t[f] = s[f]
    BY Zenon, <1>1, <2>1, <2>2 DEF tcp_send_ack, tcp_transmit_skb, Skb, IsSock, SockFields
  <2>4. /\ t.rto = s.rto /\ t.strays = s.strays /\ t.delacks = s.delacks /\ t.linger = s.linger
        /\ t.rcv_nxt = 1 /\ t.state = "TIME_WAIT" /\ t.snd_nxt = s.snd_nxt
    BY SMTT(40), <1>1, <1>4, <2>3 DEF SockFields
  <2>5. KeepsStream(s, t)
    BY SMTT(40), <1>1, <2>3, <2>4 DEF KeepsStream
  <2>6. SenderInv(t) /\ \A v : Ackable(s, v) => Ackable(t, v)
    BY Zenon, <2>5, SenderFrame
  <2>7. DataInv(t, t.out)
    BY Zenon, <2>2, <2>3, <2>4, <2>6, SenderAck
  <2> QED BY SMTT(40), <1>4, <2>4, <2>6, <2>7 DEF Continues
<1>5. t = s \/ (s.write_queue = <<>> /\ s.state \in {"CLOSING", "TIME_WAIT"})
  BY Zenon, <1>1 DEF FinAcked
<1> QED BY Zenon, <1>2, <1>3, <1>4, <1>5

\* The whole of tcp_input_state for an acknowledgment.
LEMMA AcceptedContinues ==
  ASSUME NEW s, SenderInv(s), ClockInv(s), s.out = {},
         NEW m, m \in SegSet, m.seq = 1, m.run = Nothing, m.psh = FALSE, Ackable(s, m.ack),
         NEW t, t = Accepted(s, m)
  PROVE  Continues(s, t) /\ ClockInv(t)
<1>1. PICK a : a = AckField(s, m)
  BY Zenon
<1>2. /\ SenderInv(a) /\ a.out = {} /\ a.state = s.state
      /\ \A v : Ackable(s, v) => Ackable(a, v)
      /\ a.state = "ESTABLISHED" /\ a.write_queue # <<>> /\ a.inflight > 0
           => a.rto \/ a.strays > 0
  BY Zenon, <1>1, AckFieldContinues
<1>3. PICK f : f = FinAcked(a, m)
  BY Zenon
<1>4. /\ a.state = "ESTABLISHED" => f = a
      /\ a.state # "ESTABLISHED" => Continues(a, f) /\ f.state # "ESTABLISHED"
      /\ f.state \in {"ESTABLISHED", "CLOSING", "TIME_WAIT"} /\ f.rcv_nxt = 1
  BY SMTT(40), <1>2, <1>3, FinAckedContinues
<1>5. m.fin = FALSE /\ m.run.len = 0
  <2>1. m.fin = FALSE
    BY ZenonT(40), SegTypes
  <2>2. m.run.len = 0
    BY DEF Nothing, Run
  <2> QED BY Zenon, <2>1, <2>2
<1>6. SegmentText(f, m) = f
  BY SMTT(40), <1>5 DEF SegmentText
<1>7. t = IF f.state \in TextStates THEN SendOrAck(f, m) ELSE f
  BY Zenon, <1>1, <1>3, <1>4, <1>5, <1>6 DEF Accepted
<1>8. CASE a.state = "ESTABLISHED"
  <2>1. f = a /\ t = SendOrAck(a, m)
    BY Zenon, <1>4, <1>7, <1>8 DEF TextStates
  <2>2. Continues(a, t) /\ ClockInv(t)
    BY ZenonT(40), <1>2, <1>8, <2>1, SendOrAckContinues
  <2> QED BY Zenon, <1>2, <2>2 DEF Continues
<1>9. CASE a.state # "ESTABLISHED"
  <2>1. t = f
    BY Zenon, <1>4, <1>7, <1>9 DEF TextStates
  <2> QED BY SMTT(40), <1>2, <1>4, <1>9, <2>1 DEF Continues, ClockInv
<1> QED BY Zenon, <1>8, <1>9

------------------------------------------------------------------------------
\* The handlers of the reading socket.

\* t reads what s writes, and acknowledges what it has got of it.
Reads(s, t) ==
  ReceiverInv(t) /\ ReaderInv(s, t) /\ AckInv(s, t.out)

\* t differs from r in the delayed-ACK state and in what it sends.
KeepsReading(r, t) ==
  /\ IsSock(t) /\ t.delacks \in Nat
  /\ \A f \in SockFields \ {"delack", "delacks", "out"} : t[f] = r[f]

\* Such a step leaves a reading socket one.
LEMMA ReaderFrame ==
  ASSUME NEW s, NEW r, ReceiverInv(r), ReaderInv(s, r), NEW t, KeepsReading(r, t)
  PROVE  ReceiverInv(t) /\ ReaderInv(s, t)
<1>1. /\ t.state = r.state /\ t.snd_una = r.snd_una /\ t.snd_nxt = r.snd_nxt
      /\ t.inflight = r.inflight /\ t.write_queue = r.write_queue /\ t.rto = r.rto
      /\ t.strays = r.strays /\ t.fec = r.fec /\ t.closed = r.closed /\ t.linger = r.linger
      /\ t.written = r.written /\ t.enc = r.enc
  BY Zenon DEF KeepsReading, SockFields
<1>2. /\ t.ofo_queue = r.ofo_queue /\ t.receive_queue = r.receive_queue
      /\ t.rcv_nxt = r.rcv_nxt
  BY Zenon DEF KeepsReading, SockFields
<1>3. ReceiverInv(t)
  BY Zenon, <1>1 DEF ReceiverInv, KeepsReading
<1>4. ReaderInv(s, t)
  BY Zenon, <1>2 DEF ReaderInv
<1> QED BY Zenon, <1>3, <1>4

\* An acknowledgment of the reading socket names a point it has reached.
LEMMA ReaderAck ==
  ASSUME NEW s, NEW r, ReceiverInv(r), ReaderInv(s, r), AckInv(s, r.out),
         NEW t, t = tcp_send_ack(r)
  PROVE  Reads(s, t)
<1>1. PICK m : m = Segment(1, r.rcv_nxt, Nothing, FALSE, FALSE, FALSE, NoTag)
  BY Zenon
<1>2. r.snd_nxt = 1 /\ IsSock(r) /\ r.delacks \in Nat
  BY Zenon DEF ReceiverInv
<1>3. /\ IsSock(t) /\ t.out = r.out \union {m}
      /\ \A f \in SockFields \ {"out"} : t[f] = r[f]
  BY Zenon, <1>1, <1>2 DEF tcp_send_ack, tcp_transmit_skb, Skb, IsSock, SockFields
<1>4. t.delacks = r.delacks
  BY Zenon, <1>3 DEF SockFields
<1>5. KeepsReading(r, t)
  BY Zenon, <1>2, <1>3, <1>4 DEF KeepsReading
<1>6. r.rcv_nxt \in Nat /\ Ackable(s, r.rcv_nxt)
  BY Zenon DEF ReaderInv, Ackable, Cut
<1>7. m \in SegSet /\ m.seq = 1 /\ m.run = Nothing /\ m.psh = FALSE /\ m.ack = r.rcv_nxt
  BY Zenon, <1>1, <1>6 DEF SegSet, RunSet, Segment, Nothing, Run
<1>8. AckInv(s, t.out)
  BY Zenon, <1>3, <1>6, <1>7 DEF AckInv
<1> QED BY Zenon, <1>5, <1>8, ReaderFrame DEF Reads

\* So does the delayed one, and the end of tcp_input_state for the reading socket.
LEMMA ReaderSendOrAck ==
  ASSUME NEW s, NEW r, ReceiverInv(r), ReaderInv(s, r), AckInv(s, r.out),
         NEW m \in SegSet, NEW t, t = SendOrAck(r, m)
  PROVE  Reads(s, t)
<1>1. /\ r.write_queue = <<>> /\ r.inflight = 0 /\ r.delacks \in Nat /\ IsSock(r)
  BY Zenon DEF ReceiverInv
<1>2. Pending(r) = 0
  BY SMTT(40), <1>1 DEF Pending, MinOf
<1>3. PICK c : c = IF m.run.len > BigSegment THEN r.delacks + 1 ELSE r.delacks
  BY Zenon
<1>4. c \in Nat
  BY <1>1, <1>3
<1>5. PICK u : u = [r EXCEPT !.delack = FALSE]
  BY Zenon
<1>6. /\ IsSock(u) /\ u.delacks = r.delacks /\ u.out = r.out
      /\ \A f \in SockFields \ {"delack"} : u[f] = r[f]
  BY ZenonT(40), <1>1, <1>5 DEF IsSock, SockFields
<1>7. \/ t = tcp_send_ack([u EXCEPT !.delacks = 0])
      \/ t = [u EXCEPT !.delacks = c, !.delack = (m.run.len > 0)]
  BY SMTT(40), <1>2, <1>3, <1>5 DEF SendOrAck
<1>8. CASE t = tcp_send_ack([u EXCEPT !.delacks = 0])
  <2>1. PICK v : v = [u EXCEPT !.delacks = 0]
    BY ZenonT(40)
  <2>2. /\ IsSock(v) /\ v.delacks = 0 /\ v.out = u.out
        /\ \A f \in SockFields \ {"delacks"} : v[f] = u[f]
    BY Zenon, <1>6, <2>1 DEF IsSock, SockFields
  <2>3. \A f \in SockFields \ {"delack", "delacks", "out"} : v[f] = r[f]
    BY Zenon, <1>6, <2>2
  <2>4. KeepsReading(r, v)
    BY SMTT(40), <2>2, <2>3 DEF KeepsReading
  <2>5. ReceiverInv(v) /\ ReaderInv(s, v) /\ AckInv(s, v.out)
    BY SMTT(40), <1>6, <2>2, <2>4, ReaderFrame
  <2>6. Reads(s, t)
    BY Zenon, <1>8, <2>1, <2>5, ReaderAck
  <2> QED BY Zenon, <2>6 DEF Reads
<1>9. CASE t = [u EXCEPT !.delacks = c, !.delack = (m.run.len > 0)]
  <2>1. /\ IsSock(t) /\ t.delacks = c /\ t.out = u.out
        /\ \A f \in SockFields \ {"delacks", "delack"} : t[f] = u[f]
    BY ZenonT(40), <1>6, <1>9 DEF IsSock, SockFields
  <2>2. \A f \in SockFields \ {"delack", "delacks", "out"} : t[f] = r[f]
    BY Zenon, <1>6, <2>1
  <2>3. KeepsReading(r, t)
    BY Zenon, <1>4, <2>1, <2>2 DEF KeepsReading
  <2> QED BY SMTT(40), <1>6, <2>1, <2>3, ReaderFrame DEF Reads
<1> QED BY Zenon, <1>7, <1>8, <1>9

\* The whole of tcp_input_state for a segment of the writer.
LEMMA ReaderAccepts ==
  ASSUME NEW s, NEW r, ReceiverInv(r), ReaderInv(s, r), r.out = {},
         NEW m \in SegSet, m.psh \/ m.run.len > 0 => Piece(s, m.seq, m.run),
         NEW t, t = Accepted(r, m)
  PROVE  Reads(s, t)
<1>1. /\ r.state = "ESTABLISHED" /\ r.snd_una = 1 /\ r.snd_nxt = 1 /\ IsSock(r)
      /\ r.delacks \in Nat
  BY Zenon DEF ReceiverInv
<1>2. m.fin = FALSE
  BY Zenon, SegTypes
<1>3. m.seq \in Nat /\ m.ack \in Nat /\ m.run \in RunSet
  BY Zenon, SegTypes
<1>4. FinAcked(AckField(r, m), m) = r
  <2>1. ~NewAck(r, m)
    BY SMTT(40), <1>1, <1>3 DEF NewAck
  <2> QED BY Zenon, <1>1, <2>1 DEF AckField, FinAcked
<1>5. PICK d : d = SegmentText(r, m)
  BY Zenon
<1>6. t = IF d.state \in TextStates /\ m.seq = r.rcv_nxt THEN SendOrAck(d, m) ELSE d
  BY Zenon, <1>2, <1>4, <1>5 DEF Accepted
<1>7. Reads(s, d)
  <2>1. CASE m.psh \/ m.run.len > 0
    <3>1. d = tcp_data_queue(r, m.seq, m.run)
      BY Zenon, <1>1, <1>5, <2>1 DEF SegmentText, TextStates
    <3>2. /\ ReaderInv(s, d) /\ IsSock(d) /\ AckInv(s, d.out)
          /\ \A f \in SockFields \ {"rcv_nxt", "ofo_queue", "receive_queue", "out"} : d[f] = r[f]
      BY SMTT(40), <1>1, <1>3, <2>1, <3>1, DataQueueReads
    <3>3. /\ d.state = r.state /\ d.snd_una = r.snd_una /\ d.snd_nxt = r.snd_nxt
          /\ d.inflight = r.inflight /\ d.write_queue = r.write_queue /\ d.rto = r.rto
          /\ d.strays = r.strays /\ d.fec = r.fec /\ d.closed = r.closed /\ d.linger = r.linger
          /\ d.written = r.written /\ d.enc = r.enc /\ d.delacks = r.delacks
      BY Zenon, <3>2 DEF SockFields
    <3>4. ReceiverInv(d)
      BY Zenon, <3>2, <3>3 DEF ReceiverInv
    <3> QED BY Zenon, <3>2, <3>4 DEF Reads
  <2>2. CASE ~(m.psh \/ m.run.len > 0)
    <3>1. d = r
      BY Zenon, <1>5, <2>2 DEF SegmentText
    <3> QED BY Zenon, <3>1 DEF Reads, AckInv
  <2> QED BY Zenon, <2>1, <2>2
<1>8. Reads(s, SendOrAck(d, m))
  BY Zenon, <1>7, ReaderSendOrAck DEF Reads
<1> QED BY SMTT(40), <1>6, <1>7, <1>8

------------------------------------------------------------------------------
\* The actions.

\* What the frame of a handler does to the state, without a segment ...
LEMMA StepFrame ==
  ASSUME OneWayInv, NEW e \in Ends, NEW s, Step(e, s)
  PROVE  /\ sk' = [sk EXCEPT ![e] = [s EXCEPT !.out = {}]] /\ lost' = lost
         /\ net' = [x \in Ends |-> net'[x]]
         /\ net'[e] \subseteq net[e] /\ net'[Peer(e)] = net[Peer(e)] \union s.out
BY Zenon DEF Step, OneWayInv, Ends, Peer

\* ... and with one, which is taken off the wire unless it may come again.
LEMMA HandlesFrame ==
  ASSUME OneWayInv, NEW e \in Ends, NEW m, NEW s, Handles(e, m, s)
  PROVE  /\ sk' = [sk EXCEPT ![e] = [s EXCEPT !.out = {}]] /\ lost' = lost
         /\ net' = [x \in Ends |-> net'[x]]
         /\ net'[e] \subseteq net[e] /\ net'[Peer(e)] = net[Peer(e)] \union s.out
<1>1. net = [x \in Ends |-> net[x]]
  BY Zenon DEF OneWayInv
<1>2. net' = [net EXCEPT ![Peer(e)] = @ \union s.out, ![e] = IF Duplicates THEN @ ELSE @ \ {m}]
  BY Zenon DEF Handles
<1>3. Peer(e) \in Ends /\ Peer(e) # e
  BY Zenon DEF Peer, Ends
<1>4. /\ net' = [x \in Ends |-> net'[x]] /\ net'[Peer(e)] = net[Peer(e)] \union s.out
      /\ net'[e] = IF Duplicates THEN net[e] ELSE net[e] \ {m}
  BY ZenonT(40), <1>1, <1>2, <1>3
<1> QED BY Zenon, <1>4 DEF Handles

\* The handlers of A that no segment wakes.
LEMMA WriterActs ==
  ASSUME OneWay, OneWayInv,
         \/ \E n \in WriteSizes, intact \in BOOLEAN : Write("A", n, intact)
         \/ \E intact \in BOOLEAN : Close("A", intact)
         \/ RtoExpires("A") \/ RunsRtoHandler("A") \/ DelackTimeout("A")
         \/ TimeWaitTimeout("A") \/ UserTimeout("A")
  PROVE  OneWayInv'
<1>1. PICK a : a = sk["A"]
  BY Zenon
<1>2. /\ SenderInv(a) /\ ClockInv(a) /\ a.out = {}
      /\ a.state \in {"ESTABLISHED", "CLOSING", "TIME_WAIT"} /\ a.linger \in {"user", "none"}
  BY Zenon, <1>1 DEF OneWayInv, SenderInv
<1>3. ASSUME NEW s, Continues(a, s), ClockInv(s), Step("A", s) PROVE OneWayInv'
  <2>1. /\ sk' = [sk EXCEPT !["A"] = [s EXCEPT !.out = {}]] /\ lost' = lost
        /\ net' = [x \in Ends |-> net'[x]]
        /\ net'["A"] \subseteq net["A"] /\ net'["B"] = net["B"] \union s.out
    BY Zenon, <1>3, StepFrame DEF Ends, Peer
  <2> QED BY ZenonT(40), <1>1, <1>3, <2>1, SenderStep
<1>4. ASSUME NEW n \in WriteSizes, NEW intact \in BOOLEAN, Write("A", n, intact)
      PROVE  OneWayInv'
  <2>1. a.state = "ESTABLISHED" /\ n \in Nat \ {0} /\ Step("A", tcp_send(a, n, intact))
    BY SMTT(40), <1>1, <1>2, <1>4, ConnAssumption DEF Write
  <2>2. Continues(a, tcp_send(a, n, intact)) /\ ClockInv(tcp_send(a, n, intact))
    BY Zenon, <1>2, <2>1, SendContinues
  <2> QED BY Zenon, <1>3, <2>1, <2>2
<1>5. ASSUME NEW intact \in BOOLEAN, Close("A", intact) PROVE OneWayInv'
  <2>1. FALSE
    BY SMTT(40), <1>1, <1>2, <1>5 DEF Close, OneWay
  <2> QED BY Zenon, <2>1
<1>6. CASE RtoExpires("A")
  <2>1. PICK t : t = [a EXCEPT !.rto = FALSE, !.strays = @ + 1]
    BY Zenon
  <2>2. a.strays < MaxStrays /\ Step("A", t)
    BY Zenon, <1>1, <1>6, <2>1 DEF RtoExpires
  <2>3. Continues(a, t) /\ ClockInv(t)
    BY ZenonT(40), <1>2, <2>1, <2>2, ExpireContinues
  <2> QED BY Zenon, <1>3, <2>2, <2>3
<1>7. CASE RtoQueueEmpty("A")
  <2>1. a.strays > 0 /\ a.write_queue = <<>> /\ Step("A", LateHandler(a))
    BY Zenon, <1>1, <1>7 DEF RtoQueueEmpty
  <2>2. Continues(a, LateHandler(a)) /\ ClockInv(LateHandler(a))
    BY Zenon, <1>2, <2>1, LateEmptyContinues
  <2> QED BY SMTT(40), <1>3, <2>1, <2>2
<1>8. CASE Retransmit("A")
  <2>1. PICK l : l = LateHandler(a)
    BY Zenon
  <2>2. PICK t : t = [tcp_transmit_skb(l, l.write_queue[1], l.snd_una) EXCEPT !.rto = TRUE]
    BY Zenon
  <2>3. /\ a.strays > 0 /\ a.write_queue # <<>>
        /\ Step("A", IF l.write_queue[1].fin THEN tcp_handle_fin_state(t) ELSE t)
    BY SMTT(40), <1>1, <1>8, <2>1, <2>2 DEF Retransmit
  <2>4. Continues(a, t) /\ ClockInv(t) /\ l.write_queue[1].fin = FALSE
    BY ZenonT(40), <1>2, <2>1, <2>2, <2>3, RetransmitContinues
  <2>5. Step("A", t)
    BY Zenon, <2>3, <2>4
  <2> QED BY Zenon, <1>3, <2>4, <2>5
<1>9. CASE RetransmitGivesUp("A")
  <2>1. PICK l : l = LateHandler(a)
    BY Zenon
  <2>2. PICK t : t = tcp_done(tcp_transmit_skb(l, l.write_queue[1], l.snd_una))
    BY Zenon
  <2>3. a.strays > 0 /\ a.write_queue # <<>> /\ Step("A", t)
    BY SMTT(40), <1>1, <1>9, <2>1, <2>2 DEF RetransmitGivesUp
  <2>4. Continues(a, t) /\ ClockInv(t)
    BY SMTT(40), <1>2, <2>1, <2>2, <2>3, GiveUpContinues
  <2> QED BY SMTT(40), <1>3, <2>3, <2>4
<1>10. CASE DelackTimeout("A")
  <2>1. PICK t : t = tcp_send_ack([a EXCEPT !.delack = FALSE, !.delacks = 0])
    BY Zenon
  <2>2. Step("A", t)
    BY Zenon, <1>1, <1>10, <2>1 DEF DelackTimeout
  <2>3. Continues(a, t) /\ ClockInv(t)
    BY ZenonT(40), <1>2, <2>1, AckContinues
  <2> QED BY Zenon, <1>3, <2>2, <2>3
<1>11. ~TimeWaitTimeout("A") /\ ~UserTimeout("A")
  BY Zenon, <1>1, <1>2 DEF TimeWaitTimeout, UserTimeout, OneWay
<1> QED BY SMTT(40), <1>4, <1>5, <1>6, <1>7, <1>8, <1>9, <1>10, <1>11 DEF RunsRtoHandler

\* A segment arrives at A.
LEMMA WriterReceives ==
  ASSUME OneWay, OneWayInv, Receive("A")
  PROVE  OneWayInv'
<1>1. PICK a : a = sk["A"]
  BY Zenon
<1>2. SenderInv(a) /\ ClockInv(a) /\ a.out = {} /\ a.fec = FALSE /\ a.rcv_nxt = 1
      /\ a.state \in {"ESTABLISHED", "CLOSING", "TIME_WAIT"}
  BY Zenon, <1>1 DEF OneWayInv, SenderInv
<1>3. PICK m \in net["A"] :
        \/ RepairArrives("A", m) \/ UnacceptableArrives("A", m) \/ ResetArrives("A", m)
        \/ UselessAckArrives("A", m) \/ LastAckArrives("A", m) \/ SegmentArrives("A", m)
  BY Zenon DEF Receive
<1>4. m \in SegSet /\ m.seq = 1 /\ m.run = Nothing /\ m.psh = FALSE /\ Ackable(a, m.ack)
  BY Zenon, <1>1 DEF OneWayInv, AckInv
<1>5. m.rst = FALSE
  BY Zenon, <1>4, SegTypes
<1>6. AfterFec(a, m) = a /\ tcp_verify_segment(a, m)
  BY SMTT(40), <1>2, <1>4, WireAssumption DEF AfterFec, tcp_verify_segment
<1>7. ASSUME NEW s, Continues(a, s), ClockInv(s), Handles("A", m, s) PROVE OneWayInv'
  <2>1. /\ sk' = [sk EXCEPT !["A"] = [s EXCEPT !.out = {}]] /\ lost' = lost
        /\ net' = [x \in Ends |-> net'[x]]
        /\ net'["A"] \subseteq net["A"] /\ net'["B"] = net["B"] \union s.out
    BY Zenon, <1>7, HandlesFrame DEF Ends, Peer
  <2> QED BY ZenonT(40), <1>1, <1>7, <2>1, SenderStep
<1>8. ~RepairArrives("A", m)
  BY Zenon, <1>1, <1>2 DEF RepairArrives, Consumes
<1>9. ~UnacceptableArrives("A", m)
  BY Zenon, <1>1, <1>6 DEF UnacceptableArrives
<1>10. ~ResetArrives("A", m)
  BY Zenon, <1>5 DEF ResetArrives
<1>11. ~LastAckArrives("A", m)
  BY SMTT(40), <1>1, <1>2, <1>6 DEF LastAckArrives, Finishes
<1>12. CASE UselessAckArrives("A", m)
  <2>1. Handles("A", m, a)
    BY Zenon, <1>1, <1>6, <1>12 DEF UselessAckArrives
  <2>2. Continues(a, a)
    BY Zenon, <1>2 DEF Continues, DataInv
  <2> QED BY SMTT(40), <1>2, <1>7, <2>1, <2>2
<1>13. CASE SegmentArrives("A", m)
  <2>1. PICK t : t = Accepted(a, m)
    BY Zenon
  <2>2. Handles("A", m, t)
    BY SMTT(40), <1>1, <1>6, <1>13, <2>1 DEF SegmentArrives
  <2>3. Continues(a, t) /\ ClockInv(t)
    BY Zenon, <1>2, <1>4, <2>1, AcceptedContinues
  <2> QED BY SMTT(40), <1>7, <2>2, <2>3
<1> QED BY SMTT(40), <1>3, <1>8, <1>9, <1>10, <1>11, <1>12, <1>13

\* B has nothing to write, to retransmit or to close; it may owe a delayed ACK.
LEMMA ReaderActs ==
  ASSUME OneWay, OneWayInv,
         \/ \E n \in WriteSizes, intact \in BOOLEAN : Write("B", n, intact)
         \/ \E intact \in BOOLEAN : Close("B", intact)
         \/ RtoExpires("B") \/ RunsRtoHandler("B") \/ DelackTimeout("B")
         \/ TimeWaitTimeout("B") \/ UserTimeout("B")
  PROVE  OneWayInv'
<1>1. PICK b : b = sk["B"]
  BY Zenon
<1>2. ReceiverInv(b) /\ ReaderInv(sk["A"], b) /\ b.out = {} /\ IsSock(b)
  BY Zenon, <1>1 DEF OneWayInv, ReceiverInv
<1>3. b.state = "ESTABLISHED" /\ b.rto = FALSE /\ b.strays = 0 /\ b.linger = "user"
  BY Zenon, <1>2 DEF ReceiverInv
<1>4. /\ ~\E n \in WriteSizes, intact \in BOOLEAN : Write("B", n, intact)
      /\ ~\E intact \in BOOLEAN : Close("B", intact)
  <2>1. "B" \notin Writers /\ "B" \notin Closers /\ "B" \notin QuietClosers
    BY Zenon DEF OneWay
  <2> QED BY Zenon, <1>1, <1>3, <2>1 DEF Write, Close
<1>5. ~RtoExpires("B") /\ ~RunsRtoHandler("B")
  BY SMTT(40), <1>1, <1>3 DEF RtoExpires, RunsRtoHandler, RtoQueueEmpty, Retransmit, RetransmitGivesUp
<1>6. ~TimeWaitTimeout("B") /\ ~UserTimeout("B")
  BY Zenon, <1>1, <1>3 DEF TimeWaitTimeout, UserTimeout, OneWay
<1>7. DelackTimeout("B")
  BY SMTT(40), <1>4, <1>5, <1>6
<1>8. PICK v : v = [b EXCEPT !.delack = FALSE, !.delacks = 0]
  BY Zenon
<1>9. PICK t : t = tcp_send_ack(v)
  BY Zenon
<1>10. Step("B", t)
  BY SMTT(40), <1>1, <1>7, <1>8, <1>9 DEF DelackTimeout
<1>11. /\ IsSock(v) /\ v.delacks = 0 /\ v.out = {}
       /\ \A f \in SockFields \ {"delack", "delacks", "out"} : v[f] = b[f]
  BY ZenonT(40), <1>2, <1>8 DEF IsSock, SockFields
<1>12. ReceiverInv(v) /\ ReaderInv(sk["A"], v)
  <2>1. KeepsReading(b, v)
    BY SMTT(40), <1>11 DEF KeepsReading
  <2> QED BY SMTT(40), <1>2, <2>1, ReaderFrame
<1>13. AckInv(sk["A"], v.out)
  BY Zenon, <1>11 DEF AckInv
<1>14. Reads(sk["A"], t)
  BY SMTT(40), <1>9, <1>12, <1>13, ReaderAck
<1>15. /\ sk' = [sk EXCEPT !["B"] = [t EXCEPT !.out = {}]] /\ lost' = lost
       /\ net' = [x \in Ends |-> net'[x]]
       /\ net'["B"] \subseteq net["B"] /\ net'["A"] = net["A"] \union t.out
  BY Zenon, <1>10, StepFrame DEF Ends, Peer
<1> QED BY Zenon, <1>14, <1>15, ReaderStep DEF Reads

\* A segment arrives at B.
LEMMA ReaderReceives ==
  ASSUME OneWay, OneWayInv, Receive("B")
  PROVE  OneWayInv'
<1>1. PICK b : b = sk["B"]
  BY Zenon
<1>2. ReceiverInv(b) /\ ReaderInv(sk["A"], b) /\ b.out = {}
  BY Zenon, <1>1 DEF OneWayInv
<1>3. b.state = "ESTABLISHED" /\ b.fec = FALSE
  BY Zenon, <1>2 DEF ReceiverInv
<1>4. PICK m \in net["B"] :
        \/ RepairArrives("B", m) \/ UnacceptableArrives("B", m) \/ ResetArrives("B", m)
        \/ UselessAckArrives("B", m) \/ LastAckArrives("B", m) \/ SegmentArrives("B", m)
  BY Zenon DEF Receive
<1>5. m \in SegSet /\ (m.psh \/ m.run.len > 0 => Piece(sk["A"], m.seq, m.run))
  BY Zenon DEF OneWayInv, DataInv
<1>6. m.rst = FALSE
  BY Zenon, <1>5, SegTypes
<1>7. AfterFec(b, m) = b
  BY Zenon, <1>3 DEF AfterFec
<1>8. AckInv(sk["A"], b.out)
  BY Zenon, <1>2 DEF AckInv
<1>9. ASSUME NEW t, Reads(sk["A"], t), Handles("B", m, t) PROVE OneWayInv'
  <2>1. /\ sk' = [sk EXCEPT !["B"] = [t EXCEPT !.out = {}]] /\ lost' = lost
        /\ net' = [x \in Ends |-> net'[x]]
        /\ net'["B"] \subseteq net["B"] /\ net'["A"] = net["A"] \union t.out
    BY Zenon, <1>9, HandlesFrame DEF Ends, Peer
  <2> QED BY ZenonT(40), <1>9, <2>1, ReaderStep DEF Reads
<1>10. ~RepairArrives("B", m) /\ ~ResetArrives("B", m)
  BY SMTT(40), <1>1, <1>3, <1>6 DEF RepairArrives, Consumes, ResetArrives
<1>11. ~LastAckArrives("B", m)
  BY SMTT(40), <1>1, <1>3, <1>7 DEF LastAckArrives, Finishes
<1>12. CASE UnacceptableArrives("B", m)
  <2>1. PICK t : t = tcp_send_ack(b)
    BY Zenon
  <2>2. Handles("B", m, t)
    BY SMTT(40), <1>1, <1>6, <1>7, <1>12, <2>1 DEF UnacceptableArrives
  <2>3. Reads(sk["A"], t)
    BY SMTT(40), <1>2, <1>8, <2>1, ReaderAck
  <2> QED BY Zenon, <1>9, <2>2, <2>3
<1>13. CASE UselessAckArrives("B", m)
  <2>1. Handles("B", m, b)
    BY SMTT(40), <1>1, <1>7, <1>13 DEF UselessAckArrives
  <2>2. Reads(sk["A"], b)
    BY SMTT(40), <1>2, <1>8 DEF Reads
  <2> QED BY Zenon, <1>9, <2>1, <2>2
<1>14. CASE SegmentArrives("B", m)
  <2>1. PICK t : t = Accepted(b, m)
    BY Zenon
  <2>2. Handles("B", m, t)
    BY SMTT(40), <1>1, <1>7, <1>14, <2>1 DEF SegmentArrives
  <2>3. Reads(sk["A"], t)
    BY SMTT(40), <1>2, <1>5, <2>1, ReaderAccepts
  <2> QED BY Zenon, <1>9, <2>2, <2>3
<1> QED BY SMTT(40), <1>4, <1>10, <1>11, <1>12, <1>13, <1>14

\* The network drops a segment.
LEMMA LosesNothingElse ==
  ASSUME OneWayInv, NEW e \in Ends, Lose(e)
  PROVE  OneWayInv'
<1>1. PICK m \in net[e] : net' = [net EXCEPT ![e] = @ \ {m}]
  BY Zenon DEF Lose
<1>2. sk' = sk /\ lost' = lost + 1 /\ lost < MaxLoss
  BY Zenon DEF Lose
<1>3. net = [x \in Ends |-> net[x]] /\ lost \in 0..MaxLoss
  BY Zenon DEF OneWayInv
<1>4. /\ net' = [x \in Ends |-> net'[x]] /\ net'["A"] \subseteq net["A"]
      /\ net'["B"] \subseteq net["B"]
  BY ZenonT(40), <1>1, <1>3 DEF Ends
<1>5. lost' \in 0..MaxLoss
  BY SMTT(40), <1>2, <1>3, ConnAssumption
<1>6. DataInv(sk["A"], net'["B"]) /\ AckInv(sk["A"], net'["A"])
  BY Zenon, <1>4 DEF OneWayInv, DataInv, AckInv
<1> QED BY SMTT(40), <1>2, <1>4, <1>5, <1>6 DEF OneWayInv

\* Two sockets fresh from the handshake.
LEMMA InitOneWay ==
  ASSUME OneWay, Init PROVE OneWayInv
<1>1. PICK s : s = Established
  BY Zenon
<1>2. sk["A"] = s /\ sk["B"] = s /\ net["A"] = {} /\ net["B"] = {} /\ lost = 0
      /\ sk = [e \in Ends |-> sk[e]] /\ net = [e \in Ends |-> net[e]]
  BY Zenon, <1>1 DEF Init, Ends
<1>3. /\ IsSock(s) /\ s.state = "ESTABLISHED" /\ s.snd_una = 1 /\ s.snd_nxt = 1
      /\ s.inflight = 0 /\ s.write_queue = <<>> /\ s.rto = FALSE /\ s.strays = 0
      /\ s.rcv_nxt = 1 /\ s.ofo_queue = <<>> /\ s.receive_queue = <<>> /\ s.delacks = 0
      /\ s.linger = "user" /\ s.fec = FALSE /\ s.enc = <<>> /\ s.written = 0
      /\ s.closed = FALSE /\ s.out = {}
  BY ZenonT(40), <1>1 DEF Established, IsSock, SockFields, OneWay
<1>4. \A i : Edge(<<>>, 0, i) = (IF i > 0 THEN 1 ELSE <<>>[i].run.pos)
  BY DEF Edge
<1>5. Contiguous(<<>>, 0)
  BY <1>4 DEF Contiguous
<1>6. QueueInv(<<>>, 0, 1, 1, 0)
  BY SMTT(40), <1>4, <1>5 DEF QueueInv
<1>7. SenderInv(s)
  <2>1. s.strays \in 0..MaxStrays /\ s.delacks \in Nat
    BY SMTT(40), <1>3, StraysAssumption
  <2>2. QueueInv(s.write_queue, s.written, s.snd_una, s.snd_nxt, s.inflight)
    BY Zenon, <1>3, <1>6
  <2>3. s.rto \in BOOLEAN
    BY ZenonT(40), <1>3
  <2> QED BY SMTT(40), <1>3, <2>1, <2>2, <2>3 DEF SenderInv
<1>8. Ackable(s, 1)
  BY SMTT(40), <1>3 DEF Ackable, Cut
<1>9. ReaderInv(s, s)
  BY SMTT(40), <1>3, <1>8 DEF ReaderInv, Pieces, InSequence
<1>10. ReceiverInv(s)
  BY SMTT(40), <1>3 DEF ReceiverInv
<1>11. ClockInv(s) /\ DataInv(s, {}) /\ AckInv(s, {})
  BY Zenon, <1>3 DEF ClockInv, DataInv, AckInv
<1>12. lost \in 0..MaxLoss
  BY SMTT(40), <1>2, ConnAssumption
<1> QED BY Zenon, <1>2, <1>3, <1>7, <1>9, <1>10, <1>11, <1>12 DEF OneWayInv

------------------------------------------------------------------------------
\* The theorems.

\* OneWayInv is inductive.
LEMMA OneWayStep ==
  ASSUME OneWay, OneWayInv, [Next]_vars PROVE OneWayInv'
<1>1. CASE UNCHANGED vars
  BY Zenon, <1>1 DEF vars, OneWayInv
<1>2. CASE Next
  <2>1. PICK e \in Ends :
          \/ \E n \in WriteSizes, intact \in BOOLEAN : Write(e, n, intact)
          \/ \E intact \in BOOLEAN : Close(e, intact)
          \/ RtoExpires(e) \/ RunsRtoHandler(e) \/ DelackTimeout(e)
          \/ TimeWaitTimeout(e) \/ UserTimeout(e)
          \/ Receive(e) \/ Lose(e)
    BY Zenon, <1>2 DEF Next
  <2>2. CASE Lose(e)
    BY SMTT(40), <2>2, LosesNothingElse
  <2>3. CASE Receive(e)
    <3>1. CASE e = "A"
      BY Zenon, <2>3, <3>1, WriterReceives
    <3>2. CASE e = "B"
      BY SMTT(40), <2>3, <3>2, ReaderReceives
    <3> QED BY Zenon, <3>1, <3>2 DEF Ends
  <2>4. CASE ~Lose(e) /\ ~Receive(e)
    <3>1. CASE e = "A"
      BY SMTT(40), <2>1, <2>4, <3>1, WriterActs
    <3>2. CASE e = "B"
      BY SMTT(40), <2>1, <2>4, <3>2, ReaderActs
    <3> QED BY Zenon, <3>1, <3>2 DEF Ends
  <2> QED BY Zenon, <2>2, <2>3, <2>4
<1> QED BY Zenon, <1>1, <1>2

\* In every one-way transfer, of any number of bytes over a network that loses,
\* repeats and reorders, with timeout handlers that run late, tcp_send,
\* tcp_input_state and the RTO handler keep OneWayInv.
THEOREM OneWayInvariant ==
  ASSUME OneWay PROVE Spec => []OneWayInv
<1>1. Init => OneWayInv
  BY Zenon, InitOneWay
<1>2. OneWayInv /\ [Next]_vars => OneWayInv'
  BY Zenon, OneWayStep
<1> QED BY <1>1, <1>2, PTL DEF Spec

\* A receive queue that tcp_data_queue filled in sequence holds what lies before rcv_nxt.
LEMMA DeliveredIs ==
  ASSUME NEW n, InSequence(sk["B"].receive_queue, n) PROVE Delivered("B") = n - 1
<1>1. PICK q : q = sk["B"].receive_queue
  BY Zenon
<1>2. /\ q \in Seq(RunSet) /\ n = IF q = <<>> THEN 1 ELSE q[Len(q)].pos + q[Len(q)].len
  BY Zenon, <1>1 DEF InSequence
<1>3. CASE q = <<>>
  <2>1. Delivered("B") = 0 /\ n = 1
    BY Zenon, <1>1, <1>2, <1>3 DEF Delivered
  <2> QED BY <2>1
<1>4. CASE q # <<>>
  <2>1. q[Len(q)] \in RunSet
    BY <1>2, <1>4
  <2>2. q[Len(q)].pos \in Nat /\ q[Len(q)].len \in Nat
    BY Zenon, <2>1 DEF RunSet
  <2>3. Delivered("B") = q[Len(q)].pos + q[Len(q)].len - 1
    BY Zenon, <1>1, <1>4 DEF Delivered
  <2>4. n = q[Len(q)].pos + q[Len(q)].len
    BY Zenon, <1>2, <1>4
  <2> QED BY <2>2, <2>3, <2>4
<1> QED BY Zenon, <1>3, <1>4

\* What the invariant says of the receive queue, the timer, the head of the write
\* queue and the acknowledgments.
LEMMA OneWayImplies ==
  ASSUME OneWay, OneWayInv
  PROVE  /\ TypeOK /\ StreamIntact /\ RetransmitCovered /\ RetransmitsAtItsOwnSeq
         /\ NoAckBeyondSent
<1>1. PICK a : a = sk["A"]
  BY Zenon
<1>2. PICK b : b = sk["B"]
  BY Zenon
<1>3. /\ SenderInv(a) /\ ClockInv(a) /\ a.out = {} /\ ReceiverInv(b) /\ b.out = {}
      /\ ReaderInv(a, b) /\ lost \in 0..MaxLoss
  BY Zenon, <1>1, <1>2 DEF OneWayInv
<1>4. /\ a.state \in {"ESTABLISHED", "CLOSING", "TIME_WAIT"} /\ a.rcv_nxt = 1
      /\ a.receive_queue = <<>> /\ a.strays \in 0..MaxStrays /\ a.enc = <<>>
      /\ a.linger \in {"user", "none"}
      /\ QueueInv(a.write_queue, a.written, a.snd_una, a.snd_nxt, a.inflight)
  BY Zenon, <1>3 DEF SenderInv
<1>5. /\ b.state = "ESTABLISHED" /\ b.snd_una = 1 /\ b.snd_nxt = 1 /\ b.inflight = 0
      /\ b.write_queue = <<>> /\ b.strays = 0 /\ b.linger = "user" /\ b.written = 0
      /\ b.enc = <<>>
  BY Zenon, <1>3 DEF ReceiverInv
<1>6. /\ a.snd_una \in Nat /\ a.snd_nxt \in Nat /\ a.inflight \in Nat
      /\ a.inflight <= Len(a.write_queue) /\ a.snd_una = Edge(a.write_queue, a.written, 1)
      /\ a.write_queue \in Seq(SkbSet) /\ a.written \in Nat
  BY Zenon, <1>4 DEF QueueInv, Contiguous
<1>7. /\ b.rcv_nxt \in Nat /\ b.rcv_nxt <= a.written + 1
      /\ a.state = "ESTABLISHED" => b.rcv_nxt <= a.snd_nxt
  BY SMTT(40), <1>3 DEF ReaderInv, Ackable, Cut
<1>8. InSequence(b.receive_queue, b.rcv_nxt)
  BY Zenon, <1>3 DEF ReaderInv
<1>9. TypeOK
  <2>1. /\ a.state \in AckStates \union {"TIME_WAIT"} /\ b.state \in AckStates \union {"TIME_WAIT"}
        /\ a.linger \in {"none", "user", "2msl"} /\ b.linger \in {"none", "user", "2msl"}
    BY Zenon, <1>4, <1>5 DEF AckStates
  <2>2. a.inflight \in 0..Len(a.write_queue) /\ b.inflight \in 0..Len(b.write_queue)
    BY SMTT(40), <1>5, <1>6
  <2>3. Len(a.enc) <= K /\ Len(b.enc) <= K /\ b.strays \in 0..MaxStrays
    BY SMTT(40), <1>4, <1>5, WireAssumption, StraysAssumption
  <2>4. a.rcv_nxt \in Nat /\ b.snd_una \in Nat /\ b.snd_nxt \in Nat
    BY SMTT(40), <1>4, <1>5
  <2> QED BY ZenonT(40), <1>1, <1>2, <1>3, <1>4, <1>6, <1>7, <2>1, <2>2, <2>3, <2>4 DEF TypeOK, Ends
<1>10. StreamIntact
  <2>1. InOrder("A") /\ Delivered("A") = 0
    BY SMTT(40), <1>1, <1>4 DEF InOrder, Delivered
  <2>2. InOrder("B")
    BY Zenon, <1>2, <1>8 DEF InOrder, InSequence
  <2>3. Delivered("B") = b.rcv_nxt - 1
    BY Zenon, <1>2, <1>8, DeliveredIs
  <2>4. Delivered("A") <= b.written /\ Delivered("B") <= a.written
    BY SMTT(40), <1>5, <1>6, <1>7, <2>1, <2>3
  <2> QED BY Zenon, <1>1, <1>2, <2>1, <2>2, <2>4 DEF StreamIntact, Ends, Peer
<1>11. RetransmitCovered
  <2>1. a.state \in OpenStates => a.state = "ESTABLISHED"
    BY Zenon, <1>4 DEF OpenStates
  <2> QED BY SMTT(40), <1>1, <1>2, <1>3, <1>5, <2>1 DEF RetransmitCovered, Ends, ClockInv
<1>12. RetransmitsAtItsOwnSeq
  <2>1. a.write_queue # <<>> => a.write_queue[1].run.pos = a.snd_una
    <3>1. a.write_queue # <<>> => ~(1 > Len(a.write_queue))
      BY SMTT(40), <1>6
    <3> QED BY Zenon, <1>6, <3>1 DEF Edge
  <2> QED BY Zenon, <1>1, <1>2, <1>5, <2>1 DEF RetransmitsAtItsOwnSeq, Ends
<1>13. NoAckBeyondSent
  <2>1. a.state \in OpenStates => a.state = "ESTABLISHED"
    BY Zenon, <1>4 DEF OpenStates
  <2> QED BY SMTT(40), <1>1, <1>2, <1>4, <1>5, <1>7, <2>1 DEF NoAckBeyondSent, Ends, Peer
<1> QED BY SMTT(40), <1>9, <1>10, <1>11, <1>12, <1>13

\* The fields of both sockets keep their types.
THEOREM OneWayTypeOK ==
  ASSUME OneWay PROVE Spec => []TypeOK
<1>1. OneWayInv => TypeOK
  BY Zenon, OneWayImplies
<1> QED BY <1>1, OneWayInvariant, PTL

\* B's receive queue is always a prefix of what A's application wrote.
THEOREM OneWayStreamIntact ==
  ASSUME OneWay PROVE Spec => []StreamIntact
<1>1. OneWayInv => StreamIntact
  BY Zenon, OneWayImplies
<1> QED BY <1>1, OneWayInvariant, PTL

\* While the connection is open, a waiting buffer is covered by a timer or by a
\* handler about to run, although timers are released without being cancelled.
THEOREM OneWayRetransmitCovered ==
  ASSUME OneWay PROVE Spec => []RetransmitCovered
<1>1. OneWayInv => RetransmitCovered
  BY Zenon, OneWayImplies
<1> QED BY <1>1, OneWayInvariant, PTL

\* A late timeout handler sends the head of the queue at the head's own place in the
\* stream, whatever acknowledgments came since its timer expired.
THEOREM OneWayRetransmitsAtItsOwnSeq ==
  ASSUME OneWay PROVE Spec => []RetransmitsAtItsOwnSeq
<1>1. OneWayInv => RetransmitsAtItsOwnSeq
  BY Zenon, OneWayImplies
<1> QED BY <1>1, OneWayInvariant, PTL

\* B acknowledges nothing that A has not transmitted, so that A never drops its
\* acknowledgments for good.
THEOREM OneWayNoAckBeyondSent ==
  ASSUME OneWay PROVE Spec => []NoAckBeyondSent
<1>1. OneWayInv => NoAckBeyondSent
  BY Zenon, OneWayImplies
<1> QED BY <1>1, OneWayInvariant, PTL

------------------------------------------------------------------------------
\* The reader moves on.

\* tcp_consume_ofo_queue never takes rcv_nxt back: each buffer of the chain begins
\* where the one before it ends.
LEMMA DrainMovesOn ==
  ASSUME NEW s, NEW r, IsSock(r), ReaderInv(s, r), NEW t, t = tcp_consume_ofo_queue(r)
  PROVE  t.rcv_nxt >= r.rcv_nxt
<1>1. PICK q : q = r.ofo_queue
  BY Zenon
<1>2. PICK n : n = Consumed(q, r.rcv_nxt)
  BY Zenon
<1>3. /\ q \in Seq(OfoSet) /\ Len(q) \in Nat /\ r.rcv_nxt \in Nat
  BY SMTT(40), <1>1 DEF ReaderInv, Pieces, Ackable, Cut
<1>4. n \in 0..Len(q) /\ n \in Nat /\ Chains(q, r.rcv_nxt, n)
  BY SMTT(40), <1>2, <1>3, ConsumedIsChain
<1>5. t.rcv_nxt = IF n = 0 THEN r.rcv_nxt ELSE End(q[n])
  BY Zenon, <1>1, <1>2 DEF tcp_consume_ofo_queue, IsSock, SockFields
<1>6. \A i \in 1..n : q[i].seq \in Nat /\ q[i].run.len \in Nat
  <2>1. \A i \in 1..n : q[i] \in OfoSet
    BY SMTT(40), <1>3, <1>4
  <2>2. \A x \in OfoSet : x.seq \in Nat /\ x.run \in RunSet
    BY Zenon DEF OfoSet
  <2>3. \A x \in RunSet : x.len \in Nat
    BY Zenon DEF RunSet
  <2> QED BY Zenon, <2>1, <2>2, <2>3
<1> DEFINE Back == {i \in 1..n : q[i].seq < r.rcv_nxt}
<1>7. Back = {}
  <2> SUFFICES ASSUME Back # {} PROVE FALSE
    BY Zenon
  <2>1. Back \subseteq Nat
    BY <1>4
  <2>2. PICK i \in Back : \A j \in Back : i <= j
    <3> HIDE DEF Back
    <3> QED BY Zenon, <2>1, LeastNat
  <2>3. i \in 1..n /\ q[i].seq < r.rcv_nxt /\ q[i].seq = IF i = 1 THEN r.rcv_nxt ELSE End(q[i-1])
    BY Zenon, <1>4, <2>2 DEF Chains
  <2>4. i # 1 /\ i - 1 \in 1..n /\ i - 1 \notin Back
    BY SMTT(40), <1>3, <1>4, <2>2, <2>3
  <2>5. q[i-1].seq >= r.rcv_nxt
    BY SMTT(40), <1>3, <1>6, <2>4
  <2> QED BY SMTT(40), <1>3, <1>6, <2>3, <2>4, <2>5 DEF End
<1>8. CASE n = 0
  BY SMTT(40), <1>3, <1>5, <1>8
<1>9. CASE n # 0
  <2>1. n \in 1..n
    BY SMTT(40), <1>4, <1>9
  <2>2. q[n].seq >= r.rcv_nxt
    BY SMTT(40), <1>3, <1>6, <1>7, <2>1
  <2> QED BY SMTT(40), <1>3, <1>5, <1>6, <1>9, <2>1, <2>2 DEF End
<1> QED BY Zenon, <1>8, <1>9

\* Nor does tcp_data_queue.
LEMMA DataQueueMovesOn ==
  ASSUME NEW s, NEW r, IsSock(r), ReaderInv(s, r), NEW seq \in Nat, NEW run \in RunSet,
         Piece(s, seq, run), NEW t, t = tcp_data_queue(r, seq, run)
  PROVE  t.rcv_nxt >= r.rcv_nxt
<1>1. r.rcv_nxt \in Nat /\ run.len \in Nat
  BY Zenon DEF ReaderInv, Ackable, Cut, RunSet
<1>2. CASE seq = r.rcv_nxt
  <2>1. PICK u : u = [r EXCEPT !.rcv_nxt = @ + run.len, !.receive_queue = Append(@, run)]
    BY Zenon
  <2>2. t = tcp_consume_ofo_queue(u)
    BY Zenon, <1>2, <2>1 DEF tcp_data_queue
  <2>3. /\ IsSock(u) /\ u.rcv_nxt = seq + run.len /\ u.ofo_queue = r.ofo_queue
        /\ u.receive_queue = Append(r.receive_queue, run)
    BY ZenonT(40), <1>2, <2>1 DEF IsSock, SockFields
  <2>4. run.pos = seq /\ Ackable(s, seq + run.len)
    BY Zenon DEF Piece
  <2>5. InSequence(u.receive_queue, u.rcv_nxt)
    <3>1. InSequence(r.receive_queue, r.rcv_nxt)
      BY Zenon DEF ReaderInv
    <3> QED BY Zenon, <1>2, <2>3, <2>4, <3>1, InSequenceAppend
  <2>6. ReaderInv(s, u)
    BY Zenon, <2>3, <2>4, <2>5 DEF ReaderInv
  <2>7. t.rcv_nxt >= u.rcv_nxt
    BY SMTT(40), <2>2, <2>3, <2>6, DrainMovesOn
  <2>8. t.rcv_nxt \in Nat
    <3>1. ReaderInv(s, t)
      BY Zenon, <2>2, <2>3, <2>6, DrainReads
    <3> QED BY Zenon, <3>1 DEF ReaderInv, Ackable, Cut
  <2> QED BY SMTT(40), <1>1, <1>2, <2>3, <2>7, <2>8
<1>3. CASE seq # r.rcv_nxt
  <2>1. t.rcv_nxt = r.rcv_nxt
    BY ZenonT(40), <1>3 DEF tcp_data_queue, tcp_send_ack, tcp_transmit_skb, Skb, IsSock, SockFields
  <2> QED BY SMTT(40), <1>1, <2>1
<1> QED BY Zenon, <1>2, <1>3

\* Nor does an acknowledgment, nor what tcp_input_state does after the text.
LEMMA AckStays ==
  ASSUME NEW r, IsSock(r), NEW t, t = tcp_send_ack(r)
  PROVE  IsSock(t) /\ t.rcv_nxt = r.rcv_nxt
BY ZenonT(40) DEF tcp_send_ack, tcp_transmit_skb, Skb, IsSock, SockFields

LEMMA SendOrAckStays ==
  ASSUME NEW r, ReceiverInv(r), NEW m \in SegSet, NEW t, t = SendOrAck(r, m)
  PROVE  t.rcv_nxt = r.rcv_nxt
<1>1. r.write_queue = <<>> /\ r.inflight = 0 /\ IsSock(r)
  BY Zenon DEF ReceiverInv
<1>2. Pending(r) = 0
  BY <1>1 DEF Pending, MinOf
<1>3. PICK u : u = [r EXCEPT !.delack = FALSE]
  BY Zenon
<1>4. IsSock(u) /\ u.rcv_nxt = r.rcv_nxt
  BY ZenonT(40), <1>1, <1>3 DEF IsSock, SockFields
<1> DEFINE c == IF m.run.len > BigSegment THEN r.delacks + 1 ELSE r.delacks
<1>5. \/ t = tcp_send_ack([u EXCEPT !.delacks = 0])
      \/ t = [u EXCEPT !.delacks = c, !.delack = (m.run.len > 0)]
  BY SMTT(40), <1>2, <1>3 DEF SendOrAck
<1>6. CASE t = tcp_send_ack([u EXCEPT !.delacks = 0])
  <2>1. PICK v : v = [u EXCEPT !.delacks = 0]
    BY Zenon
  <2>2. IsSock(v) /\ v.rcv_nxt = u.rcv_nxt
    BY ZenonT(40), <1>4, <2>1 DEF IsSock, SockFields
  <2>3. t.rcv_nxt = v.rcv_nxt
    BY ZenonT(40), <1>6, <2>1, <2>2, AckStays
  <2> QED BY Zenon, <1>4, <2>2, <2>3
<1>7. CASE t = [u EXCEPT !.delacks = c, !.delack = (m.run.len > 0)]
  BY ZenonT(40), <1>4, <1>7 DEF IsSock, SockFields
<1> QED BY Zenon, <1>5, <1>6, <1>7

\* The whole of tcp_input_state for a segment of the writer.
LEMMA AcceptedMovesOn ==
  ASSUME NEW s, NEW r, ReceiverInv(r), ReaderInv(s, r), r.out = {},
         NEW m \in SegSet, m.psh \/ m.run.len > 0 => Piece(s, m.seq, m.run),
         NEW t, t = Accepted(r, m)
  PROVE  t.rcv_nxt >= r.rcv_nxt
<1>1. r.state = "ESTABLISHED" /\ r.snd_una = 1 /\ r.snd_nxt = 1 /\ IsSock(r)
  BY Zenon DEF ReceiverInv
<1>2. m.fin = FALSE /\ m.seq \in Nat /\ m.ack \in Nat /\ m.run \in RunSet
  BY Zenon, SegTypes
<1>3. r.rcv_nxt \in Nat
  BY Zenon DEF ReaderInv, Ackable, Cut
<1>4. FinAcked(AckField(r, m), m) = r
  <2>1. ~NewAck(r, m)
    BY SMTT(40), <1>1, <1>2 DEF NewAck
  <2> QED BY Zenon, <1>1, <2>1 DEF AckField, FinAcked
<1>5. PICK d : d = SegmentText(r, m)
  BY Zenon
<1>6. t = d \/ t = SendOrAck(d, m)
  BY Zenon, <1>2, <1>4, <1>5 DEF Accepted
<1>7. CASE m.psh \/ m.run.len > 0
  <2>1. d = tcp_data_queue(r, m.seq, m.run)
    BY Zenon, <1>1, <1>5, <1>7 DEF SegmentText, TextStates
  <2>2. d.rcv_nxt >= r.rcv_nxt
    BY Zenon, <1>1, <1>2, <1>7, <2>1, DataQueueMovesOn
  <2>3. /\ ReaderInv(s, d) /\ IsSock(d) /\ AckInv(s, d.out)
        /\ \A f \in SockFields \ {"rcv_nxt", "ofo_queue", "receive_queue", "out"} : d[f] = r[f]
    BY SMTT(40), <1>1, <1>2, <1>7, <2>1, DataQueueReads
  <2>4. /\ d.state = r.state /\ d.snd_una = r.snd_una /\ d.snd_nxt = r.snd_nxt
        /\ d.inflight = r.inflight /\ d.write_queue = r.write_queue /\ d.rto = r.rto
        /\ d.strays = r.strays /\ d.fec = r.fec /\ d.closed = r.closed /\ d.linger = r.linger
        /\ d.written = r.written /\ d.enc = r.enc /\ d.delacks = r.delacks
    BY Zenon, <2>3 DEF SockFields
  <2>5. ReceiverInv(d)
    BY Zenon, <2>3, <2>4 DEF ReceiverInv
  <2>6. t = SendOrAck(d, m) => t.rcv_nxt = d.rcv_nxt
    BY ZenonT(40), <2>5, SendOrAckStays
  <2> QED BY Zenon, <1>6, <2>2, <2>6
<1>8. CASE ~(m.psh \/ m.run.len > 0)
  <2>1. d = r
    BY Zenon, <1>5, <1>8 DEF SegmentText
  <2>2. t = SendOrAck(d, m) => t.rcv_nxt = d.rcv_nxt
    BY ZenonT(40), <2>1, SendOrAckStays
  <2> QED BY SMTT(40), <1>3, <1>6, <2>1, <2>2
<1> QED BY Zenon, <1>7, <1>8

\* No step of B takes its rcv_nxt back or touches A's socket.
LEMMA ReaderMovesOn ==
  ASSUME OneWay, OneWayInv,
         \/ \E n \in WriteSizes, intact \in BOOLEAN : Write("B", n, intact)
         \/ \E intact \in BOOLEAN : Close("B", intact)
         \/ RtoExpires("B") \/ RunsRtoHandler("B") \/ DelackTimeout("B")
         \/ TimeWaitTimeout("B") \/ UserTimeout("B") \/ Receive("B")
  PROVE  sk'["A"] = sk["A"] /\ sk'["B"].rcv_nxt >= sk["B"].rcv_nxt
<1>1. PICK b : b = sk["B"]
  BY Zenon
<1>2. ReceiverInv(b) /\ ReaderInv(sk["A"], b) /\ b.out = {} /\ IsSock(b)
  BY Zenon, <1>1 DEF OneWayInv, ReceiverInv
<1>3. /\ b.state = "ESTABLISHED" /\ b.rto = FALSE /\ b.strays = 0 /\ b.linger = "user"
      /\ b.fec = FALSE /\ b.rcv_nxt \in Nat
  BY Zenon, <1>2 DEF ReceiverInv, ReaderInv, Ackable, Cut
<1>4. ASSUME NEW t, IsSock(t), t.rcv_nxt >= b.rcv_nxt,
             Step("B", t) \/ \E m : Handles("B", m, t)
      PROVE  sk'["A"] = sk["A"] /\ sk'["B"].rcv_nxt >= b.rcv_nxt
  <2>1. sk' = [sk EXCEPT !["B"] = [t EXCEPT !.out = {}]]
    BY Zenon, <1>4 DEF Step, Handles
  <2>2. sk = [e \in Ends |-> sk[e]]
    BY Zenon DEF OneWayInv
  <2>3. sk'["A"] = sk["A"] /\ sk'["B"] = [t EXCEPT !.out = {}]
    BY Zenon, <2>1, <2>2 DEF Ends
  <2>4. [t EXCEPT !.out = {}].rcv_nxt = t.rcv_nxt
    BY ZenonT(40), <1>4 DEF IsSock, SockFields
  <2> QED BY Zenon, <1>4, <2>3, <2>4
<1>5. CASE DelackTimeout("B")
  <2>1. PICK v : v = [b EXCEPT !.delack = FALSE, !.delacks = 0]
    BY Zenon
  <2>2. IsSock(v) /\ v.rcv_nxt = b.rcv_nxt
    BY ZenonT(40), <1>2, <2>1 DEF IsSock, SockFields
  <2>3. Step("B", tcp_send_ack(v))
    BY Zenon, <1>1, <1>5, <2>1 DEF DelackTimeout
  <2>4. IsSock(tcp_send_ack(v)) /\ tcp_send_ack(v).rcv_nxt = v.rcv_nxt
    BY Zenon, <2>2, AckStays
  <2> QED BY SMTT(40), <1>1, <1>3, <1>4, <2>2, <2>3, <2>4
<1>6. CASE Receive("B")
  <2>1. PICK m \in net["B"] :
          \/ RepairArrives("B", m) \/ UnacceptableArrives("B", m) \/ ResetArrives("B", m)
          \/ UselessAckArrives("B", m) \/ LastAckArrives("B", m) \/ SegmentArrives("B", m)
    BY Zenon, <1>6 DEF Receive
  <2>2. m \in SegSet /\ (m.psh \/ m.run.len > 0 => Piece(sk["A"], m.seq, m.run))
    BY Zenon DEF OneWayInv, DataInv
  <2>3. m.rst = FALSE
    BY Zenon, <2>2, SegTypes
  <2>4. AfterFec(b, m) = b
    BY Zenon, <1>3 DEF AfterFec
  <2>5. ~RepairArrives("B", m) /\ ~ResetArrives("B", m) /\ ~LastAckArrives("B", m)
    BY Zenon, <1>1, <1>3, <2>3, <2>4
    DEF RepairArrives, Consumes, ResetArrives, LastAckArrives, Finishes
  <2>6. CASE UnacceptableArrives("B", m)
    <3>1. Handles("B", m, tcp_send_ack(b))
      BY Zenon, <1>1, <2>3, <2>4, <2>6 DEF UnacceptableArrives
    <3>2. IsSock(tcp_send_ack(b)) /\ tcp_send_ack(b).rcv_nxt = b.rcv_nxt
      BY Zenon, <1>2, AckStays
    <3> QED BY SMTT(40), <1>1, <1>3, <1>4, <3>1, <3>2
  <2>7. CASE UselessAckArrives("B", m)
    <3>1. Handles("B", m, b)
      BY Zenon, <1>1, <2>4, <2>7 DEF UselessAckArrives
    <3> QED BY SMTT(40), <1>1, <1>2, <1>3, <1>4, <3>1
  <2>8. CASE SegmentArrives("B", m)
    <3>1. PICK t : t = Accepted(b, m)
      BY Zenon
    <3>2. Handles("B", m, t)
      BY Zenon, <1>1, <2>4, <2>8, <3>1 DEF SegmentArrives
    <3>3. t.rcv_nxt >= b.rcv_nxt
      BY Zenon, <1>2, <2>2, <3>1, AcceptedMovesOn
    <3>4. IsSock(t)
      BY Zenon, <1>2, <2>2, <3>1, ReaderAccepts DEF Reads, ReceiverInv
    <3> QED BY Zenon, <1>1, <1>4, <3>2, <3>3, <3>4
  <2> QED BY SMTT(40), <2>1, <2>5, <2>6, <2>7, <2>8
<1>7. /\ ~\E n \in WriteSizes, intact \in BOOLEAN : Write("B", n, intact)
      /\ ~\E intact \in BOOLEAN : Close("B", intact)
  <2>1. "B" \notin Writers /\ "B" \notin Closers /\ "B" \notin QuietClosers
    BY Zenon DEF OneWay
  <2> QED BY Zenon, <1>1, <1>3, <2>1 DEF Write, Close
<1>8. ~RtoExpires("B") /\ ~RunsRtoHandler("B") /\ ~TimeWaitTimeout("B") /\ ~UserTimeout("B")
  BY SMTT(40), <1>1, <1>3 DEF RtoExpires, RunsRtoHandler, RtoQueueEmpty, Retransmit,
    RetransmitGivesUp, TimeWaitTimeout, UserTimeout, OneWay
<1> QED BY Zenon, <1>1, <1>5, <1>6, <1>7, <1>8

------------------------------------------------------------------------------
\* The writer moves on.

\* What is written is the application's affair: the helpers of the other handlers
\* leave it alone.
LEMMA HelpersKeepWritten ==
  ASSUME NEW s, IsSock(s)
  PROVE  /\ \A skb, seq : LET t == tcp_transmit_skb(s, skb, seq)
                          IN  IsSock(t) /\ t.written = s.written
         /\ LET t == tcp_send_ack(s) IN IsSock(t) /\ t.written = s.written
         /\ LET t == tcp_done(s) IN IsSock(t) /\ t.written = s.written
         /\ LET t == tcp_rearm_rto_timer(s) IN IsSock(t) /\ t.written = s.written
         /\ \A n : LET t == tcp_send_next(s, n) IN IsSock(t) /\ t.written = s.written
         /\ \A una : LET t == tcp_clean_rto_queue(s, una) IN IsSock(t) /\ t.written = s.written
<1>1. ASSUME NEW skb, NEW seq, NEW t, t = tcp_transmit_skb(s, skb, seq)
      PROVE  IsSock(t) /\ t.written = s.written
  BY ZenonT(40), <1>1 DEF tcp_transmit_skb, IsSock, SockFields
<1>2. ASSUME NEW t, t = tcp_send_ack(s) PROVE IsSock(t) /\ t.written = s.written
  BY ZenonT(40), <1>1, <1>2 DEF tcp_send_ack
<1>3. ASSUME NEW t, t = tcp_done(s) PROVE IsSock(t) /\ t.written = s.written
  BY ZenonT(40), <1>3 DEF tcp_done, tcp_clear_timers, tcp_stop_rto_timer, IsSock, SockFields
<1>4. ASSUME NEW t, t = tcp_rearm_rto_timer(s) PROVE IsSock(t) /\ t.written = s.written
  BY ZenonT(40), <1>4 DEF tcp_rearm_rto_timer, tcp_release_rto_timer, IsSock, SockFields
<1>5. ASSUME NEW n, NEW t, t = tcp_send_next(s, n) PROVE IsSock(t) /\ t.written = s.written
  BY ZenonT(40), <1>5 DEF tcp_send_next, IsSock, SockFields
<1>6. ASSUME NEW una, NEW t, t = tcp_clean_rto_queue(s, una)
      PROVE  IsSock(t) /\ t.written = s.written
  BY ZenonT(40), <1>6 DEF tcp_clean_rto_queue, tcp_stop_rto_timer, IsSock, SockFields
<1> QED BY Zenon, <1>1, <1>2, <1>3, <1>4, <1>5, <1>6

\* So does the thread of an expired timer before it looks at the write queue.
LEMMA LateKeepsWritten ==
  ASSUME NEW s, IsSock(s), NEW t, t = LateHandler(s)
  PROVE  IsSock(t) /\ t.written = s.written
<1>1. PICK u : u = [s EXCEPT !.strays = @ - 1]
  BY ZenonT(40)
<1>2. IsSock(u) /\ u.written = s.written
  BY ZenonT(40), <1>1 DEF IsSock, SockFields
<1> QED BY ZenonT(40), <1>1, <1>2 DEF LateHandler, tcp_release_rto_timer, IsSock, SockFields

\* An acknowledgment never changes what is written, whatever it makes
\* tcp_input_state send.
LEMMA AcceptedKeepsWritten ==
  ASSUME NEW s, IsSock(s), NEW m, m \in SegSet, m.run = Nothing, m.psh = FALSE,
         NEW t, t = Accepted(s, m)
  PROVE  IsSock(t) /\ t.written = s.written
<1>1. m.fin = FALSE /\ m.run.len = 0
  <2>1. m.fin = FALSE
    BY Zenon, SegTypes
  <2>2. m.run.len = 0
    BY DEF Nothing, Run
  <2> QED BY Zenon, <2>1, <2>2
<1>2. PICK a : a = AckField(s, m)
  BY Zenon
<1>3. IsSock(a) /\ a.written = s.written
  <2>1. PICK u : u = [s EXCEPT !.snd_una = m.ack]
    BY ZenonT(40)
  <2>2. IsSock(u) /\ u.written = s.written
    BY ZenonT(40), <2>1 DEF IsSock, SockFields
  <2>3. a = s \/ a = tcp_clean_rto_queue(u, m.ack)
    BY Zenon, <1>2, <2>1 DEF AckField
  <2> QED BY SMTT(40), <2>2, <2>3, HelpersKeepWritten
<1>4. PICK f : f = FinAcked(a, m)
  BY Zenon
<1>5. IsSock(f) /\ f.written = s.written
  <2>1. PICK u : u = [a EXCEPT !.fin = TRUE]
    BY Zenon
  <2>2. IsSock(u) /\ u.written = s.written
    BY ZenonT(40), <1>3, <2>1 DEF IsSock, SockFields
  <2>3. \/ f = [a EXCEPT !.state = "FIN_WAIT_2"] \/ f = [a EXCEPT !.state = "TIME_WAIT"]
        \/ f = tcp_send_ack(u) \/ f = a
    BY Zenon, <1>4, <2>1 DEF FinAcked
  <2>4. CASE f = [a EXCEPT !.state = "FIN_WAIT_2"] \/ f = [a EXCEPT !.state = "TIME_WAIT"]
    BY ZenonT(40), <1>3, <2>4 DEF IsSock, SockFields
  <2>5. CASE f = tcp_send_ack(u)
    BY Zenon, <2>2, <2>5, HelpersKeepWritten
  <2> QED BY Zenon, <1>3, <2>3, <2>4, <2>5
<1>6. SegmentText(f, m) = f
  BY SMTT(40), <1>1 DEF SegmentText
<1>7. t = f \/ t = SendOrAck(f, m)
  BY Zenon, <1>1, <1>2, <1>4, <1>6 DEF Accepted
<1>8. CASE t = SendOrAck(f, m)
  <2>1. PICK u : u = [f EXCEPT !.delack = FALSE]
    BY ZenonT(40)
  <2>2. IsSock(u) /\ u.written = s.written
    BY ZenonT(40), <1>5, <2>1 DEF IsSock, SockFields
  <2>3. PICK n, c : n = Pending(f) /\ c = IF m.run.len > BigSegment THEN f.delacks + 1 ELSE f.delacks
    BY Zenon
  <2>4. \/ t = tcp_rearm_rto_timer([tcp_send_next(u, n) EXCEPT !.inflight = n])
        \/ t = tcp_send_ack([u EXCEPT !.delacks = 0])
        \/ t = [u EXCEPT !.delacks = c, !.delack = (m.run.len > 0)]
    BY Zenon, <1>8, <2>1, <2>3 DEF SendOrAck
  <2>5. CASE t = tcp_rearm_rto_timer([tcp_send_next(u, n) EXCEPT !.inflight = n])
    <3>1. PICK v : v = tcp_send_next(u, n)
      BY Zenon
    <3>2. IsSock(v) /\ v.written = s.written
      BY Zenon, <2>2, <3>1, HelpersKeepWritten
    <3>3. PICK w : w = [v EXCEPT !.inflight = n]
      BY ZenonT(40)
    <3>4. IsSock(w) /\ w.written = s.written
      BY ZenonT(40), <3>2, <3>3 DEF IsSock, SockFields
    <3> QED BY Zenon, <2>5, <3>1, <3>3, <3>4, HelpersKeepWritten
  <2>6. CASE t = tcp_send_ack([u EXCEPT !.delacks = 0])
    <3>1. PICK w : w = [u EXCEPT !.delacks = 0]
      BY ZenonT(40)
    <3>2. IsSock(w) /\ w.written = s.written
      BY ZenonT(40), <2>2, <3>1 DEF IsSock, SockFields
    <3> QED BY Zenon, <2>6, <3>1, <3>2, HelpersKeepWritten
  <2>7. CASE t = [u EXCEPT !.delacks = c, !.delack = (m.run.len > 0)]
    BY ZenonT(40), <2>2, <2>7 DEF IsSock, SockFields
  <2> QED BY Zenon, <2>4, <2>5, <2>6, <2>7
<1> QED BY Zenon, <1>5, <1>7, <1>8

\* No step of A takes back what is written or touches B's socket.
LEMMA WriterMovesOn ==
  ASSUME OneWay, OneWayInv,
         \/ \E n \in WriteSizes, intact \in BOOLEAN : Write("A", n, intact)
         \/ \E intact \in BOOLEAN : Close("A", intact)
         \/ RtoExpires("A") \/ RunsRtoHandler("A") \/ DelackTimeout("A")
         \/ TimeWaitTimeout("A") \/ UserTimeout("A") \/ Receive("A")
  PROVE  sk'["B"] = sk["B"] /\ sk'["A"].written >= sk["A"].written
<1>1. PICK a : a = sk["A"]
  BY Zenon
<1>2. /\ SenderInv(a) /\ ClockInv(a) /\ a.out = {} /\ IsSock(a) /\ a.fec = FALSE
      /\ a.state \in {"ESTABLISHED", "CLOSING", "TIME_WAIT"} /\ a.linger \in {"user", "none"}
      /\ a.rcv_nxt = 1
  BY Zenon, <1>1 DEF OneWayInv, SenderInv
<1>3. a.written \in Nat
  BY Zenon, <1>2 DEF SenderInv, QueueInv, Contiguous
<1>4. ASSUME NEW t, IsSock(t), t.written >= a.written,
             Step("A", t) \/ \E m : Handles("A", m, t)
      PROVE  sk'["B"] = sk["B"] /\ sk'["A"].written >= a.written
  <2>1. sk' = [sk EXCEPT !["A"] = [t EXCEPT !.out = {}]]
    BY Zenon, <1>4 DEF Step, Handles
  <2>2. sk = [e \in Ends |-> sk[e]]
    BY Zenon DEF OneWayInv
  <2>3. sk'["B"] = sk["B"] /\ sk'["A"] = [t EXCEPT !.out = {}]
    BY Zenon, <2>1, <2>2 DEF Ends
  <2>4. [t EXCEPT !.out = {}].written = t.written
    BY ZenonT(40), <1>4 DEF IsSock, SockFields
  <2> QED BY Zenon, <1>4, <2>3, <2>4
<1>5. ASSUME NEW n \in WriteSizes, NEW intact \in BOOLEAN, Write("A", n, intact)
      PROVE  sk'["B"] = sk["B"] /\ sk'["A"].written >= a.written
  <2>1. PICK t : t = tcp_send(a, n, intact)
    BY Zenon
  <2>2. a.state = "ESTABLISHED" /\ n \in Nat /\ Step("A", t)
    BY SMTT(40), <1>1, <1>2, <1>5, <2>1, ConnAssumption DEF Write
  <2>3. IsSock(t) /\ t.written = a.written + n
    <3>1. SendResult(a, n, Buffers(a, n), t)
      BY Zenon, <1>2, <2>1, <2>2, SendFields
    <3> QED BY Zenon, <3>1 DEF SendResult
  <2> QED BY SMTT(40), <1>3, <1>4, <2>2, <2>3
<1>6. ASSUME NEW intact \in BOOLEAN PROVE ~Close("A", intact)
  BY Zenon, <1>1, <1>2 DEF Close, OneWay
<1>7. ~TimeWaitTimeout("A") /\ ~UserTimeout("A")
  BY Zenon, <1>1, <1>2 DEF TimeWaitTimeout, UserTimeout, OneWay
<1>8. CASE RtoExpires("A")
  <2>1. PICK t : t = [a EXCEPT !.rto = FALSE, !.strays = @ + 1]
    BY Zenon
  <2>2. Step("A", t)
    BY Zenon, <1>1, <1>8, <2>1 DEF RtoExpires
  <2>3. IsSock(t) /\ t.written = a.written
    BY ZenonT(40), <1>2, <2>1 DEF IsSock, SockFields
  <2> QED BY SMTT(40), <1>1, <1>3, <1>4, <2>2, <2>3
<1>9. CASE RunsRtoHandler("A")
  <2>1. PICK l : l = LateHandler(a)
    BY Zenon
  <2>3. IsSock(l) /\ l.written = a.written
    BY Zenon, <1>2, <2>1, LateKeepsWritten
  <2>4. PICK skb, seq : skb = l.write_queue[1] /\ seq = l.snd_una
    BY Zenon
  <2>5. PICK h : h = tcp_transmit_skb(l, skb, seq)
    BY Zenon
  <2>6. IsSock(h) /\ h.written = a.written
    <3>1. h.written = l.written /\ IsSock(h)
      BY SMTT(40), <2>3, <2>5, HelpersKeepWritten
    <3> QED BY Zenon, <2>3, <3>1
  <2>7. CASE RtoQueueEmpty("A")
    <3>1. Step("A", l)
      BY Zenon, <1>1, <2>1, <2>7 DEF RtoQueueEmpty
    <3> QED BY SMTT(40), <1>1, <1>3, <1>4, <2>3, <3>1
  <2>8. CASE Retransmit("A")
    <3>1. PICK t : t = [h EXCEPT !.rto = TRUE]
      BY Zenon
    <3>2. IsSock(t) /\ t.written = a.written
      BY ZenonT(40), <2>6, <3>1 DEF IsSock, SockFields
    <3>3. PICK u : u = IF l.write_queue[1].fin THEN tcp_handle_fin_state(t) ELSE t
      BY Zenon
    <3>4. IsSock(u) /\ u.written = a.written
      BY ZenonT(40), <3>2, <3>3 DEF tcp_handle_fin_state, IsSock, SockFields
    <3>5. Step("A", u)
      BY ZenonT(40), <1>1, <2>1, <2>4, <2>5, <2>8, <3>1, <3>3 DEF Retransmit
    <3> QED BY SMTT(40), <1>1, <1>3, <1>4, <3>4, <3>5
  <2>9. CASE RetransmitGivesUp("A")
    <3>1. Step("A", tcp_done(h))
      BY ZenonT(40), <1>1, <2>1, <2>4, <2>5, <2>9 DEF RetransmitGivesUp
    <3>2. IsSock(tcp_done(h)) /\ tcp_done(h).written = a.written
      BY Zenon, <2>6, HelpersKeepWritten
    <3> QED BY SMTT(40), <1>1, <1>3, <1>4, <3>1, <3>2
  <2> QED BY SMTT(40), <1>9, <2>7, <2>8, <2>9 DEF RunsRtoHandler
<1>10. CASE DelackTimeout("A")
  <2>1. PICK v : v = [a EXCEPT !.delack = FALSE, !.delacks = 0]
    BY Zenon
  <2>2. IsSock(v) /\ v.written = a.written
    BY ZenonT(40), <1>2, <2>1 DEF IsSock, SockFields
  <2>3. Step("A", tcp_send_ack(v))
    BY Zenon, <1>1, <1>10, <2>1 DEF DelackTimeout
  <2>4. IsSock(tcp_send_ack(v)) /\ tcp_send_ack(v).written = a.written
    BY Zenon, <2>2, HelpersKeepWritten
  <2> QED BY <1>1, <1>3, <1>4, <2>3, <2>4
<1>11. CASE Receive("A")
  <2>1. PICK m \in net["A"] :
          \/ RepairArrives("A", m) \/ UnacceptableArrives("A", m) \/ ResetArrives("A", m)
          \/ UselessAckArrives("A", m) \/ LastAckArrives("A", m) \/ SegmentArrives("A", m)
    BY Zenon, <1>11 DEF Receive
  <2>2. m \in SegSet /\ m.seq = 1 /\ m.run = Nothing /\ m.psh = FALSE
    BY Zenon DEF OneWayInv, AckInv
  <2>3. m.rst = FALSE
    BY Zenon, <2>2, SegTypes
  <2>4. AfterFec(a, m) = a /\ tcp_verify_segment(a, m)
    BY SMTT(40), <1>2, <2>2, WireAssumption DEF AfterFec, tcp_verify_segment
  <2>5. ~RepairArrives("A", m) /\ ~UnacceptableArrives("A", m) /\ ~ResetArrives("A", m)
    <3>1. ~RepairArrives("A", m)
      BY Zenon, <1>1, <1>2 DEF RepairArrives, Consumes, SenderInv
    <3>2. ~UnacceptableArrives("A", m)
      BY Zenon, <1>1, <2>4 DEF UnacceptableArrives
    <3>3. ~ResetArrives("A", m)
      BY Zenon, <2>3 DEF ResetArrives
    <3> QED BY Zenon, <3>1, <3>2, <3>3
  <2>6. ~LastAckArrives("A", m)
    BY Zenon, <1>1, <1>2, <2>4 DEF LastAckArrives, Finishes
  <2>7. CASE UselessAckArrives("A", m)
    <3>1. Handles("A", m, a)
      BY Zenon, <1>1, <2>4, <2>7 DEF UselessAckArrives
    <3> QED BY SMTT(40), <1>1, <1>2, <1>3, <1>4, <3>1
  <2>8. CASE SegmentArrives("A", m)
    <3>1. PICK t : t = Accepted(a, m)
      BY Zenon
    <3>2. Handles("A", m, t)
      BY Zenon, <1>1, <2>4, <2>8, <3>1 DEF SegmentArrives
    <3>3. IsSock(t) /\ t.written = a.written
      BY Zenon, <1>2, <2>2, <3>1, AcceptedKeepsWritten
    <3> QED BY SMTT(40), <1>1, <1>3, <1>4, <3>2, <3>3
  <2> QED BY SMTT(40), <2>1, <2>5, <2>6, <2>7, <2>8
<1> QED BY Zenon, <1>1, <1>5, <1>6, <1>7, <1>8, <1>9, <1>10, <1>11

------------------------------------------------------------------------------
\* The refinement.

\* What the abstract variables stand for in a one-way transfer.
Mapped ==
  /\ Got("A") = 0 /\ ~FinTaken("A") /\ sk["B"].written = 0 /\ sk["B"].closed = FALSE
  /\ Got("B") = sk["B"].rcv_nxt - 1 /\ ~FinTaken("B") /\ sk["A"].closed = FALSE
  /\ sk["B"].rcv_nxt \in Nat /\ sk["A"].written \in Nat /\ Got("B") <= sk["A"].written

\* The reader has got exactly what lies before its rcv_nxt.
LEMMA OneWayMapped ==
  ASSUME OneWay, OneWayInv PROVE Mapped
<1>1. PICK a : a = sk["A"]
  BY Zenon
<1>2. PICK b : b = sk["B"]
  BY Zenon
<1>3. /\ a.receive_queue = <<>> /\ a.rcv_nxt = 1 /\ a.closed = FALSE /\ a.written \in Nat
  BY Zenon, <1>1 DEF OneWayInv, SenderInv, QueueInv, Contiguous
<1>4. /\ b.rcv_nxt \in Nat /\ b.rcv_nxt <= a.written + 1 /\ b.written = 0 /\ b.closed = FALSE
      /\ InSequence(b.receive_queue, b.rcv_nxt)
  <2>1. ReceiverInv(b) /\ ReaderInv(a, b)
    BY Zenon, <1>1, <1>2 DEF OneWayInv
  <2> QED BY Zenon, <2>1 DEF ReceiverInv, ReaderInv, Ackable, Cut
<1>5. InOrder("A") /\ Delivered("A") = 0
  BY SMTT(40), <1>1, <1>3 DEF InOrder, Delivered
<1>6. InOrder("B")
  BY Zenon, <1>2, <1>4 DEF InOrder, InSequence
<1>7. Delivered("B") = b.rcv_nxt - 1
  BY Zenon, <1>2, <1>4, DeliveredIs
<1>8. Got("A") = 0 /\ Got("B") = b.rcv_nxt - 1
  BY Zenon, <1>5, <1>6, <1>7 DEF Got
<1>9. ~FinTaken("A") /\ ~FinTaken("B")
  BY SMTT(40), <1>1, <1>2, <1>3, <1>4, <1>5, <1>7 DEF FinTaken
<1> QED BY SMTT(40), <1>1, <1>2, <1>3, <1>4, <1>8, <1>9 DEF Mapped

\* A step that writes, one that delivers, and one the applications do not see.
LEMMA StreamStep ==
  ASSUME Mapped, Mapped',
         \/ sk'["A"] = sk["A"] /\ sk'["B"].rcv_nxt >= sk["B"].rcv_nxt
         \/ sk'["B"] = sk["B"] /\ sk'["A"].written >= sk["A"].written
  PROVE  /\ FromA!Write \/ FromA!Deliver \/ UNCHANGED FromA!vars
         /\ UNCHANGED FromB!vars
<1>1. UNCHANGED FromB!vars
  <2>1. sk["B"].written = 0 /\ sk'["B"].written = 0 /\ Got("A") = 0 /\ Got("A")' = 0
    BY Zenon DEF Mapped
  <2>2. sk["B"].closed = FALSE /\ sk'["B"].closed = FALSE
    BY Zenon DEF Mapped
  <2>3. FinTaken("A") = FALSE /\ FinTaken("A")' = FALSE
    BY SMTT(40) DEF Mapped, FinTaken
  <2> QED BY Zenon, <2>1, <2>2, <2>3 DEF FromB!vars
<1>2. sk["A"].closed = FALSE /\ sk'["A"].closed = FALSE
  BY Zenon DEF Mapped
<1>3. FinTaken("B") = FALSE /\ FinTaken("B")' = FALSE
  BY SMTT(40) DEF Mapped, FinTaken
<1>4. /\ Got("B") = sk["B"].rcv_nxt - 1 /\ Got("B")' = sk'["B"].rcv_nxt - 1
      /\ sk["B"].rcv_nxt \in Nat /\ sk'["B"].rcv_nxt \in Nat
      /\ sk["A"].written \in Nat /\ sk'["A"].written \in Nat
      /\ Got("B")' <= sk'["A"].written
  BY Zenon DEF Mapped
<1>5. CASE sk'["A"].written = sk["A"].written /\ Got("B")' = Got("B")
  <2>1. UNCHANGED FromA!vars
    BY Zenon, <1>2, <1>3, <1>5 DEF FromA!vars
  <2> QED BY Zenon, <1>1, <2>1
<1>6. CASE sk'["A"].written # sk["A"].written
  <2>1. sk'["B"] = sk["B"] /\ sk'["A"].written > sk["A"].written
    BY SMTT(40), <1>4, <1>6
  <2>2. Got("B")' = Got("B")
    BY Zenon, <1>4, <2>1
  <2>3. FromA!Write
    BY Zenon, <1>2, <1>3, <2>1, <2>2 DEF FromA!Write
  <2> QED BY Zenon, <1>1, <2>3
<1>7. CASE sk'["A"].written = sk["A"].written /\ Got("B")' # Got("B")
  <2>1. Got("B")' > Got("B") /\ Got("B")' <= sk["A"].written
    BY SMTT(40), <1>4, <1>7
  <2>2. FromA!Deliver
    BY Zenon, <1>2, <1>3, <1>7, <2>1 DEF FromA!Deliver
  <2> QED BY Zenon, <1>1, <2>2
<1> QED BY SMTT(40), <1>1, <1>5, <1>6, <1>7

\* Every step of the stack and of the network is one of these.
LEMMA OneWayStreams ==
  ASSUME OneWay, OneWayInv, Mapped, Mapped', [Next]_vars
  PROVE  [FromA!Next]_(FromA!vars) /\ [FromB!Next]_(FromB!vars)
<1>1. sk["A"].written \in Nat /\ sk["B"].rcv_nxt \in Nat
  BY Zenon DEF Mapped
<1>2. \/ sk'["A"] = sk["A"] /\ sk'["B"].rcv_nxt >= sk["B"].rcv_nxt
      \/ sk'["B"] = sk["B"] /\ sk'["A"].written >= sk["A"].written
  <2>1. CASE sk' = sk
    BY SMTT(40), <1>1, <2>1
  <2>2. CASE Next
    <3>1. PICK e \in Ends :
            \/ \E n \in WriteSizes, intact \in BOOLEAN : Write(e, n, intact)
            \/ \E intact \in BOOLEAN : Close(e, intact)
            \/ RtoExpires(e) \/ RunsRtoHandler(e) \/ DelackTimeout(e)
            \/ TimeWaitTimeout(e) \/ UserTimeout(e) \/ Receive(e) \/ Lose(e)
      BY Zenon, <2>2 DEF Next
    <3>2. Lose(e) => sk' = sk
      BY Zenon DEF Lose
    <3>3. e = "A" \/ e = "B"
      BY Zenon DEF Ends
    <3>4. CASE e = "A"
      BY Zenon, <2>1, <3>1, <3>2, <3>4, WriterMovesOn
    <3>5. CASE e = "B"
      BY Zenon, <2>1, <3>1, <3>2, <3>5, ReaderMovesOn
    <3> QED BY SMTT(40), <3>3, <3>4, <3>5
  <2> QED BY Zenon, <2>1, <2>2 DEF vars
<1>3. /\ FromA!Write \/ FromA!Deliver \/ UNCHANGED FromA!vars
      /\ UNCHANGED FromB!vars
  BY Zenon, <1>2, StreamStep
<1> QED BY Zenon, <1>3 DEF FromA!Next

\* Every one-way transfer, with any number of writes of any size over a network that
\* loses, repeats and reorders, implements a reliable stream from A to B: the reader
\* gets a growing prefix of what tcp_send queued, and no end-of-file nobody asked for.
THEOREM OneWayImplementsStream ==
  ASSUME OneWay PROVE Spec => ImplementsStream
<1>1. Init => FromA!Init /\ FromB!Init
  <2> SUFFICES ASSUME Init PROVE FromA!Init /\ FromB!Init
    BY Zenon
  <2>1. sk["A"] = Established /\ sk["B"] = Established
    BY Zenon DEF Init, Ends
  <2>2. Established.receive_queue = <<>> /\ Established.written = 0 /\ Established.closed = FALSE
        /\ Established.rcv_nxt = 1
    BY Zenon DEF Established
  <2>3. ASSUME NEW e \in {"A", "B"} PROVE Got(e) = 0 /\ ~FinTaken(e)
    <3>1. sk[e].receive_queue = <<>> /\ sk[e].rcv_nxt = 1
      BY Zenon, <2>1, <2>2
    <3>2. InOrder(e) /\ Delivered(e) = 0
      BY SMTT(40), <3>1 DEF InOrder, Delivered
    <3> QED BY SMTT(40), <3>1, <3>2 DEF Got, FinTaken
  <2> QED BY SMTT(40), <2>1, <2>2, <2>3 DEF FromA!Init, FromB!Init
<1>2. OneWayInv => Mapped
  BY Zenon, OneWayMapped
<1>3. OneWayInv /\ Mapped /\ Mapped' /\ [Next]_vars
      => [FromA!Next]_(FromA!vars) /\ [FromB!Next]_(FromB!vars)
  BY Zenon, OneWayStreams
<1>4. Spec => [](OneWayInv /\ Mapped)
  BY <1>2, OneWayInvariant, PTL
<1>5. Spec => FromA!Spec
  BY <1>1, <1>3, <1>4, PTL DEF Spec, FromA!Spec
<1>6. Spec => FromB!Spec
  BY <1>1, <1>3, <1>4, PTL DEF Spec, FromB!Spec
<1> QED BY Zenon, <1>5, <1>6 DEF ImplementsStream

==============================================================================
