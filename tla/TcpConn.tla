------------------------------- MODULE TcpConn -------------------------------
(***************************************************************************)
(* Two established Level-IP sockets and the network between them.          *)
(*                                                                         *)
(* sk[e] is the socket of end e.  Every handler of the C code runs to its  *)
(* end under the socket's write lock, so a handler is one action; between  *)
(* two actions any other thread may take the lock: the netdev thread with  *)
(* a segment, the application, or the thread of an expired timer.          *)
(* net[e] holds the segments on their way to e.  A handler collects what   *)
(* it transmits in sk[e].out, which Step moves to net.                     *)
(***************************************************************************)
EXTENDS TcpSend, FecRx

CONSTANTS
  Writers,      \* ends whose application writes
  WriteSizes,   \* lengths of a write
  IdleWrites,   \* TRUE: the application writes only on an empty write queue
  MaxBytes,     \* bound: bytes an application writes in all
  Closers,      \* ends whose application closes without waiting for EOF
  QuietClosers, \* ends whose application does so in a conversation without data
  Impatient,    \* ends whose user timeout may expire
  GivesUp,      \* TRUE: the RTO may exceed 60 s
  Duplicates,   \* TRUE: segments may be delivered any number of times
  MaxLoss       \* bound: segments the network loses (no bound with Duplicates)

ASSUME ConnAssumption ==
  /\ Writers \subseteq Ends /\ Closers \union QuietClosers \subseteq Ends /\ Impatient \subseteq Ends
  /\ WriteSizes \subseteq Nat \ {0} /\ MaxBytes \in Nat
  /\ {IdleWrites, GivesUp, Duplicates} \subseteq BOOLEAN
  /\ MaxLoss \in Nat

VARIABLES sk, net, lost

vars == <<sk, net, lost>>

\* A socket right after the handshake, at relative sequence number 1.
Established ==
  [state |-> "ESTABLISHED",
   snd_una |-> 1, snd_nxt |-> 1, inflight |-> 0, write_queue |-> <<>>,
   rto |-> FALSE, strays |-> 0,
   rcv_nxt |-> 1, ofo_queue |-> <<>>, receive_queue |-> <<>>, fin |-> FALSE,
   delack |-> FALSE, delacks |-> 0, linger |-> "user",
   fec |-> Fec, enc |-> <<>>, tx_base_seq |-> 0, tx_tail_len |-> 0,
   rx |-> [i \in 1..RxBlocks |-> FreeSlot],
   written |-> 0, closed |-> FALSE, out |-> {}]

Init ==
  /\ sk = [e \in Ends |-> Established]
  /\ net = [e \in Ends |-> {}]
  /\ lost = 0

------------------------------------------------------------------------------
\* The steps of tcp_input_state, in the order the function takes them.

tcp_verify_segment(s, m) == s.rcv_nxt <= m.seq /\ m.seq <= s.rcv_nxt + RcvWnd

AckStates == {"ESTABLISHED", "FIN_WAIT_1", "FIN_WAIT_2", "CLOSE_WAIT", "CLOSING", "LAST_ACK"}
TextStates == {"ESTABLISHED", "FIN_WAIT_1", "FIN_WAIT_2"}

\* FEC looks at a segment before anything else.
AfterFec(s, m) == IF s.fec THEN tcp_fec_input(s, m) ELSE s

NewAck(s, m) == s.state \in AckStates /\ s.snd_una < m.ack /\ m.ack <= s.snd_nxt
UselessAck(s, m) == s.state \in AckStates /\ (m.ack < s.snd_una \/ m.ack > s.snd_nxt)

AckField(s, m) ==
  IF NewAck(s, m) THEN tcp_clean_rto_queue([s EXCEPT !.snd_una = m.ack], m.ack) ELSE s

\* "If the write queue is empty, it means our FIN was acked."
FinAcked(s, m) ==
  CASE s.write_queue = <<>> /\ s.state = "FIN_WAIT_1" -> [s EXCEPT !.state = "FIN_WAIT_2"]
    [] s.write_queue = <<>> /\ s.state = "CLOSING" -> [s EXCEPT !.state = "TIME_WAIT"]
    [] s.write_queue = <<>> /\ s.state = "TIME_WAIT" /\ m.seq = s.rcv_nxt ->
         tcp_send_ack([s EXCEPT !.fin = TRUE])
    [] OTHER -> s

SegmentText(s, m) ==
  IF s.state \in TextStates /\ (m.psh \/ m.run.len > 0)
  THEN tcp_data_queue(s, m.seq, m.run) ELSE s

FinBit(s, m) ==
  LET t == tcp_send_ack([s EXCEPT !.rcv_nxt = @ + 1, !.fin = TRUE])
  IN  CASE s.state = "ESTABLISHED" -> [t EXCEPT !.state = "CLOSE_WAIT"]
        [] s.state = "FIN_WAIT_1" /\ s.write_queue # <<>> -> [t EXCEPT !.state = "CLOSING"]
        [] s.state = "FIN_WAIT_1" /\ s.write_queue = <<>> -> tcp_enter_time_wait(t)
        [] s.state = "FIN_WAIT_2" -> tcp_enter_time_wait(t)
        [] OTHER -> t

\* Congestion control and delayed ACKs, after an in-sequence segment.
Pending(s) == MinOf(Len(s.write_queue), 3)

SendOrAck(s, m) ==
  LET t == [s EXCEPT !.delack = FALSE]
      big == m.run.len > BigSegment
      count == IF big THEN s.delacks + 1 ELSE s.delacks
  IN  CASE s.inflight = 0 /\ Pending(s) > 0 ->
             tcp_rearm_rto_timer([tcp_send_next(t, Pending(s)) EXCEPT !.inflight = Pending(s)])
        [] ~(s.inflight = 0 /\ Pending(s) > 0) /\ (m.psh \/ (big /\ count > 1)) ->
             tcp_send_ack([t EXCEPT !.delacks = 0])
        [] ~(s.inflight = 0 /\ Pending(s) > 0) /\ ~(m.psh \/ (big /\ count > 1)) ->
             [t EXCEPT !.delacks = count, !.delack = (m.run.len > 0)]

\* Mutant: a FIN is taken although data before it is missing.
Accepted_FinOutOfOrder(s, m) ==
  LET a == FinAcked(AckField(s, m), m)
      d == SegmentText(a, m)
      f == IF m.fin THEN FinBit(d, m) ELSE d
  IN  IF f.state \in TextStates /\ m.seq = a.rcv_nxt THEN SendOrAck(f, m) ELSE f

\* A segment that passes every check.
Accepted(s, m) ==
  LET a == FinAcked(AckField(s, m), m)
      expected == m.seq = a.rcv_nxt
      d == SegmentText(a, m)
      f == IF m.fin /\ expected THEN FinBit(d, m) ELSE d
  IN  IF f.state \in TextStates /\ expected THEN SendOrAck(f, m) ELSE f

------------------------------------------------------------------------------
\* Actions.

\* The handler run by end e leaves socket s and hands s.out to the network.
Step(e, s) ==
  /\ sk' = [sk EXCEPT ![e] = [s EXCEPT !.out = {}]]
  /\ net' = [net EXCEPT ![Peer(e)] = @ \union s.out]
  /\ UNCHANGED lost

\* The same, for the handler of a segment m that has arrived.
Handles(e, m, s) ==
  /\ sk' = [sk EXCEPT ![e] = [s EXCEPT !.out = {}]]
  /\ net' = [net EXCEPT ![Peer(e)] = @ \union s.out,
                        ![e] = IF Duplicates THEN @ ELSE @ \ {m}]
  /\ UNCHANGED lost

\* tcp_write.  A closed descriptor is gone from the application.
Write(e, n, intact) ==
  /\ e \in Writers /\ sk[e].state \in {"ESTABLISHED", "CLOSE_WAIT"} /\ ~sk[e].closed
  /\ IdleWrites => sk[e].write_queue = <<>>
  /\ \A p \in QuietClosers : ~sk[p].closed
  /\ sk[e].written + n <= MaxBytes
  /\ Step(e, tcp_send(sk[e], n, intact))

\* tcp_close in the states in which it queues a FIN.
Close(e, intact) ==
  /\ ~sk[e].closed
  /\ \/ sk[e].state = "ESTABLISHED" /\ e \in Closers
     \/ sk[e].state = "ESTABLISHED" /\ e \in QuietClosers /\ \A p \in Ends : sk[p].written = 0
     \/ sk[e].state = "CLOSE_WAIT"
  /\ LET s == [sk[e] EXCEPT !.closed = TRUE,
                 !.state = IF @ = "ESTABLISHED" THEN "FIN_WAIT_1" ELSE @]
     IN  Step(e, tcp_queue_fin(s, intact))

\* The timer thread turns the expired timer into a waiting handler thread.
RtoExpires(e) ==
  /\ sk[e].rto /\ sk[e].strays < MaxStrays
  /\ Step(e, [sk[e] EXCEPT !.rto = FALSE, !.strays = @ + 1])

\* tcp_retransmission_timeout, in the thread of an expired timer.
LateHandler(s) == tcp_release_rto_timer([s EXCEPT !.strays = @ - 1])

RtoQueueEmpty(e) ==
  /\ sk[e].strays > 0 /\ sk[e].write_queue = <<>>
  /\ Step(e, LateHandler(sk[e]))

tcp_handle_fin_state(s) ==
  CASE s.state = "CLOSE_WAIT" -> [s EXCEPT !.state = "LAST_ACK"]
    [] s.state = "ESTABLISHED" -> [s EXCEPT !.state = "FIN_WAIT_1"]
    [] OTHER -> s

\* Mutant: the handler does not arm the next timeout.
Retransmit_NotRearmed(e) ==
  LET s == LateHandler(sk[e])
  IN  /\ sk[e].strays > 0 /\ sk[e].write_queue # <<>>
      /\ Step(e, tcp_transmit_skb(s, s.write_queue[1], s.snd_una))

Retransmit(e) ==
  LET s == LateHandler(sk[e])
      head == s.write_queue[1]
      t == [tcp_transmit_skb(s, head, s.snd_una) EXCEPT !.rto = TRUE]
  IN  /\ sk[e].strays > 0 /\ sk[e].write_queue # <<>>
      /\ Step(e, IF head.fin THEN tcp_handle_fin_state(t) ELSE t)

RetransmitGivesUp(e) ==
  LET s == LateHandler(sk[e])
  IN  /\ GivesUp /\ sk[e].strays > 0 /\ sk[e].write_queue # <<>>
      /\ Step(e, tcp_done(tcp_transmit_skb(s, s.write_queue[1], s.snd_una)))

\* tcp_send_delack
DelackTimeout(e) ==
  /\ sk[e].delack
  /\ Step(e, tcp_send_ack([sk[e] EXCEPT !.delack = FALSE, !.delacks = 0]))

\* tcp_linger
TimeWaitTimeout(e) ==
  /\ sk[e].linger = "2msl"
  /\ Step(e, tcp_done(sk[e]))

\* tcp_user_timeout: tcp_abort sends a reset and forgets what is unacknowledged.
UserTimeout(e) ==
  /\ sk[e].linger = "user" /\ e \in Impatient
  /\ LET s == [sk[e] EXCEPT !.snd_una = sk[e].snd_nxt]
         rst == Segment(s.snd_nxt, s.rcv_nxt, Nothing, FALSE, FALSE, TRUE, NoTag)
     IN  Step(e, tcp_done([s EXCEPT !.out = {rst}]))

\* tcp_input_state, one action for each way through it.
Consumes(e, m) == sk[e].fec /\ m.tag.type = "repair"

RepairArrives(e, m) ==
  /\ Consumes(e, m)
  /\ Handles(e, m, tcp_fec_input(sk[e], m))

UnacceptableArrives(e, m) ==
  LET s == AfterFec(sk[e], m)
  IN  /\ ~Consumes(e, m) /\ ~tcp_verify_segment(s, m)
      /\ Handles(e, m, IF m.rst THEN s ELSE tcp_send_ack(s))

ResetArrives(e, m) ==
  LET s == AfterFec(sk[e], m)
  IN  /\ ~Consumes(e, m) /\ tcp_verify_segment(s, m) /\ m.rst
      /\ Handles(e, m, tcp_enter_time_wait(s))

UselessAckArrives(e, m) ==
  LET s == AfterFec(sk[e], m)
  IN  /\ ~Consumes(e, m) /\ tcp_verify_segment(s, m) /\ ~m.rst /\ UselessAck(s, m)
      /\ Handles(e, m, s)

\* In LAST_ACK the acknowledgment of our FIN deletes the connection.
Finishes(s, m) == s.state = "LAST_ACK" /\ AckField(s, m).write_queue = <<>>

LastAckArrives(e, m) ==
  LET s == AfterFec(sk[e], m)
  IN  /\ ~Consumes(e, m) /\ tcp_verify_segment(s, m) /\ ~m.rst /\ ~UselessAck(s, m)
      /\ Finishes(s, m)
      /\ Handles(e, m, tcp_done(AckField(s, m)))

SegmentArrives(e, m) ==
  LET s == AfterFec(sk[e], m)
  IN  /\ ~Consumes(e, m) /\ tcp_verify_segment(s, m) /\ ~m.rst /\ ~UselessAck(s, m)
      /\ ~Finishes(s, m)
      /\ Handles(e, m, Accepted(s, m))

Receive(e) ==
  \E m \in net[e] :
    \/ RepairArrives(e, m)
    \/ UnacceptableArrives(e, m)
    \/ ResetArrives(e, m)
    \/ UselessAckArrives(e, m)
    \/ LastAckArrives(e, m)
    \/ SegmentArrives(e, m)

\* The network drops a segment.  With Duplicates a segment need never arrive.
Lose(e) ==
  /\ ~Duplicates /\ lost < MaxLoss
  /\ \E m \in net[e] : net' = [net EXCEPT ![e] = @ \ {m}]
  /\ lost' = lost + 1
  /\ UNCHANGED sk

RunsRtoHandler(e) == RtoQueueEmpty(e) \/ Retransmit(e) \/ RetransmitGivesUp(e)

Next ==
  \E e \in Ends :
    \/ \E n \in WriteSizes, intact \in BOOLEAN : Write(e, n, intact)
    \/ \E intact \in BOOLEAN : Close(e, intact)
    \/ RtoExpires(e)
    \/ RunsRtoHandler(e)
    \/ DelackTimeout(e)
    \/ TimeWaitTimeout(e)
    \/ UserTimeout(e)
    \/ Receive(e)
    \/ Lose(e)

Spec == Init /\ [][Next]_vars

\* A segment leaves the network towards e.
Takes(e) == \E m \in net[e] : net'[e] = net[e] \ {m}

\* The network delivers (weak fairness of Receive(e), which is enabled when net[e]
\* is not empty; Lose happens finitely often), timers expire and their threads
\* get the lock.
Fairness ==
  \A e \in Ends : /\ []<>(net[e] = {}) \/ []<><<Takes(e)>>_vars
                  /\ WF_vars(RtoExpires(e))
                  /\ WF_vars(RunsRtoHandler(e))
                  /\ WF_vars(DelackTimeout(e))

FairSpec == Spec /\ Fairness

------------------------------------------------------------------------------
\* Properties.

\* The states of a connection that tcp_done has not deleted and no reset ended.  CLOSING
\* is not among them: tcp_done leaves it too, and the CLOSING of a simultaneous close,
\* which tcp_done has not touched, is judged by EofComplete alone.
OpenStates == {"ESTABLISHED", "FIN_WAIT_1", "FIN_WAIT_2", "CLOSE_WAIT", "LAST_ACK"}

\* The bytes end e has delivered in order to its application.
Delivered(e) ==
  LET q == sk[e].receive_queue IN IF q = <<>> THEN 0 ELSE q[Len(q)].pos + q[Len(q)].len - 1

\* Its receive queue holds stream bytes from the first on, without gap or overlap.
InOrder(e) ==
  LET q == sk[e].receive_queue
  IN  \A i \in 1..Len(q) : q[i].pos = (IF i = 1 THEN 1 ELSE q[i-1].pos + q[i-1].len)

\* The receive queue of each end is a prefix of what the other end's application
\* wrote, without a gap, a repetition or a foreign byte (tcp_data_queue,
\* tcp_consume_ofo_queue, tcp_fec_splice).
StreamIntact ==
  \A e \in Ends : InOrder(e) /\ Delivered(e) <= sk[Peer(e)].written

\* A buffer that waits in the write queue is covered by the retransmission timer
\* or by a timeout handler about to run (tcp_clean_rto_queue stops the timer where
\* it finds "no unacknowledged skbs").
RetransmitCovered ==
  \A e \in Ends :
    sk[e].state \in OpenStates
      /\ sk[e].write_queue # <<>>
    => sk[e].rto \/ sk[e].strays > 0

\* tcp_retransmission_timeout sends the head of the queue at snd_una: whenever a
\* handler may run, the head's first byte is the one that snd_una stands for.
RetransmitsAtItsOwnSeq ==
  \A e \in Ends :
    sk[e].strays > 0 /\ sk[e].write_queue # <<>> /\ ~sk[e].write_queue[1].fin
    => sk[e].write_queue[1].run.pos = sk[e].snd_una

\* An end never acknowledges a byte its peer has not transmitted, as long as the
\* peer's connection is open (tcp_input_state drops every segment that does).
NoAckBeyondSent ==
  \A e \in Ends : sk[Peer(e)].state \in OpenStates => sk[e].rcv_nxt <= sk[Peer(e)].snd_nxt

\* Everything in the out-of-order queue lies ahead of rcv_nxt ("Segment passed
\* validation, hence it is in-window but not the left-most sequence").
OutOfOrderAhead ==
  \A e \in Ends : \A i \in DOMAIN sk[e].ofo_queue : sk[e].ofo_queue[i].seq > sk[e].rcv_nxt

\* End e has taken a FIN in sequence, which counts as one more sequence number; that of
\* a peer whose user timeout has expired may be counted once more.
FinTaken(e) == sk[e].rcv_nxt > Delivered(e) + 1

\* When an end has taken its peer's FIN in sequence (FinBit), it has got every byte
\* the peer's application wrote before it closed (tcp_close queues the FIN behind
\* "all preceding SENDs").
EofComplete ==
  \A e \in Ends :
    FinTaken(e) => sk[Peer(e)].closed /\ Delivered(e) = sk[Peer(e)].written

\* "If the write queue is empty, it means our FIN was acked": in FIN_WAIT_2 the
\* peer has acknowledged everything up to and including the FIN.
FinWait2MeansAcked ==
  \A e \in Ends : sk[e].state = "FIN_WAIT_2" => sk[e].snd_una = sk[e].snd_nxt

\* "Then send a FIN segment, enter LAST_ACK state": after a close in CLOSE_WAIT the
\* socket is no longer in CLOSE_WAIT once its FIN is on the wire (tcp_close).
LastAckAfterFin ==
  \A e \in Ends :
    sk[e].closed /\ sk[e].snd_nxt = sk[e].written + 2 => sk[e].state # "CLOSE_WAIT"

\* "A completed block must have been flushed, so tx_filled is always < k": every
\* tcp_send finds room in the block for its next source symbol.
BlockHasRoom == \A e \in Ends : Len(sk[e].enc) < K

\* Parity is generated "while every source skb is still queued": no repair is
\* computed from memory that an acknowledgment has freed (tcp_fec_emit_block).
ParityFromLiveSources ==
  \A e \in Ends : \A m \in net[e] :
    m.tag.type = "repair" => \A i \in DOMAIN m.tag.srcs : m.tag.srcs[i].pos # 0

\* "The original byte stream is untouched": FEC splices no byte into the stream that
\* does not belong there, as long as the parity itself was computed from the
\* sources (tcp_fec_splice, base_seq + i * sym_len).
SplicesBelong == ParityFromLiveSources => StreamIntact

\* A block of which the receiver holds k symbols is recovered at once, whichever of
\* them came last (tcp_fec_input runs tcp_fec_rx_recover after every symbol).
RecoveredOnceRecoverable ==
  \A e \in Ends : \A n \in DOMAIN sk[e].rx :
    LET blk == sk[e].rx[n]
    IN  sk[e].fec /\ blk.active
          /\ Cardinality(HeldRepairs(blk)) >= Cardinality(MissingSources(blk))
        => blk.recovered

\* Again and again everything written so far is acknowledged: the ACK clock, the
\* retransmission timeout and the delayed ACK never leave a byte behind, whatever
\* the network loses (tcp_input_state, tcp_retransmission_timeout, tcp_send_delack).
EventuallyAcked == \A e \in Ends : []<>(sk[e].snd_una > sk[e].written)

\* Every field has the type its C counterpart has.
TypeOK ==
  /\ lost \in 0..MaxLoss
  /\ \A e \in Ends :
       /\ sk[e].state \in AckStates \union {"TIME_WAIT"}
       /\ sk[e].snd_una \in Nat /\ sk[e].snd_nxt \in Nat /\ sk[e].rcv_nxt \in Nat
       /\ sk[e].inflight \in 0..Len(sk[e].write_queue)
       /\ sk[e].strays \in 0..MaxStrays
       /\ sk[e].linger \in {"none", "user", "2msl"}
       /\ Len(sk[e].enc) <= K
       /\ sk[e].out = {}

==============================================================================
