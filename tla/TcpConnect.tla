------------------------------ MODULE TcpConnect -----------------------------
(***************************************************************************)
(* Opening a connection: the client socket, the application thread that    *)
(* sleeps in connect(), the connect timer and its handler thread, and the  *)
(* host the client calls.                                                  *)
(*                                                                         *)
(* The stack has no listening side, so the peer is external: a TCP that    *)
(* answers a SYN as RFC 793 asks (tcp_closed, tcp_listen and tcp_send_     *)
(* synack are what the code has of it).  Sequence numbers are relative:    *)
(* the client's initial sequence number is 0 and the peer's is PeerIss.    *)
(* A segment carries FEC-PERM (fec) as the outcome of tcp_walk_options;    *)
(* TcpOptions models the bytes.                                            *)
(***************************************************************************)
EXTENDS Integers, FiniteSets

CONSTANTS
  PeerIss,            \* initial sequence number of the peer
  PeerStates,         \* what the peer may be doing: CLOSED, LISTEN, SYN_SENT
  PeerFec,            \* whether the peer may speak FEC: a set of Booleans
  AllocFails,         \* TRUE: tcp_fec_enable may run out of memory
  MayClose,           \* TRUE: another thread may close the descriptor
  Duplicates,         \* TRUE: the network loses and duplicates without bound
  MaxLoss,            \* bound: segments lost (no bound with Duplicates)
  OldSegments,        \* segments of earlier connections still in the network
  TCP_CONN_RETRIES, RcvWnd

ASSUME ConnectAssumption ==
  /\ PeerIss \in Nat \ {0} /\ RcvWnd \in Nat \ {0} /\ TCP_CONN_RETRIES \in Nat
  /\ PeerStates \subseteq {"CLOSED", "LISTEN", "SYN_SENT"}
  /\ PeerFec \subseteq BOOLEAN /\ {AllocFails, MayClose, Duplicates} \subseteq BOOLEAN
  /\ MaxLoss \in Nat

\* What earlier connections have left acknowledges none of our numbers and resets none of
\* the peer's: the initial sequence numbers differ enough.  An old SYN may be anything.
ASSUME OldAssumption ==
  /\ OldSegments \subseteq [flags: SUBSET {"SYN", "ACK", "RST"}, seq: Nat, ack: Nat, fec: BOOLEAN]
  /\ \A m \in OldSegments :
       /\ m.flags = {"SYN"} \/ ("ACK" \in m.flags /\ m.ack > 1)
       /\ "RST" \in m.flags => m.seq \notin PeerIss + 1 .. PeerIss + 1 + RcvWnd

VARIABLES
  cl,       \* the client's sock and socket
  call,     \* the thread in connect()
  peer,     \* the host called
  toClient, toPeer, lost

vars == <<cl, call, peer, toClient, toPeer, lost>>

Ctl(flags, seq, ack, fec) == [flags |-> flags, seq |-> seq, ack |-> ack, fec |-> fec]

\* A SYN carries no acknowledgment; its ack field is zero.
Syn(seq, fec) == Ctl({"SYN"}, seq, 0, fec)

\* tcp_alloc_sock, sock_init_data and inet_create leave this socket.
NewSock ==
  [state |-> "CLOSE", snd_una |-> 0, snd_nxt |-> 0, rcv_nxt |-> 0,
   syn_queued |-> FALSE, retransmit |-> FALSE, backoff |-> 0,
   fecok |-> TRUE, fec |-> FALSE,
   err |-> "0", sock |-> "UNCONNECTED", wakes |-> FALSE, out |-> {}]

Init ==
  /\ cl = NewSock
  /\ call = [pc |-> "idle", result |-> "none", nonblock |-> FALSE, handler |-> FALSE,
             closed |-> FALSE, stuck |-> FALSE]
  /\ \E s \in PeerStates, f \in PeerFec :
       /\ peer = [state |-> s, speaks |-> f, fec |-> FALSE]
       /\ toClient = OldSegments \union (IF s = "SYN_SENT" THEN {Syn(PeerIss, f)} ELSE {})
  /\ toPeer = {} /\ lost = 0

------------------------------------------------------------------------------
\* Handlers: from socket to socket.  wakes notes a wait_wakeup(&sock->sleep),
\* out the segments transmitted.

Transmit(s, m) == [s EXCEPT !.out = @ \union {m}]

tcp_send_ack(s) == Transmit(s, Ctl({"ACK"}, s.snd_nxt, s.rcv_nxt, FALSE))

tcp_rearm_rto_timer(s) == [s EXCEPT !.retransmit = TRUE]

tcp_stop_rto_timer(s) == [s EXCEPT !.retransmit = FALSE, !.backoff = 0]

\* tcp_done: tcp_free clears the timers and the codec and wakes connect();
\* socket_delete marks the socket for the garbage collector.
tcp_done(s) ==
  [tcp_stop_rto_timer(s) EXCEPT !.state = "CLOSING", !.fec = FALSE, !.wakes = TRUE,
                                !.sock = "DISCONNECTING"]

\* tcp_v4_connect, tcp_connect, tcp_send_syn: the SYN is queued, sent, and
\* then counted.  It offers FEC because fecok starts out set.
tcp_connect(s) ==
  LET syn == Transmit([s EXCEPT !.state = "SYN_SENT"], Syn(s.snd_nxt, s.fecok))
  IN  [tcp_rearm_rto_timer(syn) EXCEPT !.syn_queued = TRUE, !.snd_nxt = @ + 1]

\* Mutant: the offer in our own SYN counts as the peer's agreement.
tcp_parse_opts_OwnOffer(s, m) == s

tcp_parse_opts(s, m) == [s EXCEPT !.fecok = @ /\ m.fec]

\* tcp_fec_enable and the fall back when it fails.
tcp_fec_enable(s, fails) ==
  IF s.fecok /\ fails THEN [s EXCEPT !.fecok = FALSE] ELSE [s EXCEPT !.fec = s.fecok]

tcp_reset(s) == tcp_done([s EXCEPT !.err = "ECONNREFUSED"])

sock_connected(s) == [s EXCEPT !.sock = "CONNECTED", !.err = "0", !.wakes = TRUE]

\* Mutant: any acknowledgment will do.
UnacceptableAck_Never(s, m) == FALSE

\* The initial sequence number is 0.
UnacceptableAck(s, m) == "ACK" \in m.flags /\ (m.ack <= 0 \/ m.ack > s.snd_nxt)

\* tcp_synsent, the SYN is acknowledged: tcp_clean_rto_queue takes it from
\* the write queue and stops the timer.
Established(s, m, fails) ==
  LET acked == tcp_stop_rto_timer([s EXCEPT !.syn_queued = FALSE, !.snd_una = s.snd_nxt,
                                            !.rcv_nxt = m.seq + 1, !.state = "ESTABLISHED"])
      heard == tcp_parse_opts(tcp_send_ack(acked), m)
  IN  sock_connected(IF heard.fecok THEN tcp_fec_enable(heard, fails) ELSE heard)

\* tcp_send_synack does nothing unless the state is still SYN_SENT.
tcp_send_synack(s) ==
  IF s.state = "SYN_SENT"
  THEN Transmit(s, Ctl({"SYN", "ACK"}, s.snd_nxt, s.rcv_nxt, s.fecok)) ELSE s

\* tcp_synsent, a SYN crosses ours.
SimultaneousOpen(s, m) ==
  tcp_send_synack(tcp_parse_opts([s EXCEPT !.state = "SYN_RECEIVED", !.rcv_nxt = m.seq + 1], m))

tcp_synsent(s, m, fails) ==
  CASE UnacceptableAck(s, m) -> s
    [] ~UnacceptableAck(s, m) /\ "RST" \in m.flags -> tcp_reset(s)
    [] ~UnacceptableAck(s, m) /\ m.flags = {"SYN", "ACK"} -> Established(s, m, fails)
    [] m.flags = {"SYN"} -> SimultaneousOpen(s, m)
    [] OTHER -> s

tcp_verify_segment(s, m) == s.rcv_nxt <= m.seq /\ m.seq <= s.rcv_nxt + RcvWnd

\* Mutant: a segment outside the window is dropped in silence.
Unacceptable_Silent(s, m) == s

Unacceptable(s, m) == IF "RST" \in m.flags THEN s ELSE tcp_send_ack(s)

tcp_enter_time_wait(s) == [tcp_stop_rto_timer(s) EXCEPT !.state = "TIME_WAIT"]

\* A stub: nothing is sent.
tcp_send_challenge_ack(s) == s

\* tcp_input_state beyond SYN_SENT, for the segments of a handshake.
AckBit(s, m, fails) ==
  CASE s.state # "SYN_RECEIVED" -> s
    [] s.state = "SYN_RECEIVED" /\ s.snd_una <= m.ack /\ m.ack < s.snd_nxt ->
         tcp_fec_enable([s EXCEPT !.state = "ESTABLISHED"], fails)
    [] OTHER -> s

tcp_input_state(s, m, fails) ==
  CASE s.state = "SYN_SENT" -> tcp_synsent(s, m, fails)
    [] s.state # "SYN_SENT" /\ ~tcp_verify_segment(s, m) -> Unacceptable(s, m)
    [] s.state # "SYN_SENT" /\ tcp_verify_segment(s, m) /\ "RST" \in m.flags -> tcp_enter_time_wait(s)
    [] s.state # "SYN_SENT" /\ tcp_verify_segment(s, m) /\ m.flags \intersect {"RST", "SYN"} = {"SYN"} ->
         tcp_send_challenge_ack(s)
    [] OTHER -> AckBit(s, m, fails)

GivesUp(s) == s.backoff > TCP_CONN_RETRIES

TimesOut(s) == tcp_done([s EXCEPT !.err = "ETIMEDOUT"])

\* Mutant: a handler that gets the lock late does not look at the state.
tcp_connect_rto_AnyState(s) ==
  LET t == [s EXCEPT !.retransmit = FALSE]
  IN  CASE GivesUp(s) -> TimesOut(t)
        [] ~GivesUp(s) /\ s.syn_queued ->
             tcp_rearm_rto_timer([Transmit(t, Syn(t.snd_una, TRUE)) EXCEPT !.backoff = @ + 1])
        [] OTHER -> t

\* The handler thread of the connect timer, which may get the lock late.
tcp_connect_rto(s) ==
  LET t == [s EXCEPT !.retransmit = FALSE]
  IN  CASE s.state = "SYN_SENT" /\ GivesUp(s) -> TimesOut(t)
        [] s.state = "SYN_SENT" /\ ~GivesUp(s) /\ s.syn_queued ->
             tcp_rearm_rto_timer([Transmit(t, Syn(t.snd_una, TRUE)) EXCEPT !.backoff = @ + 1])
        [] OTHER -> t

------------------------------------------------------------------------------
\* Actions.

\* A thread whose sleep is over holds the mutex of sock->sleep until it has had the
\* socket: "woken" after a wait_wakeup, "unasked" without one.
Awake == {"woken", "unasked"}

\* A handler leaves socket s; a wake-up reaches a thread that sleeps.  One that finds
\* the thread awake waits in wait_wakeup for the mutex, with the socket locked, and the
\* thread for the socket: both are stuck, and whoever wants the socket after them.
Commit(s, c) ==
  /\ ~call.stuck
  /\ cl' = [s EXCEPT !.out = {}, !.wakes = FALSE]
  /\ call' = [c EXCEPT !.pc = IF s.wakes /\ c.pc = "asleep" THEN "woken" ELSE c.pc,
                       !.stuck = s.wakes /\ c.pc \in Awake]
  /\ toPeer' = toPeer \union s.out

\* inet_stream_connect up to the sleep.  The mutex of sock->sleep is taken
\* before the socket is unlocked, so no wake-up is lost in between.
Connect(nonblock) ==
  /\ call.pc = "idle"
  /\ Commit([tcp_connect(cl) EXCEPT !.sock = "CONNECTING", !.err = "EINPROGRESS"],
            [call EXCEPT !.nonblock = nonblock,
                         !.pc = IF nonblock THEN "returned" ELSE "asleep",
                         !.result = IF nonblock THEN "EINPROGRESS" ELSE "none"])
  /\ UNCHANGED <<peer, toClient, lost>>

\* connect() on a socket that is connecting or connected only leaves its error in
\* sk->err, where a thread asleep in the first one finds it.  One on a socket that
\* tcp_done has given up frees it; that is in SocketLife.
ConnectAgain ==
  /\ cl.sock \in {"CONNECTING", "CONNECTED"}
  /\ Commit([cl EXCEPT !.err = IF cl.sock = "CONNECTED" THEN "EISCONN" ELSE "EALREADY"], call)
  /\ UNCHANGED <<peer, toClient, lost>>

\* Mutant: the condition is not tested again after the sleep.
StillConnecting_Never(s) == FALSE

StillConnecting(s) == s.sock = "CONNECTING" /\ s.err = "EINPROGRESS"

\* The woken thread gets the socket, tests its condition again and sleeps or returns
\* sk->err.
Resume ==
  /\ call.pc \in Awake /\ ~call.stuck
  /\ IF StillConnecting(cl)
     THEN /\ call' = [call EXCEPT !.pc = "asleep"]
          /\ UNCHANGED cl
     ELSE /\ call' = [call EXCEPT !.pc = "returned", !.result = cl.err]
          /\ cl' = IF cl.err = "0" THEN [cl EXCEPT !.sock = "CONNECTED"] ELSE cl
  /\ UNCHANGED <<peer, toClient, toPeer, lost>>

\* pthread_cond_wait may return without a signal.
SpuriousWakeup ==
  /\ call.pc = "asleep"
  /\ call' = [call EXCEPT !.pc = "unasked"]
  /\ UNCHANGED <<cl, peer, toClient, toPeer, lost>>

\* The tick thread starts a handler thread, which waits for the lock.
RtoExpires ==
  /\ cl.retransmit /\ ~call.handler
  /\ cl' = [cl EXCEPT !.retransmit = FALSE]
  /\ call' = [call EXCEPT !.handler = TRUE]
  /\ UNCHANGED <<peer, toClient, toPeer, lost>>

RtoHandler ==
  /\ call.handler
  /\ Commit(tcp_connect_rto(cl), [call EXCEPT !.handler = FALSE])
  /\ UNCHANGED <<peer, toClient, lost>>

\* tcp_close by another thread, before the connection is there.
Close ==
  /\ MayClose /\ cl.state \in {"SYN_SENT", "SYN_RECEIVED"}
  /\ Commit(tcp_done(cl), [call EXCEPT !.closed = TRUE])
  /\ UNCHANGED <<peer, toClient, lost>>

\* tcp_in.  What a socket does after tcp_done belongs to TcpConn.
SegmentArrives(m, fails) ==
  /\ cl.state \in {"SYN_SENT", "SYN_RECEIVED", "ESTABLISHED"}
  /\ fails => AllocFails
  /\ Commit(tcp_input_state(cl, m, fails), call)
  /\ toClient' = IF Duplicates THEN toClient ELSE toClient \ {m}
  /\ UNCHANGED <<peer, lost>>

------------------------------------------------------------------------------
\* The external peer and the network.

SynAck(agreed) == Ctl({"SYN", "ACK"}, PeerIss, 1, agreed)

PeerReply(m, to) ==
  /\ toClient' = toClient \union m
  /\ toPeer' = IF Duplicates THEN toPeer ELSE toPeer \ {to}
  /\ UNCHANGED <<cl, call, lost>>

PeerHearsSyn(m) ==
  /\ m.flags = {"SYN"}
  /\ \/ /\ peer.state \in {"LISTEN", "SYN_SENT", "SYN_RECEIVED"}
        /\ peer' = [peer EXCEPT !.state = "SYN_RECEIVED", !.fec = m.fec /\ peer.speaks]
        /\ PeerReply({SynAck(m.fec /\ peer.speaks)}, m)
     \/ /\ peer.state = "CLOSED"
        /\ PeerReply({Ctl({"RST", "ACK"}, 0, m.seq + 1, FALSE)}, m)
        /\ UNCHANGED peer
     \/ /\ peer.state = "ESTABLISHED"
        /\ PeerReply({Ctl({"ACK"}, PeerIss + 1, 1, FALSE)}, m)
        /\ UNCHANGED peer

PeerHearsAck(m) ==
  /\ m.flags = {"ACK"}
  /\ peer' = IF peer.state = "SYN_RECEIVED" /\ m.ack = PeerIss + 1
             THEN [peer EXCEPT !.state = "ESTABLISHED"] ELSE peer
  /\ PeerReply({}, m)

PeerRetransmits ==
  /\ peer.state = "SYN_RECEIVED"
  /\ toClient' = toClient \union {SynAck(peer.fec)}
  /\ UNCHANGED <<cl, call, peer, toPeer, lost>>

Lose ==
  /\ ~Duplicates /\ lost < MaxLoss /\ lost' = lost + 1
  /\ \/ \E m \in toClient : toClient' = toClient \ {m} /\ UNCHANGED toPeer
     \/ \E m \in toPeer : toPeer' = toPeer \ {m} /\ UNCHANGED toClient
  /\ UNCHANGED <<cl, call, peer>>

Receive == \E m \in toClient, fails \in BOOLEAN : SegmentArrives(m, fails)
PeerReceive == \E m \in toPeer : PeerHearsSyn(m) \/ PeerHearsAck(m)

Next ==
  \/ \E nonblock \in BOOLEAN : Connect(nonblock)
  \/ ConnectAgain
  \/ Resume \/ SpuriousWakeup \/ RtoExpires \/ RtoHandler \/ Close
  \/ Receive \/ PeerReceive \/ PeerRetransmits \/ Lose

Spec == Init /\ [][Next]_vars

\* What is sent and not lost arrives, unless the socket is locked for good, and the
\* peer retransmits.
FairSpec ==
  Spec /\ WF_vars(Receive) /\ WF_vars(PeerReceive) /\ WF_vars(PeerRetransmits)
------------------------------------------------------------------------------
\* Properties.

TypeOK ==
  /\ cl \in [state: {"CLOSE", "SYN_SENT", "SYN_RECEIVED", "ESTABLISHED", "CLOSING", "TIME_WAIT"},
             snd_una: 0..1, snd_nxt: 0..1, rcv_nxt: {0, PeerIss + 1},
             syn_queued: BOOLEAN, retransmit: BOOLEAN, backoff: 0..TCP_CONN_RETRIES + 1,
             fecok: BOOLEAN, fec: BOOLEAN,
             err: {"0", "EINPROGRESS", "ECONNREFUSED", "ETIMEDOUT", "EISCONN", "EALREADY"},
             sock: {"UNCONNECTED", "CONNECTING", "CONNECTED", "DISCONNECTING"},
             wakes: {FALSE}, out: {{}}]
  /\ call \in [pc: {"idle", "asleep", "woken", "unasked", "returned"},
               result: {"none", "0", "EINPROGRESS", "ECONNREFUSED", "ETIMEDOUT", "EISCONN", "EALREADY"},
               nonblock: BOOLEAN, handler: BOOLEAN, closed: BOOLEAN, stuck: BOOLEAN]
  /\ peer \in [state: {"CLOSED", "LISTEN", "SYN_SENT", "SYN_RECEIVED", "ESTABLISHED"},
               speaks: BOOLEAN, fec: BOOLEAN]
  /\ lost \in 0..MaxLoss

\* An ESTABLISHED client has a peer that has seen its SYN, and both count from
\* the same numbers, whatever old or repeated segments tcp_synsent is shown.
PeerKnowsUs ==
  cl.state = "ESTABLISHED" =>
    /\ peer.state \in {"SYN_RECEIVED", "ESTABLISHED"}
    /\ cl.rcv_nxt = PeerIss + 1 /\ cl.snd_una = 1 /\ cl.snd_nxt = 1

\* Once both ends are ESTABLISHED, FEC is on at both or at neither: "FEC
\* engages for the connection only if BOTH peers offer it" (fec_frame.h).
FecBothOrNeither ==
  cl.state = "ESTABLISHED" /\ peer.state = "ESTABLISHED" => cl.fec = peer.fec

\* What connect() returns is what happened: 0 on a connection the peer knows, or EISCONN
\* when another connect() has come in between; ECONNREFUSED when nobody listens, ETIMEDOUT
\* when the socket is given up, EINPROGRESS only to a non-blocking caller or after a
\* close() (inet.c).  EALREADY, of another connect(), says nothing of this one.
ConnectTruthful ==
  CASE call.result \in {"0", "EISCONN"} ->
         cl.state = "ESTABLISHED" /\ peer.state \notin {"CLOSED", "LISTEN"}
    [] call.result = "ECONNREFUSED" -> peer.state = "CLOSED" /\ cl.state = "CLOSING"
    [] call.result = "ETIMEDOUT" -> cl.state = "CLOSING" /\ ~call.closed
    [] call.result = "EINPROGRESS" -> call.nonblock \/ call.closed
    [] call.result = "none" -> call.pc # "returned"
    [] OTHER -> TRUE

\* However a handshake ends, its handlers wake connect() once: one of them and the thread
\* get stuck on the socket and the mutex of its sleep only if the thread was awake unasked,
\* never because a second one wakes a thread that the first has set on its way
\* (inet.c:116-122, wait_wakeup).  The collector, the last to wake it, is in SocketLife.
WokenOnce == call.stuck => call.pc = "unasked"

\* No client stays ESTABLISHED without a peer that gets there too, though the ACK of
\* its SYN is lost: a repeated SYN/ACK is left of the window and is answered.  A client
\* that is stuck answers nothing.
PeerFollows == []<>(cl.state = "ESTABLISHED" /\ ~call.stuck => peer.state = "ESTABLISHED")

\* Not so: nobody gets stuck.
NeverStuck == ~call.stuck

\* Not so: an established connection has no error, which tcp_write would return.
NoErrorLeft == cl.state = "ESTABLISHED" => cl.err = "0"

\* A client in SYN_RECEIVED has replied to the peer's SYN with a SYN/ACK, as
\* the comment in tcp_synsent says it does.
SynReceivedHasReplied ==
  cl.state = "SYN_RECEIVED" => \E m \in toPeer : m.flags = {"SYN", "ACK"}

==============================================================================
