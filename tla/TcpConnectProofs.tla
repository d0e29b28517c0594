--------------------------- MODULE TcpConnectProofs ---------------------------
(***************************************************************************)
(* Opening a connection is safe for every initial sequence number, number  *)
(* of retries, window and set of old segments that acknowledge nothing of  *)
(* this connection: what the client believes of its peer is so, and        *)
(* connect() returns what happened.                                        *)
(***************************************************************************)
EXTENDS TcpConnect, TLAPS

Flags == {"SYN", "ACK", "RST"}
Message == [flags: SUBSET Flags, seq: Int, ack: Int, fec: BOOLEAN]

Errors == {"0", "EINPROGRESS", "ECONNREFUSED", "ETIMEDOUT", "EISCONN", "EALREADY"}

SockType ==
  [state: {"CLOSE", "SYN_SENT", "SYN_RECEIVED", "ESTABLISHED", "CLOSING", "TIME_WAIT"},
   snd_una: Int, snd_nxt: Int, rcv_nxt: Int,
   syn_queued: BOOLEAN, retransmit: BOOLEAN, backoff: Int, fecok: BOOLEAN, fec: BOOLEAN,
   err: Errors, sock: {"UNCONNECTED", "CONNECTING", "CONNECTED", "DISCONNECTING"},
   wakes: BOOLEAN, out: SUBSET Message]

CallType ==
  [pc: {"idle", "asleep", "woken", "unasked", "returned"}, result: Errors \union {"none"},
   nonblock: BOOLEAN, handler: BOOLEAN, closed: BOOLEAN, stuck: BOOLEAN]

PeerType ==
  [state: {"CLOSED", "LISTEN", "SYN_SENT", "SYN_RECEIVED", "ESTABLISHED"},
   speaks: BOOLEAN, fec: BOOLEAN]

Typed ==
  /\ cl \in SockType /\ call \in CallType /\ peer \in PeerType
  /\ toClient \subseteq Message /\ toPeer \subseteq Message

\* The peer p has heard our SYN.
Knows(p) == p.state \in {"SYN_RECEIVED", "ESTABLISHED"}

\* What may reach the client.  A SYN/ACK that fits speaks for a peer that knows us, and a
\* reset that fits for one that does not listen.
FromPeer(m, p) ==
  \/ m \in OldSegments
  \/ m.flags = {"SYN"}
  \/ m = SynAck(p.speaks) /\ Knows(p)
  \/ m = Ctl({"ACK"}, PeerIss + 1, 1, FALSE)
  \/ m = Ctl({"RST", "ACK"}, 0, 1, FALSE) /\ p.state = "CLOSED"

\* Every SYN of the client is the first of its numbers, and offers FEC.
FromClient(m) == m.flags = {"SYN"} => m.seq = 0 /\ m.fec = TRUE

\* A second connect() leaves its own error.
Opening(s) ==
  s.snd_una = 0 /\ s.snd_nxt = 1 /\ s.sock = "CONNECTING" /\ s.err \in {"EINPROGRESS", "EALREADY"}

Opened(s, p) ==
  /\ s.snd_una = 1 /\ s.snd_nxt = 1 /\ s.rcv_nxt = PeerIss + 1
  /\ s.sock = "CONNECTED" /\ s.err \in {"0", "EISCONN"} /\ Knows(p)
  /\ ~AllocFails => s.fec = p.speaks

\* Why a socket is closing.
Ended(s, p, closed) ==
  /\ s.sock = "DISCONNECTING"
  /\ \/ s.err = "ECONNREFUSED" /\ p.state = "CLOSED" /\ closed = FALSE
     \/ s.err = "ETIMEDOUT" /\ closed = FALSE
     \/ s.err \in {"EINPROGRESS", "EALREADY"} /\ closed = TRUE

\* What each state of the socket means.
SockInv(s, p, closed) ==
  /\ s.state # "CLOSING" => closed = FALSE
  /\ s.state = "CLOSE" => s.snd_una = 0 /\ s.snd_nxt = 0 /\ s.fecok = TRUE /\ s.fec = FALSE
  /\ s.state = "SYN_SENT" => Opening(s) /\ s.fecok = TRUE /\ s.fec = FALSE
  /\ s.state \in {"SYN_RECEIVED", "TIME_WAIT"} => Opening(s)
  /\ s.state = "ESTABLISHED" => Opened(s, p)
  /\ s.state = "CLOSING" => Ended(s, p, closed)

\* What the thread in connect() returns.  A thread that was asked to wake up finds a
\* handshake that has ended, and nobody wakes it again.
CallInv ==
  /\ call.pc = "idle" <=> cl.state = "CLOSE"
  /\ call.result = "none" <=> call.pc # "returned"
  /\ call.pc = "returned" =>
       \/ call.nonblock = TRUE /\ call.result = "EINPROGRESS"
       \/ call.result = "EALREADY"
       \/ call.result \in {"0", "EISCONN"} /\ cl.state = "ESTABLISHED"
       \/ call.result = cl.err /\ cl.state = "CLOSING"
  /\ call.pc = "woken" => cl.state \in {"ESTABLISHED", "CLOSING"}
  /\ call.stuck = TRUE => call.pc = "unasked"

IInv ==
  /\ Typed
  /\ \A m \in toClient : FromPeer(m, peer)
  /\ \A m \in toPeer : FromClient(m)
  /\ Knows(peer) => peer.fec = peer.speaks
  /\ SockInv(cl, peer, call.closed)
  /\ cl.out = {} /\ cl.wakes = FALSE
  /\ CallInv

------------------------------------------------------------------------------
\* The handlers.

\* What a segment that may reach the client is worth in each state of the client.
LEMMA Unacceptables ==
  ASSUME NEW p \in PeerType, NEW m \in Message, FromPeer(m, p),
         NEW s \in SockType, s.snd_nxt = 1, ~UnacceptableAck(s, m)
  PROVE  /\ "RST" \in m.flags => p.state = "CLOSED"
         /\ m.flags = {"SYN", "ACK"} => m.seq = PeerIss /\ m.fec = p.speaks /\ Knows(p)
<1>1. CASE m \in OldSegments
  <2>1. m.flags = {"SYN"}
    BY Zenon, <1>1, OldAssumption DEF UnacceptableAck, SockType, Message
  <2> QED
    BY <2>1
<1>2. CASE m.flags = {"SYN"}
  BY <1>2
<1>3. CASE m = SynAck(p.speaks) /\ Knows(p)
  BY Zenon, <1>3 DEF SynAck, Ctl
<1>4. CASE m = Ctl({"ACK"}, PeerIss + 1, 1, FALSE)
  <2>1. "SYN" \notin {"ACK"} /\ "RST" \notin {"ACK"}
    BY Zenon
  <2>2. m.flags = {"ACK"} /\ "SYN" \in {"SYN", "ACK"}
    BY Zenon, <1>4 DEF Ctl
  <2> QED
    BY Zenon, <2>1, <2>2
<1>5. CASE m = Ctl({"RST", "ACK"}, 0, 1, FALSE) /\ p.state = "CLOSED"
  BY ZenonT(40), <1>5 DEF Ctl
<1> QED
  BY Zenon, <1>1, <1>2, <1>3, <1>4, <1>5 DEF FromPeer

\* The fields a handler sets get values of their type.
LEMMA SetTimer ==
  ASSUME NEW s \in SockType, NEW n \in Int
  PROVE  [s EXCEPT !.retransmit = FALSE, !.backoff = n] \in SockType
BY Zenon DEF SockType

LEMMA SendAck ==
  ASSUME NEW s \in SockType
  PROVE  LET t == tcp_send_ack(s)
         IN  /\ t \in SockType
             /\ t = [s EXCEPT !.out = s.out \union {Ctl({"ACK"}, s.snd_nxt, s.rcv_nxt, FALSE)}]
<1>1. Ctl({"ACK"}, s.snd_nxt, s.rcv_nxt, FALSE) \in Message
  BY Zenon DEF Ctl, Message, Flags, SockType
<1> QED
  BY Zenon, <1>1 DEF tcp_send_ack, Transmit, SockType

LEMMA StopRto ==
  ASSUME NEW s \in SockType
  PROVE  tcp_stop_rto_timer(s) \in SockType
<1>1. 0 \in Int
  OBVIOUS
<1> QED
  BY Zenon, <1>1, SetTimer DEF tcp_stop_rto_timer

\* tcp_done keeps what the socket has been told of its peer, and marks its end.
LEMMA Done ==
  ASSUME NEW s \in SockType
  PROVE  LET t == tcp_done(s)
         IN  /\ t \in SockType /\ t.state = "CLOSING" /\ t.sock = "DISCONNECTING"
             /\ t.err = s.err /\ t.out = s.out
<1> DEFINE r == tcp_stop_rto_timer(s)
<1>1. r \in SockType
  BY Zenon, StopRto
<1>2. r.err = s.err /\ r.out = s.out
  BY Zenon DEF tcp_stop_rto_timer, SockType
<1>3. tcp_done(s) = [r EXCEPT !.state = "CLOSING", !.fec = FALSE, !.wakes = TRUE, !.sock = "DISCONNECTING"]
  BY Zenon DEF tcp_done
<1> HIDE DEF r
<1>4. tcp_done(s) \in SockType
  BY ZenonT(40), <1>1, <1>3 DEF SockType
<1>5. tcp_done(s).state = "CLOSING" /\ tcp_done(s).sock = "DISCONNECTING"
      /\ tcp_done(s).err = r.err /\ tcp_done(s).out = r.out
  BY Zenon, <1>1, <1>3 DEF SockType
<1> QED
  BY Zenon, <1>2, <1>4, <1>5

\* What is sent beside SYNs is no SYN.
Sent(s) == \A m \in s.out : FromClient(m)

LEMMA AckIsNoSyn ==
  ASSUME NEW a, NEW b PROVE FromClient(Ctl({"ACK"}, a, b, FALSE))
<1>1. "SYN" \notin {"ACK"} /\ "SYN" \in {"SYN"}
  BY Zenon
<1> QED
  BY Zenon, <1>1 DEF FromClient, Ctl

LEMMA AckSent ==
  ASSUME NEW s \in SockType, Sent(s)
  PROVE  Sent(tcp_send_ack(s))
<1> DEFINE a == Ctl({"ACK"}, s.snd_nxt, s.rcv_nxt, FALSE)
<1>1. tcp_send_ack(s).out = s.out \union {a}
  BY Zenon DEF tcp_send_ack, Transmit, SockType
<1>2. FromClient(a)
  BY Zenon, AckIsNoSyn
<1> HIDE DEF a
<1> QED
  BY Zenon, <1>1, <1>2 DEF Sent

\* tcp_synsent, the SYN is acknowledged: both count from the same numbers, and FEC is on
\* where the peer speaks it.
LEMMA EstablishedSound ==
  ASSUME NEW p \in PeerType, NEW s \in SockType, NEW m \in Message, NEW fails \in BOOLEAN,
         s.state = "SYN_SENT", SockInv(s, p, FALSE), Sent(s), fails => AllocFails,
         m.seq = PeerIss, m.fec = p.speaks, Knows(p)
  PROVE  LET t == Established(s, m, fails)
         IN  t \in SockType /\ SockInv(t, p, FALSE) /\ Sent(t) /\ t.state = "ESTABLISHED"
<1> DEFINE a == [s EXCEPT !.syn_queued = FALSE, !.snd_una = s.snd_nxt, !.rcv_nxt = m.seq + 1,
                          !.state = "ESTABLISHED"]
           b == tcp_stop_rto_timer(a)
           c == tcp_send_ack(b)
           d == tcp_parse_opts(c, m)
           e == IF d.fecok THEN tcp_fec_enable(d, fails) ELSE d
           t == sock_connected(e)
<1> USE ConnectAssumption
<1>1. s.snd_nxt \in Int /\ m.seq + 1 \in Int /\ m.fec \in BOOLEAN /\ s.snd_nxt = 1
      /\ s.fecok = TRUE /\ s.fec = FALSE
  BY DEF SockType, Message, SockInv, Opening
<1>2. \A x, y \in Int : [s EXCEPT !.syn_queued = FALSE, !.snd_una = x, !.rcv_nxt = y,
                          !.state = "ESTABLISHED"] \in SockType
  BY ZenonT(40) DEF SockType
<1>3. a \in SockType
  BY Zenon, <1>1, <1>2
<1>4. a.state = "ESTABLISHED" /\ a.snd_una = 1 /\ a.snd_nxt = 1 /\ a.rcv_nxt = PeerIss + 1
      /\ a.fecok = TRUE /\ a.fec = FALSE /\ a.out = s.out
  BY Zenon, <1>1 DEF SockType
<1> HIDE DEF a
<1>5. b \in SockType
  BY Zenon, <1>3, StopRto
<1>6. b.state = "ESTABLISHED" /\ b.snd_una = 1 /\ b.snd_nxt = 1 /\ b.rcv_nxt = PeerIss + 1
      /\ b.fecok = TRUE /\ b.fec = FALSE /\ b.out = s.out
  BY Zenon, <1>3, <1>4 DEF SockType, tcp_stop_rto_timer
<1> HIDE DEF b
<1>7. c \in SockType /\ c.state = "ESTABLISHED" /\ c.snd_una = 1 /\ c.snd_nxt = 1
      /\ c.rcv_nxt = PeerIss + 1
      /\ c.fecok = TRUE /\ c.fec = FALSE /\ Sent(c)
  <2>1. c \in SockType
        /\ c = [b EXCEPT !.out = b.out \union {Ctl({"ACK"}, b.snd_nxt, b.rcv_nxt, FALSE)}]
    BY Zenon, <1>5, SendAck
  <2>2. Sent(b)
    BY Zenon, <1>6 DEF Sent
  <2>3. Sent(c)
    BY Zenon, <1>5, <2>2, AckSent
  <2>4. c.state = "ESTABLISHED" /\ c.snd_una = 1 /\ c.snd_nxt = 1
      /\ c.rcv_nxt = PeerIss + 1 /\ c.fecok = TRUE /\ c.fec = FALSE
    BY <1>5, <1>6, <2>1 DEF SockType
  <2> QED
    BY Zenon, <2>1, <2>3, <2>4
<1> HIDE DEF c
<1>8. d \in SockType /\ d.state = "ESTABLISHED" /\ d.snd_una = 1 /\ d.snd_nxt = 1
      /\ d.rcv_nxt = PeerIss + 1
      /\ d.fecok = p.speaks /\ d.fec = FALSE /\ Sent(d)
  <2>1. d = [c EXCEPT !.fecok = m.fec]
    BY Zenon, <1>1, <1>7 DEF tcp_parse_opts
  <2> QED
    BY <1>1, <1>7, <2>1 DEF SockType, Sent
<1> HIDE DEF d
<1>9. e \in SockType /\ e.state = "ESTABLISHED" /\ e.snd_una = 1 /\ e.snd_nxt = 1
      /\ e.rcv_nxt = PeerIss + 1 /\ Sent(e) /\ (~AllocFails => e.fec = p.speaks)
  <2>1. CASE d.fecok = FALSE
    BY Zenon, <1>8, <2>1
  <2>2. CASE d.fecok = TRUE /\ fails = TRUE
    BY ZenonT(40), <1>8, <2>2 DEF tcp_fec_enable, SockType, Sent
  <2>3. CASE d.fecok = TRUE /\ fails = FALSE
    BY Zenon, <1>8, <2>3 DEF tcp_fec_enable, SockType, Sent
  <2> QED
    BY Zenon, <1>8, <2>1, <2>2, <2>3 DEF SockType
<1> HIDE DEF e
<1>10. t \in SockType
  BY ZenonT(40), <1>9 DEF sock_connected, SockType, Errors
<1>11. t.state = "ESTABLISHED" /\ Opened(t, p) /\ Sent(t)
  BY Zenon, <1>9 DEF sock_connected, SockType, Opened, Sent
<1>12. t = Established(s, m, fails)
  BY Zenon DEF Established, a, b, c, d, e
<1> HIDE DEF t
<1> QED
  BY Zenon, <1>10, <1>11, <1>12 DEF SockInv

\* connect() is woken when the handshake has ended, and only then.
WakesAtEnd(s) == s.wakes = TRUE => s.state \in {"ESTABLISHED", "CLOSING"}

\* tcp_synsent keeps what the states mean.
LEMMA SynsentSound ==
  ASSUME NEW p \in PeerType, NEW s \in SockType, NEW m \in Message, NEW fails \in BOOLEAN,
         s.state = "SYN_SENT", SockInv(s, p, FALSE), Sent(s), fails => AllocFails, FromPeer(m, p),
         s.wakes = FALSE
  PROVE  LET t == tcp_synsent(s, m, fails)
         IN  t \in SockType /\ SockInv(t, p, FALSE) /\ Sent(t) /\ t.state # "CLOSE" /\ WakesAtEnd(t)
<1> DEFINE t == tcp_synsent(s, m, fails)
<1> SUFFICES t \in SockType /\ SockInv(t, p, FALSE) /\ Sent(t) /\ t.state # "CLOSE" /\ WakesAtEnd(t)
  BY Zenon
<1> USE DEF WakesAtEnd
<1>0. s.snd_nxt = 1 /\ Opening(s)
  BY Zenon DEF SockInv, Opening
<1>1. CASE UnacceptableAck(s, m)
  <2>0. m.flags # {"SYN"}
    BY <1>1 DEF UnacceptableAck
  <2>1. t = s
    BY Zenon, <1>1, <2>0 DEF tcp_synsent
  <2> QED
    BY Zenon, <2>1
<1>2. CASE ~UnacceptableAck(s, m) /\ "RST" \in m.flags
  <2> DEFINE r == [s EXCEPT !.err = "ECONNREFUSED"]
  <2>1. t = tcp_done(r)
    BY <1>2 DEF tcp_synsent, tcp_reset
  <2>2. r \in SockType /\ r.err = "ECONNREFUSED" /\ r.out = s.out
    BY Zenon DEF SockType, Errors
  <2>3. p.state = "CLOSED"
    BY Zenon, <1>0, <1>2, Unacceptables
  <2> HIDE DEF r
  <2>4. t \in SockType /\ t.state = "CLOSING" /\ t.sock = "DISCONNECTING"
             /\ t.err = r.err /\ t.out = r.out
    BY <2>1, <2>2, Done
  <2> HIDE DEF t
  <2> QED
    BY Zenon, <2>2, <2>3, <2>4 DEF SockInv, Ended, Sent
<1>3. CASE ~UnacceptableAck(s, m) /\ "RST" \notin m.flags /\ m.flags = {"SYN", "ACK"}
  <2>1. t = Established(s, m, fails)
    BY <1>3 DEF tcp_synsent
  <2>2. m.seq = PeerIss /\ m.fec = p.speaks /\ Knows(p)
    BY Zenon, <1>0, <1>3, Unacceptables
  <2> HIDE DEF t
  <2> QED
    BY Zenon, <2>1, <2>2, EstablishedSound
<1>4. CASE ~UnacceptableAck(s, m) /\ "RST" \notin m.flags /\ m.flags = {"SYN"}
  <2> DEFINE r == [s EXCEPT !.state = "SYN_RECEIVED", !.rcv_nxt = m.seq + 1]
             u == tcp_parse_opts(r, m)
  <2>1. "ACK" \notin m.flags /\ m.flags # {"SYN", "ACK"}
    BY <1>4
  <2>2. t = tcp_send_synack(u)
    BY Zenon, <1>4, <2>1 DEF tcp_synsent, SimultaneousOpen
  <2>3. r \in SockType /\ r.state = "SYN_RECEIVED" /\ Opening(r) /\ r.out = s.out
      /\ r.wakes = FALSE
    <3>1. ASSUME NEW n \in Int
          PROVE  LET q == [s EXCEPT !.state = "SYN_RECEIVED", !.rcv_nxt = n]
                 IN  q \in SockType /\ q.state = "SYN_RECEIVED" /\ Opening(q) /\ q.out = s.out
                     /\ q.wakes = FALSE
      BY Zenon, <1>0 DEF SockType, Opening
    <3>2. m.seq + 1 \in Int
      BY DEF Message
    <3> QED
      BY Zenon, <3>1, <3>2
  <2> HIDE DEF r
  <2>4. u \in SockType /\ u.state = "SYN_RECEIVED" /\ Opening(u) /\ u.out = s.out /\ u.wakes = FALSE
    <3>1. (r.fecok /\ m.fec) \in BOOLEAN
      BY Zenon
    <3>2. ASSUME NEW x \in BOOLEAN
          PROVE  [r EXCEPT !.fecok = x] \in SockType /\ [r EXCEPT !.fecok = x].out = s.out
                 /\ [r EXCEPT !.fecok = x].state = "SYN_RECEIVED" /\ Opening([r EXCEPT !.fecok = x])
                 /\ [r EXCEPT !.fecok = x].wakes = FALSE
      BY Zenon, <2>3 DEF SockType, Opening
    <3>3. u = [r EXCEPT !.fecok = (r.fecok /\ m.fec)]
      BY Zenon DEF tcp_parse_opts
    <3> QED
      BY Zenon, <3>1, <3>2, <3>3
  <2> HIDE DEF u
  <2>5. t = u
    BY Zenon, <2>2, <2>4 DEF tcp_send_synack
  <2> QED
    BY Zenon, <2>4, <2>5 DEF SockInv, Sent
<1>5. CASE ~UnacceptableAck(s, m) /\ "RST" \notin m.flags /\ m.flags # {"SYN", "ACK"} /\ m.flags # {"SYN"}
  <2>1. t = s
    BY Zenon, <1>5 DEF tcp_synsent
  <2> QED
    BY Zenon, <2>1
<1> QED
  BY Zenon, <1>1, <1>2, <1>3, <1>4, <1>5

\* tcp_input_state beyond SYN_SENT: no segment that may reach the client moves it from
\* SYN_RECEIVED to ESTABLISHED, and no reset fits an ESTABLISHED one.
LEMMA LaterSound ==
  ASSUME NEW p \in PeerType, NEW s \in SockType, NEW m \in Message, NEW fails \in BOOLEAN,
         s.state \in {"SYN_RECEIVED", "ESTABLISHED"}, SockInv(s, p, FALSE), Sent(s), FromPeer(m, p)
  PROVE  LET t == tcp_input_state(s, m, fails)
         IN  /\ t \in SockType /\ SockInv(t, p, FALSE) /\ Sent(t) /\ t.wakes = s.wakes
             /\ \/ t.state = s.state /\ t.err = s.err
                \/ s.state = "SYN_RECEIVED" /\ t.state = "TIME_WAIT"
<1> DEFINE t == tcp_input_state(s, m, fails)
           Kept == /\ t \in SockType /\ SockInv(t, p, FALSE) /\ Sent(t)
                   /\ t.state = s.state /\ t.err = s.err /\ t.wakes = s.wakes
<1> SUFFICES Kept \/ (t \in SockType /\ SockInv(t, p, FALSE) /\ Sent(t) /\ t.wakes = s.wakes
                      /\ s.state = "SYN_RECEIVED" /\ t.state = "TIME_WAIT")
  BY Zenon
<1> USE ConnectAssumption
<1>1. ASSUME t = s PROVE Kept
  BY Zenon, <1>1
<1>2. ASSUME t = tcp_send_ack(s) PROVE Kept
  <2>1. t \in SockType /\ t = [s EXCEPT !.out = s.out \union {Ctl({"ACK"}, s.snd_nxt, s.rcv_nxt, FALSE)}]
    BY Zenon, <1>2, SendAck
  <2>2. Sent(t)
    BY Zenon, <1>2, AckSent
  <2> HIDE DEF t
  <2>3. t.state = s.state /\ t.err = s.err /\ t.snd_una = s.snd_una /\ t.snd_nxt = s.snd_nxt
        /\ t.rcv_nxt = s.rcv_nxt /\ t.sock = s.sock /\ t.fec = s.fec /\ t.wakes = s.wakes
    BY <2>1 DEF SockType
  <2>4. SockInv(t, p, FALSE)
    BY ZenonT(40), <2>3 DEF SockInv, Opening, Opened
  <2> QED
    BY Zenon, <2>1, <2>2, <2>3, <2>4
<1>3. CASE ~tcp_verify_segment(s, m)
  BY Zenon, <1>1, <1>2, <1>3 DEF tcp_input_state, Unacceptable
<1>4. CASE tcp_verify_segment(s, m) /\ "RST" \in m.flags
  <2>1. s.state = "SYN_RECEIVED"
    <3>1. SUFFICES ASSUME s.state = "ESTABLISHED" PROVE FALSE
      BY Zenon
    <3>2. Knows(p) /\ s.rcv_nxt = PeerIss + 1
      BY Zenon, <3>1 DEF SockInv, Opened
    <3>3. m \in OldSegments
      <4>1. "RST" \notin {"SYN"} /\ "RST" \notin {"SYN", "ACK"} /\ "RST" \notin {"ACK"}
        BY Zenon
      <4> QED
        BY <1>4, <3>2, <4>1 DEF FromPeer, SynAck, Ctl, Knows
    <3>4. m.seq \in Int /\ m.seq \notin PeerIss + 1 .. PeerIss + 1 + RcvWnd
      BY Zenon, <1>4, <3>3, OldAssumption DEF Message
    <3> QED
      BY <1>4, <3>2, <3>4 DEF tcp_verify_segment
  <2> DEFINE r == tcp_stop_rto_timer(s)
  <2>2. t = [r EXCEPT !.state = "TIME_WAIT"]
    <3>1. m.flags \intersect {"RST", "SYN"} # {"SYN"}
      BY <1>4
    <3> QED
      BY Zenon, <1>4, <2>1, <3>1 DEF tcp_input_state, tcp_enter_time_wait
  <2>3. r \in SockType
    BY Zenon, StopRto
  <2>4. r.out = s.out /\ Opening(r) /\ r.wakes = s.wakes
    BY Zenon, <2>1 DEF tcp_stop_rto_timer, SockType, SockInv, Opening
  <2> HIDE DEF r, t
  <2>5. t \in SockType /\ t.state = "TIME_WAIT" /\ t.out = s.out /\ Opening(t) /\ t.wakes = s.wakes
    BY Zenon, <2>2, <2>3, <2>4 DEF SockType, Opening
  <2> QED
    BY Zenon, <2>1, <2>5 DEF SockInv, Sent
<1>5. CASE tcp_verify_segment(s, m) /\ "RST" \notin m.flags /\ "SYN" \in m.flags
  <2>1. m.flags \intersect {"RST", "SYN"} = {"SYN"}
    BY Zenon, <1>5
  <2> QED
    BY Zenon, <1>1, <1>5, <2>1 DEF tcp_input_state, tcp_send_challenge_ack
<1>6. CASE tcp_verify_segment(s, m) /\ "RST" \notin m.flags /\ "SYN" \notin m.flags
  <2>1. m.ack > 0 /\ m.ack \in Int
    <3>1. m.flags # {"SYN"}
      BY Zenon, <1>6
    <3> QED
      BY <1>6, <3>1, OldAssumption DEF FromPeer, SynAck, Ctl, Message
  <2>2. s.state = "SYN_RECEIVED" => s.snd_nxt = 1
    BY Zenon DEF SockInv, Opening
  <2>3. AckBit(s, m, fails) = s
    BY <2>1, <2>2 DEF AckBit
  <2>4. t = AckBit(s, m, fails)
    <3>1. m.flags \intersect {"RST", "SYN"} # {"SYN"}
      BY Zenon, <1>6
    <3> QED
      BY Zenon, <1>6, <3>1 DEF tcp_input_state
  <2> QED
    BY ZenonT(40), <1>1, <2>3, <2>4
<1> QED
  BY Zenon, <1>3, <1>4, <1>5, <1>6

\* The handler thread of the connect timer, in any state.
LEMMA RtoSound ==
  ASSUME NEW p \in PeerType, NEW s \in SockType, NEW closed \in BOOLEAN,
         SockInv(s, p, closed), Sent(s)
  PROVE  LET t == tcp_connect_rto(s)
         IN  /\ t \in SockType /\ SockInv(t, p, closed) /\ Sent(t)
             /\ \/ t.state = s.state /\ t.err = s.err /\ t.wakes = s.wakes
                \/ s.state = "SYN_SENT" /\ t.state = "CLOSING"
<1> DEFINE t == tcp_connect_rto(s)
           r == [s EXCEPT !.retransmit = FALSE]
           Kept == /\ t \in SockType /\ SockInv(t, p, closed) /\ Sent(t)
                   /\ t.state = s.state /\ t.err = s.err /\ t.wakes = s.wakes
<1> SUFFICES Kept \/ (t \in SockType /\ SockInv(t, p, closed) /\ Sent(t)
                      /\ s.state = "SYN_SENT" /\ t.state = "CLOSING")
  BY Zenon
<1>1. r \in SockType /\ r.state = s.state /\ r.err = s.err /\ r.snd_una = s.snd_una
      /\ r.snd_nxt = s.snd_nxt /\ r.rcv_nxt = s.rcv_nxt /\ r.sock = s.sock /\ r.fec = s.fec
      /\ r.fecok = s.fecok /\ r.out = s.out /\ r.backoff = s.backoff /\ r.wakes = s.wakes
  BY ZenonT(40) DEF SockType
<1>2. CASE s.state = "SYN_SENT" /\ GivesUp(s)
  <2> DEFINE u == [r EXCEPT !.err = "ETIMEDOUT"]
  <2>1. t = tcp_done(u)
    BY Zenon, <1>2 DEF tcp_connect_rto, TimesOut
  <2> HIDE DEF r
  <2>2. u \in SockType /\ u.err = "ETIMEDOUT" /\ u.out = s.out
    BY Zenon, <1>1 DEF SockType, Errors
  <2>3. closed = FALSE
    BY Zenon, <1>2 DEF SockInv
  <2> HIDE DEF u
  <2>4. t \in SockType /\ t.state = "CLOSING" /\ t.sock = "DISCONNECTING"
             /\ t.err = "ETIMEDOUT" /\ t.out = s.out
    BY <2>1, <2>2, Done
  <2> HIDE DEF t
  <2> QED
    BY Zenon, <1>2, <2>3, <2>4 DEF SockInv, Ended, Sent
<1>3. CASE s.state = "SYN_SENT" /\ ~GivesUp(s) /\ s.syn_queued
  <2> DEFINE syn == Syn(r.snd_una, TRUE)
             u == [r EXCEPT !.out = r.out \union {syn}]
  <2>1. t = [[u EXCEPT !.backoff = u.backoff + 1] EXCEPT !.retransmit = TRUE]
    BY Zenon, <1>3 DEF tcp_connect_rto, tcp_rearm_rto_timer, Transmit
  <2> HIDE DEF r
  <2>2. syn \in Message /\ FromClient(syn)
    BY <1>1, <1>3 DEF Syn, Ctl, Message, Flags, FromClient, SockType, SockInv, Opening
  <2> HIDE DEF syn
  <2>3. u \in SockType /\ u.out = s.out \union {syn} /\ u.state = s.state /\ u.err = s.err
        /\ u.snd_una = s.snd_una
        /\ u.snd_nxt = s.snd_nxt /\ u.sock = s.sock /\ u.fec = s.fec
        /\ u.fecok = s.fecok /\ u.wakes = s.wakes
    BY Zenon, <1>1, <2>2 DEF SockType
  <2> HIDE DEF u
  <2>4. u.backoff + 1 \in Int
    BY <2>3 DEF SockType
  <2>5. ASSUME NEW n \in Int
        PROVE  LET w == [[u EXCEPT !.backoff = n] EXCEPT !.retransmit = TRUE]
               IN  /\ w \in SockType /\ w.out = s.out \union {syn} /\ w.state = s.state /\ w.err = s.err
                   /\ w.snd_una = s.snd_una /\ w.snd_nxt = s.snd_nxt /\ w.sock = s.sock
                   /\ w.fec = s.fec /\ w.fecok = s.fecok /\ w.wakes = s.wakes
    BY Zenon, <2>3 DEF SockType
  <2>6. /\ t \in SockType /\ t.out = s.out \union {syn} /\ t.state = s.state /\ t.err = s.err
        /\ t.snd_una = s.snd_una /\ t.snd_nxt = s.snd_nxt /\ t.sock = s.sock
        /\ t.fec = s.fec /\ t.fecok = s.fecok /\ t.wakes = s.wakes
    <3> HIDE DEF t
    <3> QED
      BY Zenon, <2>1, <2>4, <2>5
  <2> HIDE DEF t
  <2>7. Sent(t)
    BY Zenon, <2>2, <2>6 DEF Sent
  <2> QED
    BY Zenon, <1>3, <2>6, <2>7 DEF SockInv, Opening
<1>4. CASE ~(s.state = "SYN_SENT" /\ GivesUp(s)) /\ ~(s.state = "SYN_SENT" /\ ~GivesUp(s) /\ s.syn_queued)
  <2>1. t = r
    BY Zenon, <1>4 DEF tcp_connect_rto
  <2> HIDE DEF r, t
  <2> QED
    BY Zenon, <1>1, <2>1 DEF SockInv, Opening, Opened, Ended, Sent
<1> QED
  BY Zenon, <1>2, <1>3, <1>4

\* connect() up to the sleep, from a new socket.
LEMMA ConnectSound ==
  ASSUME NEW p \in PeerType, NEW s \in SockType,
         s.state = "CLOSE", SockInv(s, p, FALSE), s.out = {}, s.wakes = FALSE
  PROVE  LET t == [tcp_connect(s) EXCEPT !.sock = "CONNECTING", !.err = "EINPROGRESS"]
         IN  t \in SockType /\ SockInv(t, p, FALSE) /\ Sent(t) /\ t.state = "SYN_SENT" /\ t.wakes = FALSE
<1> DEFINE syn == Syn(s.snd_nxt, s.fecok)
           a == [s EXCEPT !.state = "SYN_SENT"]
           b == [a EXCEPT !.out = a.out \union {syn}]
           c == [b EXCEPT !.retransmit = TRUE]
           d == [c EXCEPT !.syn_queued = TRUE, !.snd_nxt = c.snd_nxt + 1]
           t == [d EXCEPT !.sock = "CONNECTING", !.err = "EINPROGRESS"]
<1>1. t = [tcp_connect(s) EXCEPT !.sock = "CONNECTING", !.err = "EINPROGRESS"]
  BY Zenon DEF tcp_connect, Transmit, tcp_rearm_rto_timer
<1>2. syn \in Message /\ FromClient(syn)
  BY Zenon DEF Syn, Ctl, Message, Flags, FromClient, SockType, SockInv
<1> HIDE DEF syn
<1>3. a \in SockType /\ a.state = "SYN_SENT" /\ a.snd_una = 0 /\ a.snd_nxt = 0 /\ a.fecok = TRUE
      /\ a.fec = FALSE /\ a.out = {} /\ a.wakes = FALSE
  BY Zenon DEF SockType, SockInv
<1> HIDE DEF a
<1>4. b \in SockType /\ b.state = "SYN_SENT" /\ b.snd_una = 0 /\ b.snd_nxt = 0 /\ b.fecok = TRUE
      /\ b.fec = FALSE /\ b.out = {syn} /\ b.wakes = FALSE
  BY Zenon, <1>2, <1>3 DEF SockType
<1> HIDE DEF b
<1>5. c \in SockType /\ c.state = "SYN_SENT" /\ c.snd_una = 0 /\ c.snd_nxt = 0 /\ c.fecok = TRUE
      /\ c.fec = FALSE /\ c.out = {syn} /\ c.wakes = FALSE
  BY Zenon, <1>4 DEF SockType
<1> HIDE DEF c
<1>6. ASSUME NEW n \in Int
      PROVE  LET q == [c EXCEPT !.syn_queued = TRUE, !.snd_nxt = n]
             IN  q \in SockType /\ q.state = "SYN_SENT" /\ q.snd_una = 0 /\ q.snd_nxt = n
                 /\ q.fecok = TRUE /\ q.fec = FALSE /\ q.out = {syn}
                 /\ q.wakes = FALSE
  BY Zenon, <1>5 DEF SockType
<1>7. c.snd_nxt + 1 = 1 /\ c.snd_nxt + 1 \in Int
  BY <1>5
<1>8. d \in SockType /\ d.state = "SYN_SENT" /\ d.snd_una = 0 /\ d.snd_nxt = c.snd_nxt + 1
      /\ d.fecok = TRUE /\ d.fec = FALSE /\ d.out = {syn} /\ d.wakes = FALSE
  BY Zenon, <1>6, <1>7
<1> HIDE DEF d
<1>9. t \in SockType /\ t.state = "SYN_SENT" /\ t.snd_una = 0 /\ t.snd_nxt = 1 /\ t.fecok = TRUE
      /\ t.fec = FALSE /\ t.out = {syn} /\ t.sock = "CONNECTING" /\ t.err = "EINPROGRESS"
      /\ t.wakes = FALSE
  BY ZenonT(40), <1>7, <1>8 DEF SockType, Errors
<1> HIDE DEF t
<1>10. SockInv(t, p, FALSE) /\ Sent(t)
  BY Zenon, <1>2, <1>9 DEF SockInv, Opening, Sent
<1> QED
  BY Zenon, <1>1, <1>9, <1>10

\* The end of a handler.
LEMMA Committed ==
  ASSUME Typed, \A m \in toPeer : FromClient(m),
         NEW p \in PeerType, NEW s \in SockType, NEW c \in CallType,
         SockInv(s, p, c.closed), Sent(s), Commit(s, c)
  PROVE  /\ cl' \in SockType /\ call' \in CallType
         /\ SockInv(cl', p, call'.closed) /\ cl'.out = {} /\ cl'.wakes = FALSE
         /\ cl'.state = s.state /\ cl'.err = s.err
         /\ call'.nonblock = c.nonblock /\ call'.result = c.result
         /\ call'.pc = c.pc \/ (c.pc = "asleep" /\ call'.pc = "woken" /\ s.wakes = TRUE)
         /\ call'.stuck = TRUE => s.wakes = TRUE /\ c.pc \in Awake /\ call'.pc = c.pc
         /\ toPeer' \subseteq Message /\ \A m \in toPeer' : FromClient(m)
<1>1. cl' \in SockType /\ cl'.out = {} /\ cl'.wakes = FALSE
      /\ cl'.state = s.state /\ cl'.err = s.err /\ cl'.snd_una = s.snd_una /\ cl'.snd_nxt = s.snd_nxt
      /\ cl'.rcv_nxt = s.rcv_nxt /\ cl'.sock = s.sock /\ cl'.fec = s.fec /\ cl'.fecok = s.fecok
  BY ZenonT(40) DEF Commit, SockType
<1>2. call' \in CallType /\ call'.closed = c.closed
      /\ call'.nonblock = c.nonblock /\ call'.result = c.result
      /\ (call'.pc = c.pc \/ (c.pc = "asleep" /\ call'.pc = "woken" /\ s.wakes = TRUE))
      /\ (call'.stuck = TRUE => s.wakes = TRUE /\ c.pc \in Awake /\ call'.pc = c.pc)
  <2>0. s.wakes \in BOOLEAN
    BY Zenon DEF SockType
  <2>1. CASE s.wakes = TRUE /\ c.pc = "asleep"
    <3>1. call' = [c EXCEPT !.pc = "woken", !.stuck = FALSE]
      BY Zenon, <2>1 DEF Commit, Awake
    <3> QED
      BY Zenon, <2>1, <3>1 DEF CallType
  <2>2. CASE s.wakes = TRUE /\ c.pc \in Awake
    <3>1. call' = [c EXCEPT !.pc = c.pc, !.stuck = TRUE]
      BY Zenon, <2>2 DEF Commit, Awake
    <3> QED
      BY Zenon, <2>2, <3>1 DEF CallType
  <2>3. CASE s.wakes = FALSE \/ c.pc \notin {"asleep"} \union Awake
    <3>1. call' = [c EXCEPT !.pc = c.pc, !.stuck = FALSE]
      BY Zenon, <2>3 DEF Commit
    <3> QED
      BY Zenon, <3>1 DEF CallType
  <2> QED
    BY Zenon, <2>0, <2>1, <2>2, <2>3
<1>3. SockInv(cl', p, c.closed)
  BY Zenon, <1>1 DEF SockInv, Opening, Opened, Ended
<1>4. toPeer' \subseteq Message /\ \A m \in toPeer' : FromClient(m)
  BY Zenon DEF Commit, Typed, SockType, Sent
<1> QED
  BY Zenon, <1>1, <1>2, <1>3, <1>4

\* What the peer does takes back nothing that the client and its segments rely on.
Onward(p, q) ==
  (Knows(p) => Knows(q)) /\ (p.state = "CLOSED" => q.state = "CLOSED") /\ q.speaks = p.speaks

LEMMA PeerOnward ==
  ASSUME NEW p \in PeerType, NEW q \in PeerType, Onward(p, q), NEW s \in SockType, NEW closed,
         SockInv(s, p, closed)
  PROVE  SockInv(s, q, closed)
BY Zenon DEF Onward, SockInv, Opened, Ended, Knows, PeerType, SockType

LEMMA SegmentOnward ==
  ASSUME NEW p \in PeerType, NEW q \in PeerType, Onward(p, q), NEW m, FromPeer(m, p)
  PROVE  FromPeer(m, q)
BY Zenon DEF Onward, FromPeer

------------------------------------------------------------------------------
\* The steps.

LEMMA InitConnect ==
  Init => IInv
<1> SUFFICES ASSUME Init PROVE IInv
  BY Zenon
<1> USE ConnectAssumption, OldAssumption
<1>1. PICK st \in PeerStates, f \in PeerFec :
        /\ peer = [state |-> st, speaks |-> f, fec |-> FALSE]
        /\ toClient = OldSegments \union (IF st = "SYN_SENT" THEN {Syn(PeerIss, f)} ELSE {})
  BY ZenonT(40) DEF Init
<1>2. peer \in PeerType /\ ~Knows(peer)
  BY Zenon, <1>1 DEF PeerType, Knows
<1>3. cl \in SockType
  <2>1. ASSUME NEW n \in Int
        PROVE  [state |-> "CLOSE", snd_una |-> n, snd_nxt |-> n, rcv_nxt |-> n,
                syn_queued |-> FALSE, retransmit |-> FALSE, backoff |-> n,
                fecok |-> TRUE, fec |-> FALSE,
                err |-> "0", sock |-> "UNCONNECTED", wakes |-> FALSE, out |-> {}] \in SockType
    BY Zenon DEF SockType, Errors
  <2>2. 0 \in Int
    OBVIOUS
  <2> QED
    BY Zenon, <2>1, <2>2 DEF Init, NewSock
<1>4. call \in CallType
  BY Zenon DEF Init, CallType
<1>5. toClient \subseteq Message /\ \A m \in toClient : FromPeer(m, peer)
  <2>1. Syn(PeerIss, f) \in Message /\ FromPeer(Syn(PeerIss, f), peer)
    BY DEF Syn, Ctl, Message, Flags, FromPeer
  <2>2. OldSegments \subseteq Message
    <3> SUFFICES ASSUME NEW m \in OldSegments PROVE m \in Message
      BY Zenon
    <3>1. m \in [flags: SUBSET {"SYN", "ACK", "RST"}, seq: Nat, ack: Nat, fec: BOOLEAN]
      BY Zenon
    <3> QED
      BY <3>1 DEF Message, Flags
  <2> QED
    BY ZenonT(40), <1>1, <2>1, <2>2 DEF FromPeer
<1>6. SockInv(cl, peer, call.closed) /\ cl.out = {} /\ cl.wakes = FALSE
  BY Zenon DEF Init, NewSock, SockInv
<1>7. CallInv
  BY Zenon DEF Init, NewSock, CallInv
<1>8. toPeer = {}
  BY Zenon DEF Init
<1> QED
  BY Zenon, <1>2, <1>3, <1>4, <1>5, <1>6, <1>7, <1>8 DEF IInv, Typed

\* The application's thread.
LEMMA ConnectStep ==
  ASSUME IInv, NEW nonblock \in BOOLEAN, Connect(nonblock)
  PROVE  IInv'
<1> DEFINE s == [tcp_connect(cl) EXCEPT !.sock = "CONNECTING", !.err = "EINPROGRESS"]
           c == [call EXCEPT !.nonblock = nonblock,
                             !.pc = IF nonblock THEN "returned" ELSE "asleep",
                             !.result = IF nonblock THEN "EINPROGRESS" ELSE "none"]
<1>1. cl.state = "CLOSE" /\ call.closed = FALSE
  BY Zenon DEF IInv, CallInv, SockInv, Connect
<1>2. s \in SockType /\ SockInv(s, peer, FALSE) /\ Sent(s) /\ s.state = "SYN_SENT" /\ s.wakes = FALSE
  BY Zenon, <1>1, ConnectSound DEF IInv, Typed
<1>3. c \in CallType /\ c.closed = FALSE
      /\ c.nonblock = nonblock
      /\ ((nonblock = TRUE /\ c.pc = "returned" /\ c.result = "EINPROGRESS")
          \/ (nonblock = FALSE /\ c.pc = "asleep" /\ c.result = "none"))
  <2>1. CASE nonblock = TRUE
    BY Zenon, <1>1, <2>1 DEF IInv, Typed, CallType, Errors
  <2>2. CASE nonblock = FALSE
    BY Zenon, <1>1, <2>2 DEF IInv, Typed, CallType, Errors
  <2> QED
    BY Zenon, <2>1, <2>2
<1>4. Commit(s, c) /\ UNCHANGED <<peer, toClient>>
  BY Zenon DEF Connect
<1> HIDE DEF s, c
<1>5. /\ cl' \in SockType /\ call' \in CallType
      /\ SockInv(cl', peer, call'.closed) /\ cl'.out = {} /\ cl'.wakes = FALSE
      /\ cl'.state = s.state /\ cl'.err = s.err
      /\ call'.nonblock = c.nonblock /\ call'.result = c.result
      /\ call'.pc = c.pc \/ (c.pc = "asleep" /\ call'.pc = "woken" /\ s.wakes = TRUE)
      /\ call'.stuck = TRUE => s.wakes = TRUE /\ c.pc \in Awake /\ call'.pc = c.pc
      /\ toPeer' \subseteq Message /\ \A m \in toPeer' : FromClient(m)
  BY Zenon, <1>2, <1>3, <1>4, Committed DEF IInv, Typed
<1>6. CallInv'
  BY Zenon, <1>2, <1>3, <1>5 DEF CallInv
<1> QED
  BY Zenon, <1>4, <1>5, <1>6 DEF IInv, Typed

LEMMA ResumeStep ==
  ASSUME IInv, Resume \/ SpuriousWakeup \/ RtoExpires
  PROVE  IInv'
<1>0. cl \in SockType /\ call \in CallType
  BY Zenon DEF IInv, Typed
<1>1. CASE Resume
  <2>1. CASE StillConnecting(cl)
    <3>1. call' = [call EXCEPT !.pc = "asleep"] /\ UNCHANGED <<cl, peer, toClient, toPeer>>
          /\ call.pc \in Awake /\ call.stuck = FALSE
      BY Zenon, <1>0, <1>1, <2>1 DEF Resume, CallType
    <3>2. call' \in CallType /\ call'.closed = call.closed /\ call'.pc = "asleep" /\ call'.result = call.result
          /\ call'.nonblock = call.nonblock /\ call'.stuck = FALSE
      BY Zenon, <1>0, <3>1 DEF CallType
    <3>3. CallInv'
      BY Zenon, <3>1, <3>2 DEF CallInv, IInv, Awake
    <3> QED
      BY Zenon, <3>1, <3>2, <3>3 DEF IInv, Typed
  <2>2. CASE ~StillConnecting(cl)
    <3>1. call' = [call EXCEPT !.pc = "returned", !.result = cl.err] /\ UNCHANGED <<peer, toClient, toPeer>>
          /\ call.pc \in Awake /\ call.stuck = FALSE
          /\ cl' = IF cl.err = "0" THEN [cl EXCEPT !.sock = "CONNECTED"] ELSE cl
      BY Zenon, <1>0, <1>1, <2>2 DEF Resume, CallType
    <3>2. call' \in CallType /\ call'.closed = call.closed /\ call'.pc = "returned" /\ call'.result = cl.err
          /\ call'.nonblock = call.nonblock /\ call'.stuck = FALSE
      BY Zenon, <1>0, <3>1 DEF CallType, SockType
    <3>3. cl.state # "CLOSE" /\ SockInv(cl, peer, call.closed)
      BY Zenon, <3>1 DEF IInv, CallInv, Awake
    <3>4. cl.state \in {"SYN_SENT", "SYN_RECEIVED", "TIME_WAIT"} => cl.err = "EALREADY"
      BY Zenon, <2>2, <3>3 DEF SockInv, Opening, StillConnecting
    <3>5. cl.state = "ESTABLISHED" => cl.sock = "CONNECTED" /\ cl.err \in {"0", "EISCONN"}
      BY Zenon, <3>3 DEF SockInv, Opened
    <3>6. cl.state = "CLOSING" => cl.err # "0"
      BY Zenon, <3>3 DEF SockInv, Ended
    <3>7. cl.state \in {"SYN_SENT", "SYN_RECEIVED", "TIME_WAIT", "ESTABLISHED", "CLOSING"}
      BY Zenon, <1>0, <3>3 DEF SockType
    <3>8. cl' = cl
      <4>1. CASE cl.err = "0"
        <5>1. cl.sock = "CONNECTED"
          BY Zenon, <3>4, <3>5, <3>6, <3>7, <4>1
        <5>2. cl = [cl EXCEPT !.sock = "CONNECTED"]
          BY Zenon, <1>0, <5>1 DEF SockType
        <5> QED
          BY Zenon, <3>1, <4>1, <5>2
      <4>2. CASE cl.err # "0"
        BY Zenon, <3>1, <4>2
      <4> QED
        BY Zenon, <4>1, <4>2
    <3>9. CallInv'
      <4>1. cl.err # "none"
        BY Zenon, <1>0 DEF SockType, Errors
      <4>2. \/ call'.result = "EALREADY"
            \/ call'.result \in {"0", "EISCONN"} /\ cl'.state = "ESTABLISHED"
            \/ call'.result = cl'.err /\ cl'.state = "CLOSING"
        BY Zenon, <3>2, <3>4, <3>5, <3>7, <3>8
      <4> QED
        BY Zenon, <3>2, <3>3, <3>8, <4>1, <4>2 DEF CallInv
    <3> QED
      BY Zenon, <3>1, <3>2, <3>8, <3>9 DEF IInv, Typed
  <2> QED
    BY Zenon, <2>1, <2>2
<1>2. CASE SpuriousWakeup
  <2>1. call' = [call EXCEPT !.pc = "unasked"] /\ UNCHANGED <<cl, peer, toClient, toPeer>> /\ call.pc = "asleep"
    BY Zenon, <1>2 DEF SpuriousWakeup
  <2>2. call' \in CallType /\ call'.closed = call.closed /\ call'.pc = "unasked" /\ call'.result = call.result
        /\ call'.nonblock = call.nonblock
    BY Zenon, <1>0, <2>1 DEF CallType
  <2>3. CallInv'
    BY Zenon, <2>1, <2>2 DEF CallInv, IInv
  <2> QED
    BY Zenon, <2>1, <2>2, <2>3 DEF IInv, Typed
<1>3. CASE RtoExpires
  <2>1. cl' = [cl EXCEPT !.retransmit = FALSE] /\ call' = [call EXCEPT !.handler = TRUE]
        /\ UNCHANGED <<peer, toClient, toPeer>>
    BY Zenon, <1>3 DEF RtoExpires
  <2>2. call' \in CallType /\ call'.closed = call.closed /\ call'.pc = call.pc /\ call'.result = call.result
        /\ call'.nonblock = call.nonblock /\ call'.stuck = call.stuck
    BY Zenon, <1>0, <2>1 DEF CallType
  <2>3. cl' \in SockType /\ cl'.out = cl.out /\ cl'.wakes = cl.wakes
        /\ cl'.state = cl.state /\ cl'.err = cl.err /\ cl'.snd_una = cl.snd_una /\ cl'.snd_nxt = cl.snd_nxt
        /\ cl'.rcv_nxt = cl.rcv_nxt /\ cl'.sock = cl.sock /\ cl'.fec = cl.fec /\ cl'.fecok = cl.fecok
    BY ZenonT(40), <1>0, <2>1 DEF SockType
  <2>4. CallInv'
    BY SMTT(40), <2>2, <2>3 DEF CallInv, IInv
  <2>5. SockInv(cl', peer, call.closed)
    BY <2>3 DEF IInv, SockInv, Opening, Opened, Ended
  <2> QED
    BY Zenon, <2>1, <2>2, <2>3, <2>4, <2>5 DEF IInv, Typed
<1> QED
  BY Zenon, <1>1, <1>2, <1>3

\* The handler thread of the timer, and close() by another thread.
LEMMA HandlerStep ==
  ASSUME IInv, RtoHandler \/ Close
  PROVE  IInv'
<1>0. cl \in SockType /\ call \in CallType /\ peer \in PeerType /\ Sent(cl)
      /\ SockInv(cl, peer, call.closed) /\ cl.wakes = FALSE
  BY Zenon DEF IInv, Typed, Sent
<1>1. CASE RtoHandler
  <2> DEFINE s == tcp_connect_rto(cl)
             c == [call EXCEPT !.handler = FALSE]
  <2>1. c \in CallType /\ c.closed = call.closed /\ c.pc = call.pc /\ c.result = call.result
        /\ c.nonblock = call.nonblock
    BY Zenon, <1>0 DEF CallType
  <2>2. /\ s \in SockType /\ SockInv(s, peer, call.closed) /\ Sent(s)
        /\ \/ s.state = cl.state /\ s.err = cl.err /\ s.wakes = cl.wakes
           \/ cl.state = "SYN_SENT" /\ s.state = "CLOSING"
    <3>1. call.closed \in BOOLEAN
      BY Zenon, <1>0 DEF CallType
    <3> QED
      BY Zenon, <1>0, <3>1, RtoSound
  <2>3. Commit(s, c) /\ UNCHANGED <<peer, toClient>>
    BY Zenon, <1>1 DEF RtoHandler
  <2> HIDE DEF s, c
  <2>4. /\ cl' \in SockType /\ call' \in CallType
        /\ SockInv(cl', peer, call'.closed) /\ cl'.out = {} /\ cl'.wakes = FALSE
        /\ cl'.state = s.state /\ cl'.err = s.err
        /\ call'.nonblock = c.nonblock /\ call'.result = c.result
        /\ call'.pc = c.pc \/ (c.pc = "asleep" /\ call'.pc = "woken" /\ s.wakes = TRUE)
        /\ call'.stuck = TRUE => s.wakes = TRUE /\ c.pc \in Awake /\ call'.pc = c.pc
        /\ toPeer' \subseteq Message /\ \A m \in toPeer' : FromClient(m)
    BY Zenon, <1>0, <2>1, <2>2, <2>3, Committed DEF IInv
  <2>5. CallInv'
    BY Zenon, <1>0, <2>1, <2>2, <2>4 DEF CallInv, IInv, Awake
  <2> QED
    BY Zenon, <2>3, <2>4, <2>5 DEF IInv, Typed
<1>2. CASE Close
  <2> DEFINE s == tcp_done(cl)
             c == [call EXCEPT !.closed = TRUE]
  <2>1. c \in CallType /\ c.closed = TRUE /\ c.pc = call.pc /\ c.result = call.result
        /\ c.nonblock = call.nonblock
    BY Zenon, <1>0 DEF CallType
  <2>2. s \in SockType /\ s.state = "CLOSING" /\ s.sock = "DISCONNECTING" /\ s.err = cl.err /\ s.out = cl.out
    BY Zenon, <1>0, Done
  <2>3. Commit(s, c) /\ UNCHANGED <<peer, toClient>> /\ cl.state \in {"SYN_SENT", "SYN_RECEIVED"}
    BY Zenon, <1>2 DEF Close
  <2> HIDE DEF s, c
  <2>4. cl.err \in {"EINPROGRESS", "EALREADY"}
    BY Zenon, <1>0, <2>3 DEF SockInv, Opening
  <2>5. SockInv(s, peer, c.closed) /\ Sent(s)
    BY Zenon, <1>0, <2>1, <2>2, <2>4 DEF SockInv, Ended, Sent
  <2>6. /\ cl' \in SockType /\ call' \in CallType
        /\ SockInv(cl', peer, call'.closed) /\ cl'.out = {} /\ cl'.wakes = FALSE
        /\ cl'.state = s.state /\ cl'.err = s.err
        /\ call'.nonblock = c.nonblock /\ call'.result = c.result
        /\ call'.pc = c.pc \/ (c.pc = "asleep" /\ call'.pc = "woken" /\ s.wakes = TRUE)
        /\ call'.stuck = TRUE => s.wakes = TRUE /\ c.pc \in Awake /\ call'.pc = c.pc
        /\ toPeer' \subseteq Message /\ \A m \in toPeer' : FromClient(m)
    BY ZenonT(40), <1>0, <2>1, <2>2, <2>3, <2>5, Committed DEF IInv
  <2>7. CallInv'
    BY Zenon, <2>1, <2>2, <2>3, <2>6 DEF CallInv, IInv, Awake
  <2> QED
    BY Zenon, <2>3, <2>6, <2>7 DEF IInv, Typed
<1> QED
  BY Zenon, <1>1, <1>2

\* A second connect().
LEMMA AgainStep ==
  ASSUME IInv, ConnectAgain
  PROVE  IInv'
<1> DEFINE e == IF cl.sock = "CONNECTED" THEN "EISCONN" ELSE "EALREADY"
           s == [cl EXCEPT !.err = e]
<1>0. cl \in SockType /\ call \in CallType /\ peer \in PeerType /\ Sent(cl)
      /\ SockInv(cl, peer, call.closed) /\ cl.wakes = FALSE
  BY Zenon DEF IInv, Typed, Sent
<1>1. Commit(s, call) /\ UNCHANGED <<peer, toClient>> /\ cl.sock \in {"CONNECTING", "CONNECTED"}
  BY Zenon DEF ConnectAgain
<1>2. cl.state # "CLOSING"
  BY Zenon, <1>0, <1>1 DEF SockInv, Ended
<1>3. e \in Errors /\ (cl.sock = "CONNECTED" => e = "EISCONN") /\ (cl.sock = "CONNECTING" => e = "EALREADY")
  BY Zenon DEF Errors
<1> HIDE DEF e
<1>4. s \in SockType /\ s.err = e /\ s.out = cl.out /\ s.wakes = FALSE
      /\ s.state = cl.state /\ s.snd_una = cl.snd_una /\ s.snd_nxt = cl.snd_nxt
      /\ s.rcv_nxt = cl.rcv_nxt /\ s.sock = cl.sock /\ s.fec = cl.fec /\ s.fecok = cl.fecok
  BY ZenonT(40), <1>0, <1>3 DEF SockType
<1> HIDE DEF s
<1>5. SockInv(s, peer, call.closed) /\ Sent(s)
  BY ZenonT(40), <1>0, <1>2, <1>3, <1>4 DEF SockInv, Opening, Opened, Sent
<1>6. /\ cl' \in SockType /\ call' \in CallType
      /\ SockInv(cl', peer, call'.closed) /\ cl'.out = {} /\ cl'.wakes = FALSE
      /\ cl'.state = s.state /\ cl'.err = s.err
      /\ call'.nonblock = call.nonblock /\ call'.result = call.result
      /\ call'.pc = call.pc \/ (call.pc = "asleep" /\ call'.pc = "woken" /\ s.wakes = TRUE)
      /\ call'.stuck = TRUE => s.wakes = TRUE /\ call.pc \in Awake /\ call'.pc = call.pc
      /\ toPeer' \subseteq Message /\ \A x \in toPeer' : FromClient(x)
  BY Zenon, <1>0, <1>1, <1>4, <1>5, Committed DEF IInv
<1>7. CallInv'
  BY Zenon, <1>2, <1>4, <1>6 DEF CallInv, IInv
<1> QED
  BY Zenon, <1>1, <1>6, <1>7 DEF IInv, Typed

\* A segment reaches the client.
LEMMA SegmentStep ==
  ASSUME IInv, NEW m \in toClient, NEW fails \in BOOLEAN, SegmentArrives(m, fails)
  PROVE  IInv'
<1> DEFINE s == tcp_input_state(cl, m, fails)
<1>0. cl \in SockType /\ call \in CallType /\ peer \in PeerType /\ Sent(cl)
      /\ SockInv(cl, peer, call.closed) /\ m \in Message /\ FromPeer(m, peer) /\ cl.wakes = FALSE
  BY Zenon DEF IInv, Typed, Sent
<1>1. cl.state \in {"SYN_SENT", "SYN_RECEIVED", "ESTABLISHED"} /\ (fails => AllocFails)
      /\ Commit(s, call) /\ UNCHANGED peer /\ toClient' \subseteq toClient
  BY Zenon DEF SegmentArrives
<1>2. call.closed = FALSE
  BY Zenon, <1>0, <1>1 DEF SockInv
<1>3. s \in SockType /\ SockInv(s, peer, FALSE) /\ Sent(s) /\ s.state # "CLOSE"
      /\ WakesAtEnd(s)
      /\ (cl.state = "ESTABLISHED" => s.state = "ESTABLISHED" /\ s.wakes = FALSE)
  <2>1. CASE cl.state = "SYN_SENT"
    <3>1. s = tcp_synsent(cl, m, fails)
      BY Zenon, <2>1 DEF tcp_input_state
    <3>2. s \in SockType /\ SockInv(s, peer, FALSE) /\ Sent(s) /\ s.state # "CLOSE" /\ WakesAtEnd(s)
      BY Zenon, <1>0, <1>1, <1>2, <2>1, <3>1, SynsentSound
    <3> QED
      BY Zenon, <2>1, <3>2
  <2>2. CASE cl.state \in {"SYN_RECEIVED", "ESTABLISHED"}
    <3>1. /\ s \in SockType /\ SockInv(s, peer, FALSE) /\ Sent(s) /\ s.wakes = cl.wakes
          /\ \/ s.state = cl.state /\ s.err = cl.err
             \/ cl.state = "SYN_RECEIVED" /\ s.state = "TIME_WAIT"
      BY ZenonT(40), <1>0, <1>2, <2>2, LaterSound
    <3> HIDE DEF s
    <3> QED
      BY Zenon, <1>0, <2>2, <3>1 DEF WakesAtEnd
  <2> QED
    BY Zenon, <1>1, <2>1, <2>2
<1> HIDE DEF s
<1>4. /\ cl' \in SockType /\ call' \in CallType
      /\ SockInv(cl', peer, call'.closed) /\ cl'.out = {} /\ cl'.wakes = FALSE
      /\ cl'.state = s.state /\ cl'.err = s.err
      /\ call'.nonblock = call.nonblock /\ call'.result = call.result
      /\ call'.pc = call.pc \/ (call.pc = "asleep" /\ call'.pc = "woken" /\ s.wakes = TRUE)
      /\ call'.stuck = TRUE => s.wakes = TRUE /\ call.pc \in Awake /\ call'.pc = call.pc
      /\ toPeer' \subseteq Message /\ \A x \in toPeer' : FromClient(x)
  BY Zenon, <1>0, <1>1, <1>2, <1>3, Committed DEF IInv
<1>5. CallInv'
  BY Zenon, <1>1, <1>3, <1>4 DEF CallInv, IInv, Awake, WakesAtEnd
<1> QED
  BY Zenon, <1>1, <1>4, <1>5 DEF IInv, Typed

\* The external peer and the network.
LEMMA PeerStep ==
  ASSUME IInv, PeerReceive \/ PeerRetransmits \/ Lose
  PROVE  IInv'
<1> USE ConnectAssumption
<1>0. cl \in SockType /\ call \in CallType /\ peer \in PeerType
  BY Zenon DEF IInv, Typed
<1>1. ASSUME NEW q \in PeerType, Onward(peer, q), Knows(q) => q.fec = q.speaks, peer' = q,
             cl' = cl, call' = call, toPeer' \subseteq toPeer,
             \A m \in toClient' : m \in toClient \/ (m \in Message /\ FromPeer(m, q))
      PROVE  IInv'
  <2>1. SockInv(cl, q, call.closed)
    BY Zenon, <1>0, <1>1, PeerOnward DEF IInv
  <2>2. \A m \in toClient : FromPeer(m, q)
    BY Zenon, <1>0, <1>1, SegmentOnward DEF IInv
  <2> QED
    BY Zenon, <1>0, <1>1, <2>1, <2>2 DEF IInv, Typed, CallInv
<1>2. Onward(peer, peer)
  BY Zenon DEF Onward
<1>3. (Knows(peer) => peer.fec = peer.speaks) /\ \A m \in toPeer : m \in Message /\ FromClient(m)
  BY Zenon DEF IInv, Typed
<1>4. ASSUME NEW m \in toPeer, PeerHearsSyn(m) PROVE IInv'
  <2>1. m.seq = 0 /\ m.fec = TRUE
    BY Zenon, <1>3, <1>4 DEF PeerHearsSyn, FromClient
  <2>2. CASE /\ peer.state \in {"LISTEN", "SYN_SENT", "SYN_RECEIVED"}
             /\ peer' = [peer EXCEPT !.state = "SYN_RECEIVED", !.fec = m.fec /\ peer.speaks]
             /\ PeerReply({SynAck(m.fec /\ peer.speaks)}, m)
    <3> DEFINE q == [peer EXCEPT !.state = "SYN_RECEIVED", !.fec = peer.speaks]
    <3>1. (m.fec /\ peer.speaks) = peer.speaks
      BY Zenon, <1>0, <2>1 DEF PeerType
    <3>2. peer' = q /\ PeerReply({SynAck(peer.speaks)}, m)
      BY Zenon, <2>2, <3>1
    <3>3. q \in PeerType /\ q.speaks = peer.speaks /\ q.fec = peer.speaks /\ q.state = "SYN_RECEIVED"
      BY Zenon, <1>0 DEF PeerType
    <3>4. SynAck(peer.speaks) \in Message
      BY <1>0 DEF SynAck, Ctl, Message, Flags, PeerType
    <3>5. FromPeer(SynAck(peer.speaks), q)
      BY Zenon, <3>3 DEF FromPeer, Knows
    <3>6. Onward(peer, q)
      BY Zenon, <2>2, <3>3 DEF Onward, Knows
    <3> HIDE DEF q
    <3>7. toClient' \subseteq toClient \union {SynAck(peer.speaks)} /\ toPeer' \subseteq toPeer
          /\ cl' = cl /\ call' = call
      BY Zenon, <3>2 DEF PeerReply
    <3> QED
      BY Zenon, <1>1, <3>2, <3>3, <3>4, <3>5, <3>6, <3>7
  <2>3. CASE /\ peer.state = "CLOSED" /\ PeerReply({Ctl({"RST", "ACK"}, 0, m.seq + 1, FALSE)}, m)
             /\ UNCHANGED peer
    <3> DEFINE r == Ctl({"RST", "ACK"}, 0, m.seq + 1, FALSE)
    <3>1. r = Ctl({"RST", "ACK"}, 0, 1, FALSE)
      BY <2>1
    <3>2. r \in Message /\ FromPeer(r, peer)
      BY <2>3, <3>1 DEF FromPeer, Ctl, Message, Flags
    <3> HIDE DEF r
    <3>3. toClient' \subseteq toClient \union {r} /\ toPeer' \subseteq toPeer /\ cl' = cl /\ call' = call
      BY Zenon, <2>3 DEF PeerReply, r
    <3> QED
      BY Zenon, <1>0, <1>1, <1>2, <1>3, <2>3, <3>2, <3>3
  <2>4. CASE /\ peer.state = "ESTABLISHED" /\ PeerReply({Ctl({"ACK"}, PeerIss + 1, 1, FALSE)}, m)
             /\ UNCHANGED peer
    <3> DEFINE r == Ctl({"ACK"}, PeerIss + 1, 1, FALSE)
    <3>2. r \in Message /\ FromPeer(r, peer)
      BY DEF FromPeer, Ctl, Message, Flags
    <3>3. toClient' \subseteq toClient \union {r} /\ toPeer' \subseteq toPeer /\ cl' = cl /\ call' = call
      BY Zenon, <2>4 DEF PeerReply
    <3> HIDE DEF r
    <3> QED
      BY Zenon, <1>0, <1>1, <1>2, <1>3, <2>4, <3>2, <3>3
  <2> QED
    BY Zenon, <1>4, <2>2, <2>3, <2>4 DEF PeerHearsSyn
<1>5. ASSUME NEW m \in toPeer, PeerHearsAck(m) PROVE IInv'
  <2>1. toClient' \subseteq toClient /\ toPeer' \subseteq toPeer /\ cl' = cl /\ call' = call
    BY Zenon, <1>5 DEF PeerHearsAck, PeerReply
  <2>2. CASE peer.state = "SYN_RECEIVED" /\ m.ack = PeerIss + 1
    <3> DEFINE q == [peer EXCEPT !.state = "ESTABLISHED"]
    <3>1. peer' = q
      BY Zenon, <1>5, <2>2 DEF PeerHearsAck
    <3>2. q \in PeerType /\ q.speaks = peer.speaks /\ q.fec = peer.fec /\ q.state = "ESTABLISHED"
      BY Zenon, <1>0 DEF PeerType
    <3>3. Onward(peer, q) /\ (Knows(q) => q.fec = q.speaks)
      BY Zenon, <1>3, <2>2, <3>2 DEF Onward, Knows
    <3> HIDE DEF q
    <3> QED
      BY Zenon, <1>1, <2>1, <3>1, <3>2, <3>3
  <2>3. CASE ~(peer.state = "SYN_RECEIVED" /\ m.ack = PeerIss + 1)
    <3>1. peer' = peer
      BY Zenon, <1>5, <2>3 DEF PeerHearsAck
    <3> QED
      BY Zenon, <1>0, <1>1, <1>2, <1>3, <2>1, <3>1
  <2> QED
    BY Zenon, <2>2, <2>3
<1>6. CASE PeerRetransmits
  <2>1. /\ peer.state = "SYN_RECEIVED" /\ toClient' = toClient \union {SynAck(peer.fec)}
        /\ cl' = cl /\ call' = call /\ peer' = peer /\ toPeer' = toPeer
    BY Zenon, <1>6 DEF PeerRetransmits
  <2>2. peer.fec = peer.speaks /\ Knows(peer)
    BY Zenon, <1>3, <2>1 DEF Knows
  <2>3. SynAck(peer.fec) \in Message /\ FromPeer(SynAck(peer.fec), peer)
    <3>1. SynAck(peer.speaks) \in Message
      BY <1>0 DEF SynAck, Ctl, Message, Flags, PeerType
    <3> QED
      BY Zenon, <2>2, <3>1 DEF FromPeer
  <2> QED
    BY Zenon, <1>0, <1>1, <1>2, <1>3, <2>1, <2>3
<1>7. CASE Lose
  <2>1. toClient' \subseteq toClient /\ toPeer' \subseteq toPeer /\ cl' = cl /\ call' = call /\ peer' = peer
    BY Zenon, <1>7 DEF Lose
  <2> QED
    BY Zenon, <1>0, <1>1, <1>2, <1>3, <2>1
<1> QED
  BY Zenon, <1>4, <1>5, <1>6, <1>7 DEF PeerReceive

------------------------------------------------------------------------------
\* Every step keeps the invariant.
LEMMA NextConnect ==
  IInv /\ [Next]_vars => IInv'
<1> SUFFICES ASSUME IInv, [Next]_vars PROVE IInv'
  BY Zenon
<1>1. CASE \E nonblock \in BOOLEAN : Connect(nonblock)
  BY Zenon, <1>1, ConnectStep
<1>2. CASE Resume \/ SpuriousWakeup \/ RtoExpires
  BY Zenon, <1>2, ResumeStep
<1>3. CASE RtoHandler \/ Close
  BY Zenon, <1>3, HandlerStep
<1>4. CASE Receive
  BY Zenon, <1>4, SegmentStep DEF Receive
<1>5. CASE PeerReceive \/ PeerRetransmits \/ Lose
  BY Zenon, <1>5, PeerStep
<1>6. CASE ConnectAgain
  BY Zenon, <1>6, AgainStep
<1>7. CASE UNCHANGED vars
  <2>1. cl' = cl /\ call' = call /\ peer' = peer /\ toClient' = toClient /\ toPeer' = toPeer
    BY Zenon, <1>7 DEF vars
  <2> QED
    BY Zenon, <2>1 DEF IInv, Typed, CallInv
<1> QED
  BY Zenon, <1>1, <1>2, <1>3, <1>4, <1>5, <1>6, <1>7 DEF Next

\* The states of tcp_synsent, tcp_connect_rto, tcp_close and inet_stream_connect mean what
\* IInv says they mean.
THEOREM ConnectInvariant == Spec => []IInv
<1>1. Spec => Init /\ [][Next]_vars
  BY Zenon DEF Spec
<1> QED
  BY <1>1, InitConnect, NextConnect, PTL

\* An ESTABLISHED client has a peer that has seen its SYN, and both count from the same
\* numbers: tcp_synsent believes no old and no repeated segment.
THEOREM ConnectPeerKnowsUs == Spec => []PeerKnowsUs
<1>1. IInv => PeerKnowsUs
  BY Zenon DEF IInv, SockInv, Opened, Knows, PeerKnowsUs
<1> QED
  BY <1>1, ConnectInvariant, PTL

\* What inet_stream_connect returns is what happened to the connection.
THEOREM ConnectIsTruthful == Spec => []ConnectTruthful
<1>1. IInv => ConnectTruthful
  <2> SUFFICES ASSUME IInv PROVE ConnectTruthful
    BY Zenon
  <2>1. call \in CallType
    BY Zenon DEF IInv, Typed
  <2>2. call.result # "none" => call.pc = "returned"
    BY Zenon DEF IInv, CallInv
  <2>3. CASE call.result \in {"0", "EISCONN"}
    <3>1. call.result = cl.err /\ cl.state = "CLOSING" => FALSE
      BY Zenon, <2>3 DEF IInv, SockInv, Ended
    <3>2. cl.state = "ESTABLISHED"
      BY Zenon, <2>2, <2>3, <3>1 DEF IInv, CallInv
    <3>3. Knows(peer)
      BY Zenon, <3>2 DEF IInv, SockInv, Opened
    <3> QED
      BY Zenon, <2>3, <3>2, <3>3 DEF ConnectTruthful, Knows
  <2>4. CASE call.result = "ECONNREFUSED"
    <3>1. cl.err = "ECONNREFUSED" /\ cl.state = "CLOSING"
      BY Zenon, <2>2, <2>4 DEF IInv, CallInv
    <3>2. peer.state = "CLOSED"
      BY Zenon, <3>1 DEF IInv, SockInv, Ended
    <3> QED
      BY Zenon, <2>4, <3>1, <3>2 DEF ConnectTruthful
  <2>5. CASE call.result = "ETIMEDOUT"
    <3>1. cl.err = "ETIMEDOUT" /\ cl.state = "CLOSING"
      BY Zenon, <2>2, <2>5 DEF IInv, CallInv
    <3>2. call.closed = FALSE
      BY Zenon, <3>1 DEF IInv, SockInv, Ended
    <3> QED
      BY Zenon, <2>5, <3>1, <3>2 DEF ConnectTruthful
  <2>6. CASE call.result = "EINPROGRESS"
    <3>1. call.nonblock = TRUE \/ (cl.err = "EINPROGRESS" /\ cl.state = "CLOSING")
      BY Zenon, <2>2, <2>6 DEF IInv, CallInv
    <3>2. call.nonblock = TRUE \/ call.closed = TRUE
      BY Zenon, <3>1 DEF IInv, SockInv, Ended
    <3> QED
      BY Zenon, <2>6, <3>2 DEF ConnectTruthful
  <2>7. CASE call.result = "none"
    <3>1. call.pc # "returned"
      BY Zenon, <2>7 DEF IInv, CallInv
    <3> QED
      BY Zenon, <2>7, <3>1 DEF ConnectTruthful
  <2>8. CASE call.result = "EALREADY"
    BY Zenon, <2>8 DEF ConnectTruthful
  <2> QED
    BY Zenon, <2>1, <2>3, <2>4, <2>5, <2>6, <2>7, <2>8 DEF CallType, Errors
<1> QED
  BY <1>1, ConnectInvariant, PTL

\* A handler never gets stuck in wait_wakeup because another one has woken connect() before
\* it: tcp_synsent, tcp_connect_rto and tcp_close wake it from SYN_SENT or SYN_RECEIVED and
\* leave these states, to which no handler returns.
THEOREM ConnectWokenOnce == Spec => []WokenOnce
<1>1. IInv => WokenOnce
  BY Zenon DEF IInv, Typed, CallType, CallInv, WokenOnce
<1> QED
  BY <1>1, ConnectInvariant, PTL

\* FEC engages at both ends or at neither, as long as tcp_fec_enable finds the memory for the
\* codec: the fallback when it does not is not announced to a peer that has already agreed.
THEOREM ConnectFecAgreed ==
  ASSUME ~AllocFails PROVE Spec => []FecBothOrNeither
<1>1. IInv => FecBothOrNeither
  BY Zenon DEF IInv, SockInv, Opened, Knows, FecBothOrNeither
<1> QED
  BY <1>1, ConnectInvariant, PTL
===============================================================================
