------------------------------- MODULE TcpRead -------------------------------
(***************************************************************************)
(* An application thread in read() and the threads that fill its receive   *)
(* queue: tcp_read, tcp_receive and tcp_data_dequeue against the in-order  *)
(* part of tcp_data_queue, what tcp_input_state does with a FIN, a RST and *)
(* the segments after them, and the timers that end a connection.          *)
(*                                                                         *)
(* rcv is what the socket lock protects.  An skb of the receive queue is   *)
(* its length and its PSH bit; TcpReassembly models which bytes it holds.  *)
(* Sleeping and waking: tcp_receive takes recv_wait.lock before it unlocks *)
(* the socket, so a wake-up finds the thread asleep or not yet asleep with *)
(* the socket still locked; "woken" waits for the socket lock.             *)
(***************************************************************************)
EXTENDS Integers, Sequences, FiniteSets

CONSTANTS
  SkbSizes,      \* payload lengths of a segment
  ReadSizes,     \* lengths the application asks for
  MaxBytes,      \* bound: bytes that arrive in all
  NonBlock,      \* O_NONBLOCK may be set: a set of Booleans
  Rebuilt        \* FEC may rebuild a segment (tcp_fec_splice): a set of Booleans

VARIABLES
  rcv,        \* state, queue, psh, fin, pollin of the socket
  reader,     \* the thread: pc, want, rlen
  arrived,    \* bytes queued so far
  pushed,     \* bytes up to the last one its sender pushed
  got         \* bytes returned by reads so far

vars == <<rcv, reader, arrived, pushed, got>>

\* The bytes in a queue.
Size(q) == LET upto[i \in 0..Len(q)] == IF i = 0 THEN 0 ELSE upto[i - 1] + q[i].dlen IN upto[Len(q)]

Init ==
  /\ rcv = [state |-> "ESTABLISHED", queue |-> <<>>, psh |-> FALSE, fin |-> FALSE, pollin |-> FALSE]
  /\ reader = [pc |-> "idle", want |-> 0, rlen |-> 0]
  /\ arrived = 0 /\ pushed = 0 /\ got = 0

------------------------------------------------------------------------------
\* tcp_data_dequeue: skbs are eaten from the head until the buffer is full.
\* A fully eaten skb leaves its PSH bit in the socket's flags.

\* How many skbs are fully eaten.
Eaten(q, room) == Cardinality({i \in DOMAIN q : Size(SubSeq(q, 1, i)) <= room})

\* Mutant: what is left of a partly read skb is dropped.
Rest_Whole(q, room) ==
  LET n == Eaten(q, room) IN SubSeq(q, IF Size(SubSeq(q, 1, n)) < room THEN n + 2 ELSE n + 1, Len(q))

\* What stays in the queue; the rest of the buffer came out of the first skb.
Rest(q, room) ==
  LET n == Eaten(q, room)
      rest == SubSeq(q, n + 1, Len(q))
  IN  IF rest = <<>> THEN rest ELSE [rest EXCEPT ![1].dlen = @ - (room - Size(SubSeq(q, 1, n)))]

\* Mutant: an emptied queue clears POLLIN although a FIN waits.
Pollin_IgnoresFin(r, rest) == r.pollin /\ rest # <<>>

Pollin(r, rest) == r.pollin /\ (rest # <<>> \/ r.fin)

tcp_data_dequeue(r, room) ==
  [r EXCEPT !.queue = Rest(r.queue, room),
            !.psh = @ \/ \E i \in 1..Eaten(r.queue, room) : r.queue[i].psh,
            !.pollin = Pollin(r, Rest(r.queue, room))]

------------------------------------------------------------------------------
\* One turn of the loop in tcp_receive, from the lock to the return or the
\* sleep, with rlen bytes read in earlier turns.

Returns(r, bytes) ==
  /\ rcv' = r
  /\ reader' = [reader EXCEPT !.pc = "idle", !.rlen = 0, !.want = 0]
  /\ got' = got + bytes
  /\ UNCHANGED <<arrived, pushed>>

Sleeps(r, want, rlen) ==
  /\ rcv' = r
  /\ reader' = [reader EXCEPT !.pc = "asleep", !.want = want, !.rlen = rlen]
  /\ UNCHANGED <<arrived, pushed, got>>

\* Why a turn is the last one.  -EAGAIN is a return of no bytes.
LastTurn(r, want, rlen, nonblock) == r.psh \/ r.fin \/ rlen = want \/ nonblock

Turn(want, rlen, nonblock) ==
  LET r == tcp_data_dequeue(rcv, want - rlen)
      total == IF Size(rcv.queue) < want - rlen THEN rlen + Size(rcv.queue) ELSE want
  IN  IF LastTurn(r, want, total, nonblock)
      THEN Returns([r EXCEPT !.psh = FALSE], total)
      ELSE Sleeps(r, want, total)

\* tcp_read.  In CLOSE_WAIT the FIN is reported once; after the connection is
\* gone sk->err is.
Read(want, nonblock) ==
  /\ reader.pc = "idle"
  /\ CASE rcv.state = "CLOSE_WAIT" /\ rcv.queue = <<>> /\ rcv.fin ->
            Returns([rcv EXCEPT !.fin = FALSE], 0)
       [] rcv.state \in {"CLOSING", "TIME_WAIT"} -> Returns(rcv, 0)
       [] OTHER -> Turn(want, 0, nonblock)

\* Only a read that blocks has slept.
Resume == reader.pc = "woken" /\ Turn(reader.want, reader.rlen, FALSE)

------------------------------------------------------------------------------
\* The other threads.

\* Mutant: new data does not wake the reader.
tcp_recv_notify_Lost == reader

tcp_recv_notify == [reader EXCEPT !.pc = IF @ = "asleep" THEN "woken" ELSE @]

\* tcp_data_queue, an expected segment: it and the out-of-order segments it
\* joins go to the receive queue.  A segment rebuilt by FEC has lost its PSH.
DataArrives(skbs, rebuilt) ==
  LET last == arrived + Size(skbs)
  IN  /\ rcv.state = "ESTABLISHED" /\ last <= MaxBytes
      /\ rcv' = [rcv EXCEPT !.pollin = TRUE,
                            !.queue = @ \o (IF rebuilt THEN [skbs EXCEPT ![1].psh = FALSE] ELSE skbs)]
      /\ reader' = tcp_recv_notify
      /\ arrived' = last
      /\ pushed' = IF skbs[Len(skbs)].psh THEN last
                   ELSE IF Head(skbs).psh THEN arrived + Head(skbs).dlen ELSE pushed
      /\ UNCHANGED got

\* What a segment in sequence does in the closing states when the write queue is
\* empty: in TIME_WAIT any one is taken for the peer's FIN.
FinAcked(r) ==
  CASE r.state = "CLOSING" -> [r EXCEPT !.state = "TIME_WAIT"]
    [] r.state = "TIME_WAIT" -> [r EXCEPT !.fin = TRUE]
    [] OTHER -> r

\* A segment in sequence without FIN, after a reset or a timeout: its text is ignored
\* and nobody is told of it.
LateSegment ==
  /\ rcv.state \in {"CLOSING", "TIME_WAIT"}
  /\ rcv' = FinAcked(rcv)
  /\ UNCHANGED <<reader, arrived, pushed, got>>

\* An in-sequence FIN, in any state; empty: so is the write queue.
FinArrives(empty) ==
  LET r == IF empty THEN FinAcked(rcv) ELSE rcv
  IN  /\ rcv' = [r EXCEPT !.state = IF @ = "ESTABLISHED" THEN "CLOSE_WAIT" ELSE @,
                          !.fin = TRUE, !.pollin = TRUE]
      /\ reader' = tcp_recv_notify
      /\ UNCHANGED <<arrived, pushed, got>>

\* An acceptable RST, in any state: TIME_WAIT, and the reader is woken.
ResetArrives ==
  /\ rcv' = [rcv EXCEPT !.state = "TIME_WAIT"]
  /\ reader' = tcp_recv_notify
  /\ UNCHANGED <<arrived, pushed, got>>

\* tsk->linger expires: tcp_user_timeout or, in TIME_WAIT, tcp_linger.  tcp_done
\* does not wake the reader.
LingerExpires ==
  /\ rcv.state # "CLOSING"
  /\ rcv' = [rcv EXCEPT !.state = "CLOSING"]
  /\ UNCHANGED <<reader, arrived, pushed, got>>

\* pthread_cond_wait may return without a signal.
SpuriousWakeup ==
  /\ reader.pc = "asleep"
  /\ reader' = [reader EXCEPT !.pc = "woken"]
  /\ UNCHANGED <<rcv, arrived, pushed, got>>

Skbs == [dlen: SkbSizes, psh: BOOLEAN]

\* At most two skbs become deliverable at a time.
Batches == {<<s>> : s \in Skbs} \union {<<s, t>> : s, t \in Skbs}

Next ==
  \/ \E want \in ReadSizes, nonblock \in NonBlock : Read(want, nonblock)
  \/ Resume \/ SpuriousWakeup
  \/ \E skbs \in Batches, rebuilt \in Rebuilt : DataArrives(skbs, rebuilt)
  \/ \E empty \in BOOLEAN : FinArrives(empty)
  \/ LateSegment \/ ResetArrives \/ LingerExpires

Spec == Init /\ [][Next]_vars

\* A woken thread gets the socket lock.
Fairness == WF_vars(Resume)

------------------------------------------------------------------------------
\* Properties.

TypeOK ==
  /\ rcv.state \in {"ESTABLISHED", "CLOSE_WAIT", "TIME_WAIT", "CLOSING"}
  /\ \A i \in DOMAIN rcv.queue : rcv.queue[i].dlen \in Nat /\ rcv.queue[i].psh \in BOOLEAN
  /\ {rcv.psh, rcv.fin, rcv.pollin} \subseteq BOOLEAN
  /\ reader.pc \in {"idle", "asleep", "woken"} /\ reader.rlen \in 0..reader.want
  /\ got \in 0..MaxBytes /\ pushed \in 0..arrived

\* Every byte queued is returned by some read, waits in the queue, or was read
\* by a turn of the read that now sleeps: reads neither lose nor repeat bytes,
\* however segments, wake-ups and short buffers fall.
ReadsAreExact ==
  got + reader.rlen + Size(rcv.queue) = arrived

\* Poll sees what read would return: POLLIN is set while data waits, or an unreported
\* FIN in a state in which tcp_read looks at it, also after a read that emptied the queue.
PollSeesData ==
  rcv.queue # <<>> \/ (rcv.fin /\ rcv.state \in {"ESTABLISHED", "CLOSE_WAIT"}) => rcv.pollin

\* A read does not sleep on what its sender pushed: while bytes up to a PSH are
\* not returned, no pending read stays pending.  Likewise once a FIN has arrived
\* and poll reports it, in whatever state it found the connection.
PushedDataReturned ==
  []<>(got < pushed \/ (rcv.fin /\ rcv.pollin) => reader.pc = "idle")

\* Not so: a read does not sleep once TCP_FIN is set.  After a reset a segment in
\* sequence sets it without POLLIN and without a wake-up (tcp_input_state).
FinEndsSleep == ~(rcv.fin /\ reader.pc = "asleep")

\* Not so: in CLOSE_WAIT with no text left a read gets an answer at once, as the
\* comment in tcp_read says; it never sleeps.
NoTextNoSleep ==
  ~(rcv.state = "CLOSE_WAIT" /\ rcv.queue = <<>> /\ reader.pc = "asleep")
==============================================================================
