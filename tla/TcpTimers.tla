------------------------------- MODULE TcpTimers -------------------------------
(***************************************************************************)
(* The timer list (timer.c) and the timers of one connection: delayed ACK, *)
(* retransmission and user timeout or 2 MSL (tsk->delack, retransmit and   *)
(* linger), and the collector's, which nobody points to.                   *)
(*                                                                         *)
(* The timers' thread walks the list under its lock and tries the lock of  *)
(* each timer; a timer that expires starts a thread that waits for the     *)
(* socket.  timer_add waits for the walk to end.  Owners of a timer take   *)
(* only its own lock, so they act in the middle of a walk too.  Of the     *)
(* order of the list nothing depends, and the walk takes any.              *)
(***************************************************************************)
EXTENDS Integers

CONSTANTS
  MaxTimers,      \* bound on the timers ever allocated
  Step,           \* what timers_start adds to the tick
  FirstTick,      \* how long the stack has been running
  Modulus,        \* 2^32, where expires wraps
  DelAck, Rtos, Linger, Collect,     \* the durations
  Kinds           \* kinds of segments that arrive in sequence

ASSUME TimersAssumption ==
  /\ MaxTimers \in Nat /\ {Step, Modulus} \subseteq Nat \ {0}
  /\ {FirstTick, DelAck, Linger, Collect} \subseteq Nat /\ Rtos \subseteq Nat
  /\ Kinds \subseteq {"ack", "small", "big", "psh"}

NULL == 0
Pool == 1..MaxTimers

VARIABLES
  tick,
  tm,         \* each struct timer
  todo,       \* the timers the walk has still to visit
  sk,         \* the connection: its pointers, and what it owes the peer
  threads     \* timers whose handler waits for the socket's lock

vars == <<tick, tm, todo, sk, threads>>

Unused == [state |-> "unused", handler |-> "none", refcnt |-> 0, expires |-> 0, cancelled |-> FALSE,
           busy |-> FALSE]

Init ==
  /\ tick = FirstTick /\ tm = [t \in Pool |-> Unused] /\ todo = {} /\ threads = {}
  /\ sk = [state |-> "open", delack |-> NULL, retransmit |-> NULL, linger |-> NULL, delacks |-> 0,
           unacked |-> FALSE, since |-> 0, stopped |-> FALSE, deleted |-> FALSE]

------------------------------------------------------------------------------
\* timer.c, on the function tm.

Listed == {t \in Pool : tm[t].state = "listed"}

\* timer_add and, with refs = 0, timer_oneshot: seen is the tick read before
\* the lock of the list is taken.  The sum is kept whole here and wraps where
\* it is compared.
timer_add(f, t, refs, handler, seen, expire) ==
  [f EXCEPT ![t] = [state |-> "listed", handler |-> handler, refcnt |-> refs,
                    expires |-> seen + expire, cancelled |-> FALSE, busy |-> FALSE]]

timer_release(f, p) == IF p = NULL THEN f ELSE [f EXCEPT ![p].refcnt = @ - 1]

\* Mutant: the reference is kept.
timer_cancel_KeepsRef(f, p) == IF p = NULL THEN f ELSE [f EXCEPT ![p].cancelled = TRUE]

timer_cancel(f, p) ==
  IF p = NULL THEN f ELSE [f EXCEPT ![p].refcnt = @ - 1, ![p].cancelled = TRUE]

\* timers_start: the next tick, and timers_tick begins.  Only durations matter,
\* so the tick stands still while no timer runs.
Tick ==
  /\ todo = {}
  /\ tick' = IF \E t \in Listed : ~tm[t].cancelled THEN tick + Step ELSE tick
  /\ todo' = Listed
  /\ UNCHANGED <<tm, sk, threads>>

\* Mutant: a timer expires at the tick it was set to.
Expired_OnTheTick(t) == ~tm[t].cancelled /\ tm[t].expires % Modulus <= tick % Modulus

Expired(t) == ~tm[t].cancelled /\ tm[t].expires % Modulus < tick % Modulus

\* Mutant: a timer that has fired is freed although its owner points to it.
Freed_AtOnce(t) == tm[t].cancelled \/ Expired(t)

Freed(t) == (tm[t].cancelled \/ Expired(t)) /\ tm[t].refcnt = 0

\* timers_tick, one timer.
Visit(t) ==
  /\ t \in todo /\ todo' = todo \ {t}
  /\ tm' = [tm EXCEPT ![t].cancelled = @ \/ Expired(t),
                      ![t].state = IF Freed(t) THEN "freed" ELSE @,
                      ![t].expires = IF Freed(t) THEN 0 ELSE @,
                      ![t].busy = IF Freed(t) THEN FALSE ELSE @]
  /\ threads' = IF Expired(t) THEN threads \union {t} ELSE threads
  /\ UNCHANGED <<tick, sk>>

\* Its owner, which gives it up under the timer's lock once, has that lock just
\* now (EBUSY).
Skip(t) ==
  /\ t \in todo /\ t \in {sk.delack, sk.retransmit, sk.linger} /\ ~tm[t].busy
  /\ todo' = todo \ {t} /\ tm' = [tm EXCEPT ![t].busy = TRUE]
  /\ UNCHANGED <<tick, sk, threads>>

------------------------------------------------------------------------------
\* The connection, with the socket's lock.

\* The next timer to be allocated, when the list is not being walked; the last
\* one is kept for the collector.
Unallocated == {t \in Pool : tm[t].state = "unused"}
Fresh(t) == todo = {} /\ t \in Unallocated /\ \A u \in Unallocated : t <= u
CanAdd(t) == Fresh(t) /\ (sk.deleted \/ Unallocated # {t})

\* The tick that timer_add has read: a walk may come before it has the list.
Seen == {n \in {tick, tick - Step} : n >= FirstTick}

\* tcp_release_rto_timer, then a new timer.
Rearm(f, t, seen, rto) == timer_add(timer_release(f, sk.retransmit), t, 1, "rto", seen, rto)

\* tcp_input_state, "Congestion control and delacks", for a segment in sequence
\* (state "open": ESTABLISHED, FIN_WAIT_1 and FIN_WAIT_2).  The acknowledgment
\* goes with the next segments of the write queue, or at once, or after a delay.
Delacks(kind) == IF kind = "big" THEN sk.delacks + 1 ELSE sk.delacks

\* tcp_send_ack, or text with an acknowledgment.  (since and stopped are not in
\* the code.)
Acked == [sk EXCEPT !.unacked = FALSE, !.since = 0, !.stopped = FALSE]

SendsNext(t, seen, rto) ==
  /\ sk.state = "open" /\ CanAdd(t)
  /\ tm' = Rearm(timer_cancel(tm, sk.delack), t, seen, rto)
  /\ sk' = [Acked EXCEPT !.delack = NULL, !.retransmit = t]
  /\ UNCHANGED <<tick, todo, threads>>

AcksAtOnce(kind) ==
  /\ sk.state = "open" /\ (kind = "psh" \/ Delacks(kind) > 1)
  /\ tm' = timer_cancel(tm, sk.delack)
  /\ sk' = [Acked EXCEPT !.delack = NULL, !.delacks = 0]
  /\ UNCHANGED <<tick, todo, threads>>

\* Mutant: a delay that has begun is not begun again.
DelaysAck_Once(kind, t, seen) ==
  /\ sk.state = "open" /\ CanAdd(t)
  /\ kind \in {"small", "big"} /\ Delacks(kind) <= 1
  /\ tm' = IF sk.delack = NULL THEN timer_add(tm, t, 1, "delack", seen, DelAck)
           ELSE timer_cancel(tm, sk.delack)
  /\ sk' = [sk EXCEPT !.delack = IF @ = NULL THEN t ELSE NULL, !.delacks = Delacks(kind),
                      !.unacked = TRUE, !.stopped = FALSE, !.since = IF sk.unacked THEN @ ELSE tick]
  /\ UNCHANGED <<tick, todo, threads>>

DelaysAck(kind, t, seen) ==
  /\ sk.state = "open" /\ CanAdd(t)
  /\ kind \in {"small", "big"} /\ Delacks(kind) <= 1
  /\ tm' = timer_add(timer_cancel(tm, sk.delack), t, 1, "delack", seen, DelAck)
  /\ sk' = [sk EXCEPT !.delack = t, !.delacks = Delacks(kind), !.unacked = TRUE, !.stopped = FALSE,
                      !.since = IF sk.unacked THEN @ ELSE tick]
  /\ UNCHANGED <<tick, todo, threads>>

\* Neither text nor anything to send: the delayed ACK is stopped all the same.
StopsDelAck(kind) ==
  /\ sk.state = "open" /\ kind = "ack"
  /\ tm' = timer_cancel(tm, sk.delack)
  /\ sk' = [sk EXCEPT !.delack = NULL, !.stopped = sk.unacked]
  /\ UNCHANGED <<tick, todo, threads>>

\* A segment out of sequence or not acceptable, and a FIN, are acknowledged
\* without a look at the timer.
AcksOther ==
  /\ sk.state = "open"
  /\ \E state \in {"open", "close_wait"} : sk' = [Acked EXCEPT !.state = state]
  /\ UNCHANGED <<tick, tm, todo, threads>>

\* What is sent into an empty queue.
tcp_rearm_rto_timer(t, seen, rto) ==
  /\ sk.state \in {"open", "close_wait"} /\ CanAdd(t)
  /\ tm' = Rearm(tm, t, seen, rto) /\ sk' = [sk EXCEPT !.retransmit = t]
  /\ UNCHANGED <<tick, todo, threads>>

tcp_stop_rto_timer ==
  /\ sk.retransmit # NULL
  /\ tm' = timer_cancel(tm, sk.retransmit) /\ sk' = [sk EXCEPT !.retransmit = NULL]
  /\ UNCHANGED <<tick, todo, threads>>

tcp_rearm_user_timeout(t, seen) ==
  /\ sk.state # "time_wait" /\ CanAdd(t)
  /\ tm' = timer_add(timer_cancel(tm, sk.linger), t, 1, "linger", seen, Linger)
  /\ sk' = [sk EXCEPT !.linger = t]
  /\ UNCHANGED <<tick, todo, threads>>

tcp_clear_timers(f) == timer_cancel(timer_cancel(timer_cancel(f, sk.retransmit), sk.delack), sk.linger)

Cleared == [sk EXCEPT !.retransmit = NULL, !.delack = NULL, !.linger = NULL]

\* After the peer's FIN, or a reset, which can come after tcp_done too.
tcp_enter_time_wait(t, seen) ==
  /\ CanAdd(t)
  /\ tm' = timer_add(tcp_clear_timers(tm), t, 1, "linger", seen, Linger)
  /\ sk' = [Cleared EXCEPT !.state = "time_wait", !.linger = t]
  /\ UNCHANGED <<tick, todo, threads>>

\* tcp_done after f; socket_delete starts the collector once.
tcp_done(f, t, seen) ==
  \/ sk.deleted /\ tm' = f /\ sk' = [Cleared EXCEPT !.state = "closing"]
  \/ /\ ~sk.deleted /\ Fresh(t)
     /\ tm' = timer_add(f, t, 0, "collector", seen, Collect)
     /\ sk' = [Cleared EXCEPT !.state = "closing", !.deleted = TRUE]

\* A reset, the last ACK, or close() of a socket that is not connected.
Closes(t, seen) == tcp_done(tcp_clear_timers(tm), t, seen) /\ UNCHANGED <<tick, todo, threads>>

------------------------------------------------------------------------------
\* The handlers.

Runs(h, handler) ==
  /\ h \in threads /\ tm[h].handler = handler
  /\ threads' = threads \ {h} /\ UNCHANGED <<tick, todo>>

\* The timer it releases need not be the one that started it.
tcp_send_delack(h) ==
  /\ Runs(h, "delack")
  /\ tm' = timer_release(tm, sk.delack)
  /\ sk' = [Acked EXCEPT !.delack = NULL, !.delacks = 0]

\* tcp_retransmission_timeout and tcp_connect_rto: nothing when the write queue
\* is empty, else the next timeout or, after the last one, tcp_done.
RtoHandler(h) ==
  /\ Runs(h, "rto")
  /\ \/ tm' = timer_release(tm, sk.retransmit) /\ sk' = [sk EXCEPT !.retransmit = NULL]
     \/ /\ sk.state \in {"open", "close_wait"}
        /\ \E t \in Pool, seen \in Seen :
             \/ /\ CanAdd(t) /\ sk' = [sk EXCEPT !.retransmit = t]
                /\ \E rto \in Rtos : tm' = Rearm(tm, t, seen, rto)
             \/ tcp_done(timer_cancel(timer_cancel(timer_release(tm, sk.retransmit), sk.delack), sk.linger),
                         t, seen)

\* tcp_linger and tcp_user_timeout.
LingerHandler(h) ==
  /\ Runs(h, "linger")
  /\ \E t \in Pool, seen \in Seen : tcp_done(tcp_clear_timers(tm), t, seen)

\* The collector's own work is in SocketLife.
Collector(h) == Runs(h, "collector") /\ UNCHANGED <<tm, sk>>

Handler(h) == tcp_send_delack(h) \/ RtoHandler(h) \/ LingerHandler(h) \/ Collector(h)

Next ==
  \/ Tick \/ AcksOther \/ tcp_stop_rto_timer
  \/ \E t \in Pool : Visit(t) \/ Skip(t) \/ Handler(t)
  \/ \E kind \in Kinds : AcksAtOnce(kind) \/ StopsDelAck(kind)
  \/ \E t \in Pool, seen \in Seen :
       \/ \E kind \in Kinds : DelaysAck(kind, t, seen)
       \/ \E rto \in Rtos : SendsNext(t, seen, rto) \/ tcp_rearm_rto_timer(t, seen, rto)
       \/ tcp_rearm_user_timeout(t, seen) \/ tcp_enter_time_wait(t, seen) \/ Closes(t, seen)

Spec == Init /\ [][Next]_vars

\* The timers' thread runs, and so does every thread it starts; those wait for
\* the socket and for the list, and get them.
Fairness ==
  /\ WF_vars(Tick)
  /\ \A t \in Pool : WF_vars(Visit(t)) /\ SF_vars(Handler(t))

FairSpec == Spec /\ Fairness

------------------------------------------------------------------------------
\* Properties.

Pointers == {sk.delack, sk.retransmit, sk.linger} \ {NULL}

\* The timers a connection points to are three different ones, each of them
\* allocated, on the list and counted once, so that timer_cancel, timer_release
\* and tcp_rtt (which reads tsk->retransmit->expires) never touch a freed one,
\* whatever handler releases it; no other timer has a reference.  The walk
\* visits only timers of the list, and a timer fires at most once.
TimerInv ==
  /\ sk.delack # NULL => sk.delack \notin {sk.retransmit, sk.linger}
  /\ sk.retransmit # NULL => sk.retransmit # sk.linger
  /\ Pointers \union todo \subseteq Listed
  /\ \A t \in Pool : tm[t].refcnt = IF t \in Pointers THEN 1 ELSE 0
  /\ \A t \in threads : tm[t].cancelled

\* No handler runs before its time, although timer_add may have read the tick
\* before a walk and come to the list after it.  (The tick is read to 10 ms, so
\* a timer that fires when its time equals the tick is early.)
NotEarly == \A t \in threads : tm[t].expires < tick

\* What is owed to the peer is promised: as long as received text is not
\* acknowledged, a delayed-ACK timer runs or its handler waits for the lock,
\* whichever handler releases whose timer.  The exception is a segment without
\* text in between, after which nothing runs (see AckInTime).
AckPromised ==
  sk.state \in {"open", "close_wait"} /\ sk.unacked /\ ~sk.stopped =>
    \E t \in Pool : /\ tm[t].handler = "delack"
                    /\ (t \in threads \/ (t \in Listed /\ ~tm[t].cancelled))

\* Every timer is freed in the end: no handler, and no cancellation that comes
\* late, leaves one on the list with a reference that nobody can give back.  (Those
\* of the pool are allocated once, so in the end none is on the list.)
TimersFreed == <>[](Listed = {})

\* tcp_input.c:687, "an ACK should not be excessively delayed; in particular,
\* the delay MUST be less than 0.5 seconds": DelAck is 200 ms, so half a second
\* is 5/2 of it.  A handler that has been started is given all the time it needs
\* to get the lock, and a walk to reach its timer.
AckInTime ==
  sk.state \in {"open", "close_wait"} /\ sk.unacked /\ todo = {} =>
    \/ 2 * (tick - sk.since) < 5 * DelAck
    \/ \E h \in threads : tm[h].handler = "delack"
===============================================================================
