---------------------------- MODULE TcpTimersProofs ----------------------------
(***************************************************************************)
(* The timers of a connection are counted and freed as they should be, and *)
(* the delayed ACK is promised, for every number of timers, every tick,    *)
(* every duration and every modulus: of time those proofs need nothing.    *)
(* No handler is early as long as expires has not wrapped.                 *)
(***************************************************************************)
EXTENDS TcpTimers, TLAPS

Handlers == {"none", "delack", "rto", "linger", "collector"}

TimerType == [state: {"unused", "listed", "freed"}, handler: Handlers, refcnt: Int, expires: Int,
              cancelled: BOOLEAN, busy: BOOLEAN]

Pointer == Pool \union {NULL}

SkType == [state: {"open", "close_wait", "time_wait", "closing"},
           delack: Pointer, retransmit: Pointer, linger: Pointer, delacks: Int,
           unacked: BOOLEAN, since: Int, stopped: BOOLEAN, deleted: BOOLEAN]

Typed ==
  /\ tick \in Int /\ tm \in [Pool -> TimerType] /\ sk \in SkType
  /\ todo \subseteq Pool /\ threads \subseteq Pool

\* What AckPromised needs to be inductive: the promise is the timer the
\* connection points to, which only its own expiry has stopped.
Promise ==
  sk.state \in {"open", "close_wait"} /\ sk.unacked /\ ~sk.stopped =>
    /\ sk.delack # NULL /\ tm[sk.delack].handler = "delack"
    /\ tm[sk.delack].cancelled => sk.delack \in threads

\* A handler's timer has been allocated.
Started == \A t \in threads : tm[t].state # "unused"

IInv == Typed /\ TimerInv /\ Started /\ Promise

------------------------------------------------------------------------------
\* The functions of timer.c.

\* f counts the pointers d, r and l, which are of three different timers.
Counts(f, d, r, l) ==
  /\ f \in [Pool -> TimerType] /\ d \in Pointer /\ r \in Pointer /\ l \in Pointer
  /\ (d # NULL => d # r /\ d # l) /\ (r # NULL => r # l)
  /\ \A p \in {d, r, l} \ {NULL} : f[p].state = "listed"
  /\ \A t \in Pool : f[t].refcnt = IF t \in {d, r, l} \ {NULL} THEN 1 ELSE 0

\* g differs from f in what an owner may change, and in t.
Keeps(f, g, t) ==
  \A u \in Pool \ {t} : /\ g[u].state = f[u].state /\ g[u].handler = f[u].handler
                        /\ f[u].cancelled => g[u].cancelled

\* Giving up the first of the pointers leaves the others counted.
LEMMA GiveUp ==
  ASSUME NEW f, NEW d, NEW r, NEW l, Counts(f, d, r, l),
         NEW g, g = timer_cancel(f, d) \/ g = timer_release(f, d)
  PROVE  /\ Counts(g, NULL, r, l) /\ Keeps(f, g, NULL)
         /\ \A u \in Pool : u # d => g[u] = f[u]
<1>1. CASE d = NULL
  <2>1. g = f
    BY Zenon, <1>1 DEF timer_cancel, timer_release
  <2> QED
    BY Zenon, <1>1, <2>1 DEF Counts, Keeps
<1>2. CASE d # NULL
  <2>1. d \in Pool /\ NULL \notin Pool
    BY <1>2 DEF Counts, Pointer, Pool, NULL
  <2>2. /\ g \in [Pool -> TimerType]
        /\ g[d].refcnt = f[d].refcnt - 1 /\ g[d].state = f[d].state /\ g[d].handler = f[d].handler
        /\ f[d].cancelled => g[d].cancelled
        /\ \A u \in Pool : u # d => g[u] = f[u]
    BY <1>2, <2>1 DEF Counts, timer_cancel, timer_release, TimerType
  <2>3. f[d].refcnt = 1
    BY Zenon, <1>2, <2>1 DEF Counts
  <2>4. Keeps(f, g, NULL)
    BY Zenon, <2>2 DEF Keeps
  <2>5. \A t \in Pool : g[t].refcnt = IF t \in {NULL, r, l} \ {NULL} THEN 1 ELSE 0
    BY <1>2, <2>1, <2>2, <2>3 DEF Counts
  <2>6. \A p \in {NULL, r, l} \ {NULL} : g[p].state = "listed"
    BY <1>2, <2>1, <2>2 DEF Counts, Pointer
  <2> QED
    BY Zenon, <2>1, <2>2, <2>4, <2>5, <2>6 DEF Counts, Pointer
<1> QED
  BY Zenon, <1>1, <1>2

\* The order of the pointers does not matter.
LEMMA Turned ==
  ASSUME NEW f, NEW d, NEW r, NEW l, Counts(f, d, r, l)
  PROVE  Counts(f, r, d, l) /\ Counts(f, l, r, d) /\ Counts(f, r, l, d) /\ Counts(f, l, d, r)
<1>1. {d, r, l} = {r, d, l} /\ {d, r, l} = {l, r, d} /\ {d, r, l} = {r, l, d} /\ {d, r, l} = {l, d, r}
  BY Zenon
<1> QED
  BY Zenon, <1>1 DEF Counts

\* A new timer takes the place of a pointer that was given up.
LEMMA Added ==
  ASSUME NEW f, NEW r, NEW l, Counts(f, NULL, r, l),
         NEW t \in Pool, f[t].state = "unused",
         NEW handler \in Handlers, NEW seen \in Int, NEW expire \in Int,
         NEW g, g = timer_add(f, t, 1, handler, seen, expire)
  PROVE  /\ Counts(g, t, r, l) /\ Keeps(f, g, t)
         /\ g[t].handler = handler /\ ~g[t].cancelled
         /\ \A u \in Pool : u # t => g[u] = f[u]
<1>1. t # NULL /\ NULL \notin Pool
  BY DEF Pool, NULL
<1>2. /\ g \in [Pool -> TimerType]
      /\ g[t].refcnt = 1 /\ g[t].state = "listed" /\ g[t].handler = handler /\ ~g[t].cancelled
      /\ \A u \in Pool : u # t => g[u] = f[u]
  BY DEF Counts, timer_add, TimerType
<1>3. t # r /\ t # l
  BY Zenon, <1>1 DEF Counts
<1>4. \A p \in {t, r, l} \ {NULL} : g[p].state = "listed"
  BY <1>1, <1>2 DEF Counts, Pointer
<1>5. \A u \in Pool : g[u].refcnt = IF u \in {t, r, l} \ {NULL} THEN 1 ELSE 0
  BY Zenon, <1>1, <1>2, <1>3 DEF Counts
<1>6. Keeps(f, g, t)
  BY Zenon, <1>2 DEF Keeps
<1> QED
  BY Zenon, <1>1, <1>2, <1>3, <1>4, <1>5, <1>6 DEF Counts, Pointer

\* The collector's timer is nobody's.
LEMMA Oneshot ==
  ASSUME NEW f, Counts(f, NULL, NULL, NULL),
         NEW t \in Pool, f[t].state = "unused",
         NEW handler \in Handlers, NEW seen \in Int, NEW expire \in Int,
         NEW g, g = timer_add(f, t, 0, handler, seen, expire)
  PROVE  Counts(g, NULL, NULL, NULL) /\ Keeps(f, g, t)
<1>2. /\ g \in [Pool -> TimerType] /\ g[t].refcnt = 0
      /\ \A u \in Pool : u # t => g[u] = f[u]
  BY DEF Counts, timer_add, TimerType
<1>5. \A u \in Pool : g[u].refcnt = 0
  BY Zenon, <1>2 DEF Counts
<1>6. Keeps(f, g, t)
  BY Zenon, <1>2 DEF Keeps
<1> QED
  BY Zenon, <1>2, <1>5, <1>6 DEF Counts, Pointer

------------------------------------------------------------------------------
\* The steps.

\* The invariant counts the three pointers of the connection.
LEMMA Counted ==
  ASSUME IInv
  PROVE  Counts(tm, sk.delack, sk.retransmit, sk.linger)
BY Zenon DEF IInv, Typed, TimerInv, Counts, Pointers, Listed, SkType

\* A step of the connection, which may add one timer: if it counts its pointers,
\* the invariant is kept but for the promise.
LEMMA Kept ==
  ASSUME IInv, sk' \in SkType, Counts(tm', sk'.delack, sk'.retransmit, sk'.linger),
         NEW t \in Pointer, Keeps(tm, tm', t), t = NULL \/ (todo = {} /\ tm[t].state = "unused"),
         tick' = tick, todo' = todo, threads' \subseteq threads
  PROVE  Typed' /\ TimerInv' /\ Started'
<1>1. Typed'
  BY Zenon DEF IInv, Typed, Counts
<1>2. NULL \notin Pool
  BY DEF Pool, NULL
<1>3. \A h \in threads' : h \in Pool /\ h # t
  BY Zenon, <1>2 DEF IInv, Typed, Started
<1>4. Started' /\ \A h \in threads' : tm'[h].cancelled
  BY Zenon, <1>3 DEF IInv, Started, TimerInv, Keeps
<1>5. todo' \subseteq Listed'
  BY <1>2 DEF IInv, Typed, TimerInv, Keeps, Listed
<1>6. (Pointers \subseteq Listed)'
  BY Zenon DEF Counts, Pointers, Listed, Pointer
<1>7. (\A u \in Pool : tm[u].refcnt = IF u \in Pointers THEN 1 ELSE 0)'
  BY Zenon DEF Counts, Pointers
<1> QED
  BY Zenon, <1>1, <1>4, <1>5, <1>6, <1>7 DEF TimerInv, Counts

\* A timer of the connection is given up, and perhaps replaced, that is not the
\* delayed ACK's; the promise is not touched.
LEMMA PromiseKept ==
  ASSUME IInv, sk'.state = sk.state, sk'.unacked = sk.unacked, sk'.stopped = sk.stopped,
         sk'.delack = sk.delack,
         sk.delack # NULL => tm'[sk.delack].handler = tm[sk.delack].handler
                             /\ tm'[sk.delack].cancelled = tm[sk.delack].cancelled,
         \A h \in threads : h \in threads' \/ tm[h].handler # "delack"
  PROVE  Promise'
BY Zenon DEF IInv, Promise

\* What a step takes: ticks and durations are numbers, a new timer is unused.
LEMMA TypesOfSteps ==
  ASSUME IInv
  PROVE  /\ \A seen \in Seen : seen \in Int
         /\ DelAck \in Int /\ Linger \in Int /\ Collect \in Int /\ \A rto \in Rtos : rto \in Int
         /\ \A t : Fresh(t) => t \in Pool /\ t # NULL /\ todo = {} /\ tm[t].state = "unused"
         /\ \A t : CanAdd(t) => Fresh(t)
BY SMTT(40), TimersAssumption DEF IInv, Typed, Seen, Fresh, CanAdd, Unallocated, Pool, NULL

\* The retransmission timer.
LEMMA RearmKeeps ==
  ASSUME IInv, NEW t, Fresh(t), NEW seen \in Seen, NEW rto \in Rtos,
         tm' = Rearm(tm, t, seen, rto), sk' = [sk EXCEPT !.retransmit = t],
         tick' = tick, todo' = todo, threads' \subseteq threads,
         \A h \in threads : h \in threads' \/ tm[h].handler # "delack"
  PROVE  IInv'
<1> DEFINE f == timer_release(tm, sk.retransmit)
<1>1. Counts(tm, sk.retransmit, sk.delack, sk.linger)
  BY Zenon, Counted, Turned
<1>2. /\ Counts(f, NULL, sk.delack, sk.linger) /\ Keeps(tm, f, NULL)
      /\ \A u \in Pool : u # sk.retransmit => f[u] = tm[u]
  BY <1>1, GiveUp
<1>3. t \in Pool /\ t # NULL /\ todo = {} /\ tm[t].state = "unused" /\ NULL \notin Pool
      /\ seen \in Int /\ rto \in Int
  BY TypesOfSteps DEF Pool, NULL
<1>4. f[t].state = "unused"
  BY Zenon, <1>2, <1>3 DEF Keeps
<1>5. /\ Counts(tm', t, sk.delack, sk.linger) /\ Keeps(f, tm', t)
      /\ \A u \in Pool : u # t => tm'[u] = f[u]
  <2>1. tm' = timer_add(f, t, 1, "rto", seen, rto)
    BY Zenon DEF Rearm
  <2>2. "rto" \in Handlers
    BY Zenon DEF Handlers
  <2> HIDE DEF f
  <2> QED
    BY <1>2, <1>3, <1>4, <2>1, <2>2, Added
<1>6. Keeps(tm, tm', t)
  BY <1>2, <1>3, <1>5 DEF Keeps
<1>7. sk' \in SkType /\ sk'.retransmit = t /\ sk'.delack = sk.delack /\ sk'.linger = sk.linger
      /\ sk'.state = sk.state /\ sk'.unacked = sk.unacked /\ sk'.stopped = sk.stopped
  BY Zenon, <1>3 DEF IInv, Typed, SkType, Pointer
<1>8. Counts(tm', sk'.delack, sk'.retransmit, sk'.linger)
  BY <1>5, <1>7, Turned
<1>9. Typed' /\ TimerInv' /\ Started'
  BY Zenon, <1>3, <1>6, <1>7, <1>8, Kept DEF Pointer
<1>10. sk.delack # NULL => sk.delack \in Pool /\ sk.delack # t /\ sk.delack # sk.retransmit
  BY Zenon, <1>1, <1>3 DEF Counts, Pointer
<1>11. Promise'
  <2>1. sk.delack # NULL => tm'[sk.delack] = tm[sk.delack]
    BY Zenon, <1>2, <1>5, <1>10
  <2> QED
    BY Zenon, <1>7, <2>1, PromiseKept
<1> QED
  BY Zenon, <1>9, <1>11 DEF IInv

\* The user timeout.
LEMMA UserTimeoutKeeps ==
  ASSUME IInv, NEW t \in Pool, NEW seen \in Seen, tcp_rearm_user_timeout(t, seen)
  PROVE  IInv'
<1> DEFINE f == timer_cancel(tm, sk.linger)
<1>0. /\ tm' = timer_add(f, t, 1, "linger", seen, Linger) /\ sk' = [sk EXCEPT !.linger = t]
      /\ tick' = tick /\ todo' = todo /\ threads' = threads /\ Fresh(t) /\ "linger" \in Handlers
  BY Zenon, TypesOfSteps DEF tcp_rearm_user_timeout, Handlers
<1>1. Counts(tm, sk.linger, sk.delack, sk.retransmit)
  BY Zenon, Counted, Turned
<1>2. /\ Counts(f, NULL, sk.delack, sk.retransmit) /\ Keeps(tm, f, NULL)
      /\ \A u \in Pool : u # sk.linger => f[u] = tm[u]
  BY <1>1, GiveUp
<1>3. t # NULL /\ todo = {} /\ tm[t].state = "unused" /\ NULL \notin Pool /\ seen \in Int /\ Linger \in Int
  BY <1>0, TypesOfSteps DEF Pool, NULL
<1>4. f[t].state = "unused"
  BY Zenon, <1>2, <1>3 DEF Keeps
<1> HIDE DEF f
<1>5. /\ Counts(tm', t, sk.delack, sk.retransmit) /\ Keeps(f, tm', t)
      /\ \A u \in Pool : u # t => tm'[u] = f[u]
  BY <1>0, <1>2, <1>3, <1>4, Added
<1>6. Keeps(tm, tm', t)
  BY Zenon, <1>2, <1>3, <1>5 DEF Keeps
<1>7. sk' \in SkType /\ sk'.retransmit = sk.retransmit /\ sk'.delack = sk.delack /\ sk'.linger = t
      /\ sk'.state = sk.state /\ sk'.unacked = sk.unacked /\ sk'.stopped = sk.stopped
  BY Zenon, <1>0 DEF IInv, Typed, SkType, Pointer
<1>8. Counts(tm', sk'.delack, sk'.retransmit, sk'.linger)
  BY Zenon, <1>5, <1>7, Turned
<1>9. Typed' /\ TimerInv' /\ Started'
  BY Zenon, <1>0, <1>3, <1>6, <1>7, <1>8, Kept DEF Pointer
<1>10. sk.delack # NULL => sk.delack \in Pool /\ sk.delack # t /\ sk.delack # sk.linger
  BY Zenon, <1>1, <1>3 DEF Counts, Pointer
<1>11. Promise'
  <2>1. sk.delack # NULL => tm'[sk.delack] = tm[sk.delack]
    BY Zenon, <1>2, <1>5, <1>10
  <2> QED
    BY Zenon, <1>0, <1>7, <2>1, PromiseKept
<1> QED
  BY Zenon, <1>9, <1>11 DEF IInv

\* tcp_stop_rto_timer and tcp_release_rto_timer.
LEMMA StopRtoKeeps ==
  ASSUME IInv, tm' = timer_cancel(tm, sk.retransmit) \/ tm' = timer_release(tm, sk.retransmit),
         sk' = [sk EXCEPT !.retransmit = NULL],
         tick' = tick, todo' = todo, threads' \subseteq threads,
         \A h \in threads : h \in threads' \/ tm[h].handler # "delack"
  PROVE  IInv'
<1>1. Counts(tm, sk.retransmit, sk.delack, sk.linger)
  BY Zenon, Counted, Turned
<1>2. /\ Counts(tm', NULL, sk.delack, sk.linger) /\ Keeps(tm, tm', NULL)
      /\ \A u \in Pool : u # sk.retransmit => tm'[u] = tm[u]
  BY <1>1, GiveUp
<1>3. sk' \in SkType /\ sk'.retransmit = NULL /\ sk'.delack = sk.delack /\ sk'.linger = sk.linger
      /\ sk'.state = sk.state /\ sk'.unacked = sk.unacked /\ sk'.stopped = sk.stopped
  BY Zenon DEF IInv, Typed, SkType, Pointer
<1>4. Counts(tm', sk'.delack, sk'.retransmit, sk'.linger)
  BY <1>2, <1>3, Turned
<1>5. Typed' /\ TimerInv' /\ Started'
  BY Zenon, <1>2, <1>3, <1>4, Kept DEF Pointer
<1>6. sk.delack # NULL => tm'[sk.delack] = tm[sk.delack]
  BY Zenon, <1>1, <1>2 DEF Counts, Pointer
<1>7. Promise'
  BY Zenon, <1>3, <1>6, PromiseKept
<1> QED
  BY Zenon, <1>5, <1>7 DEF IInv

\* The delayed ACK's timer is given up: by a handler, or by a segment.
LEMMA StopDelAckKeeps ==
  ASSUME IInv, tm' = timer_cancel(tm, sk.delack) \/ tm' = timer_release(tm, sk.delack),
         sk' \in SkType, sk'.delack = NULL, sk'.retransmit = sk.retransmit, sk'.linger = sk.linger,
         tick' = tick, todo' = todo, threads' \subseteq threads, ~sk'.unacked \/ sk'.stopped
  PROVE  IInv'
<1>1. Counts(tm', NULL, sk.retransmit, sk.linger) /\ Keeps(tm, tm', NULL)
  BY Counted, GiveUp
<1>2. Typed' /\ TimerInv' /\ Started'
  BY Zenon, <1>1, Kept DEF Pointer
<1> QED
  BY Zenon, <1>2 DEF IInv, Promise

\* It is started again.
LEMMA DelaysAckKeeps ==
  ASSUME IInv, NEW kind \in Kinds, NEW t \in Pool, NEW seen \in Seen, DelaysAck(kind, t, seen)
  PROVE  IInv'
<1> DEFINE f == timer_cancel(tm, sk.delack)
<1>0. /\ tm' = timer_add(f, t, 1, "delack", seen, DelAck)
      /\ tick' = tick /\ todo' = todo /\ threads' = threads /\ Fresh(t) /\ "delack" \in Handlers
  BY Zenon, TypesOfSteps DEF DelaysAck, Handlers
<1>1. sk' \in SkType /\ sk'.delack = t /\ sk'.retransmit = sk.retransmit /\ sk'.linger = sk.linger
  <2> DEFINE n == Delacks(kind)
             since == IF sk.unacked THEN sk.since ELSE tick
  <2>1. n \in Int /\ since \in Int
    BY DEF IInv, Typed, SkType, Delacks
  <2>2. sk' = [sk EXCEPT !.delack = t, !.delacks = n, !.unacked = TRUE, !.stopped = FALSE,
                         !.since = since]
    BY Zenon DEF DelaysAck
  <2> HIDE DEF n, since
  <2> QED
    BY Zenon, <2>1, <2>2 DEF IInv, Typed, SkType, Pointer
<1>2. Counts(f, NULL, sk.retransmit, sk.linger) /\ Keeps(tm, f, NULL)
  BY Zenon, Counted, GiveUp
<1>3. t # NULL /\ todo = {} /\ tm[t].state = "unused" /\ NULL \notin Pool /\ seen \in Int /\ DelAck \in Int
  BY <1>0, TypesOfSteps DEF Pool, NULL
<1>4. f[t].state = "unused"
  BY Zenon, <1>2, <1>3 DEF Keeps
<1> HIDE DEF f
<1>5. /\ Counts(tm', t, sk.retransmit, sk.linger) /\ Keeps(f, tm', t)
      /\ tm'[t].handler = "delack" /\ ~tm'[t].cancelled
  BY <1>0, <1>2, <1>3, <1>4, Added
<1>6. Keeps(tm, tm', t)
  BY Zenon, <1>2, <1>3, <1>5 DEF Keeps
<1>7. Typed' /\ TimerInv' /\ Started'
  BY Zenon, <1>0, <1>1, <1>3, <1>5, <1>6, Kept DEF Pointer
<1>8. Promise'
  BY Zenon, <1>1, <1>3, <1>5 DEF Promise
<1> QED
  BY Zenon, <1>7, <1>8 DEF IInv

\* The connection after an acknowledgment.
LEMMA AckedType ==
  ASSUME IInv
  PROVE  /\ Acked \in SkType /\ ~Acked.unacked /\ Acked.delack = sk.delack
         /\ Acked.retransmit = sk.retransmit /\ Acked.linger = sk.linger
<1>1. sk \in SkType
  BY Zenon DEF IInv, Typed
<1>2. Acked \in SkType
  <2> DEFINE s == [sk EXCEPT !.since = 0]
  <2>1. s \in SkType
    BY <1>1 DEF SkType
  <2>2. Acked = [s EXCEPT !.unacked = FALSE, !.stopped = FALSE]
    BY Zenon, <1>1 DEF SkType, Acked
  <2> HIDE DEF s
  <2> QED
    BY Zenon, <2>1, <2>2 DEF SkType
<1>3. Acked.unacked = FALSE
  BY Zenon, <1>1 DEF SkType, Acked
<1> QED
  BY Zenon, <1>1, <1>2, <1>3 DEF SkType, Acked

\* The same without a timer.
LEMMA AckedNoTimer ==
  ASSUME IInv, NEW s, s = [Acked EXCEPT !.delack = NULL, !.delacks = 0]
  PROVE  /\ s \in SkType /\ s.delack = NULL /\ ~s.unacked
         /\ s.retransmit = sk.retransmit /\ s.linger = sk.linger
<1> DEFINE a == [Acked EXCEPT !.delacks = 0]
<1>1. Acked \in SkType
  BY Zenon, AckedType
<1>2. a \in SkType
  BY <1>1 DEF SkType
<1>3. a.retransmit = sk.retransmit /\ a.linger = sk.linger
  BY Zenon, <1>1, AckedType DEF SkType
<1>4. a.unacked = Acked.unacked
  BY Zenon, <1>1 DEF SkType
<1>5. s = [a EXCEPT !.delack = NULL]
  BY Zenon, <1>1 DEF SkType
<1>6. ~a.unacked
  BY Zenon, <1>4, AckedType
<1> HIDE DEF a
<1>7. s \in SkType
  BY Zenon, <1>2, <1>5 DEF SkType, Pointer
<1>8. s.unacked = a.unacked
  BY Zenon, <1>2, <1>5 DEF SkType
<1>9. s.delack = NULL /\ s.retransmit = sk.retransmit /\ s.linger = sk.linger
  BY Zenon, <1>2, <1>3, <1>5 DEF SkType
<1> QED
  BY Zenon, <1>6, <1>7, <1>8, <1>9

\* Text is sent with the acknowledgment.
LEMMA SendsNextKeeps ==
  ASSUME IInv, NEW t \in Pool, NEW seen \in Seen, NEW rto \in Rtos, SendsNext(t, seen, rto)
  PROVE  IInv'
<1> DEFINE f == timer_cancel(tm, sk.delack)
           g == timer_release(f, sk.retransmit)
<1>0. /\ tm' = timer_add(g, t, 1, "rto", seen, rto)
      /\ tick' = tick /\ todo' = todo /\ threads' = threads /\ Fresh(t) /\ "rto" \in Handlers
  BY Zenon, TypesOfSteps DEF SendsNext, Rearm, Handlers
<1>1. sk' \in SkType /\ sk'.delack = NULL /\ sk'.retransmit = t /\ sk'.linger = sk.linger /\ ~sk'.unacked
  BY ZenonT(40), AckedType DEF SkType, Pointer, SendsNext
<1>2. Counts(f, NULL, sk.retransmit, sk.linger) /\ Keeps(tm, f, NULL)
  BY Zenon, Counted, GiveUp
<1>3. t # NULL /\ todo = {} /\ tm[t].state = "unused" /\ NULL \notin Pool /\ seen \in Int /\ rto \in Int
  BY <1>0, TypesOfSteps DEF Pool, NULL
<1>4. f[t].state = "unused"
  BY Zenon, <1>2, <1>3 DEF Keeps
<1> HIDE DEF f
<1>5. Counts(f, sk.retransmit, NULL, sk.linger)
  BY Zenon, <1>2, Turned
<1>6. Counts(g, NULL, NULL, sk.linger) /\ Keeps(f, g, NULL)
  BY Zenon, <1>5, GiveUp
<1>7. g[t].state = "unused"
  BY Zenon, <1>3, <1>4, <1>6 DEF Keeps
<1> HIDE DEF g
<1>8. Counts(tm', t, NULL, sk.linger) /\ Keeps(g, tm', t)
  BY <1>0, <1>3, <1>6, <1>7, Added
<1>9. Keeps(tm, tm', t)
  BY <1>2, <1>3, <1>6, <1>8 DEF Keeps
<1>10. Counts(tm', sk'.delack, sk'.retransmit, sk'.linger)
  BY Zenon, <1>1, <1>8, Turned
<1>11. Typed' /\ TimerInv' /\ Started'
  BY Zenon, <1>0, <1>1, <1>3, <1>9, <1>10, Kept DEF Pointer
<1> QED
  BY Zenon, <1>1, <1>11 DEF IInv, Promise

\* tcp_clear_timers, and the same with a retransmission timer that is released.
LEMMA AllGivenUp ==
  ASSUME IInv, NEW f, f = timer_cancel(tm, sk.retransmit) \/ f = timer_release(tm, sk.retransmit),
         NEW g, g = timer_cancel(timer_cancel(f, sk.delack), sk.linger)
  PROVE  Counts(g, NULL, NULL, NULL) /\ Keeps(tm, g, NULL)
<1> DEFINE h == timer_cancel(f, sk.delack)
<1>1. Counts(tm, sk.retransmit, sk.delack, sk.linger)
  BY Zenon, Counted, Turned
<1>2. Counts(f, NULL, sk.delack, sk.linger) /\ Keeps(tm, f, NULL)
  BY <1>1, GiveUp
<1>3. Counts(f, sk.delack, NULL, sk.linger)
  BY Zenon, <1>2, Turned
<1>4. Counts(h, NULL, NULL, sk.linger) /\ Keeps(f, h, NULL)
  BY Zenon, <1>3, GiveUp
<1>5. g = timer_cancel(h, sk.linger)
  BY Zenon
<1> HIDE DEF h
<1>6. Counts(h, sk.linger, NULL, NULL)
  BY Zenon, <1>4, Turned
<1>7. Counts(g, NULL, NULL, NULL) /\ Keeps(h, g, NULL)
  BY <1>5, <1>6, GiveUp
<1> QED
  BY <1>2, <1>4, <1>7 DEF Keeps

\* tcp_enter_time_wait: one timer in place of all.
LEMMA TimeWaitKeeps ==
  ASSUME IInv, NEW t \in Pool, NEW seen \in Seen, tcp_enter_time_wait(t, seen)
  PROVE  IInv'
<1> DEFINE f == tcp_clear_timers(tm)
<1>0. /\ tm' = timer_add(f, t, 1, "linger", seen, Linger)
      /\ tick' = tick /\ todo' = todo /\ threads' = threads /\ Fresh(t) /\ "linger" \in Handlers
  BY Zenon, TypesOfSteps DEF tcp_enter_time_wait, Handlers
<1>1. sk' \in SkType /\ sk'.delack = NULL /\ sk'.retransmit = NULL /\ sk'.linger = t
      /\ sk'.state = "time_wait"
  BY ZenonT(40) DEF IInv, Typed, SkType, Pointer, tcp_enter_time_wait, Cleared
<1>2. Counts(f, NULL, NULL, NULL) /\ Keeps(tm, f, NULL)
  BY Zenon, AllGivenUp DEF tcp_clear_timers
<1>3. t # NULL /\ todo = {} /\ tm[t].state = "unused" /\ NULL \notin Pool /\ seen \in Int /\ Linger \in Int
  BY <1>0, TypesOfSteps DEF Pool, NULL
<1>4. f[t].state = "unused"
  BY Zenon, <1>2, <1>3 DEF Keeps
<1> HIDE DEF f
<1>5. Counts(tm', t, NULL, NULL) /\ Keeps(f, tm', t)
  BY <1>0, <1>2, <1>3, <1>4, Added
<1>6. Keeps(tm, tm', t)
  BY Zenon, <1>2, <1>3, <1>5 DEF Keeps
<1>7. Counts(tm', sk'.delack, sk'.retransmit, sk'.linger)
  BY Zenon, <1>1, <1>5, Turned
<1>8. Typed' /\ TimerInv' /\ Started'
  BY Zenon, <1>0, <1>1, <1>3, <1>6, <1>7, Kept DEF Pointer
<1> QED
  BY Zenon, <1>1, <1>8 DEF IInv, Promise

\* tcp_done: no timer but, the first time, the collector's.
LEMMA DoneKeeps ==
  ASSUME IInv, NEW f, Counts(f, NULL, NULL, NULL), Keeps(tm, f, NULL),
         NEW t \in Pool, NEW seen \in Seen, tcp_done(f, t, seen),
         tick' = tick, todo' = todo, threads' \subseteq threads
  PROVE  IInv'
<1>1. sk' \in SkType /\ sk'.delack = NULL /\ sk'.retransmit = NULL /\ sk'.linger = NULL
      /\ sk'.state = "closing"
  BY ZenonT(40) DEF IInv, Typed, SkType, Pointer, tcp_done, Cleared
<1>2. CASE tm' = f
  <2>1. Typed' /\ TimerInv' /\ Started'
    BY Zenon, <1>1, <1>2, Kept DEF Pointer
  <2> QED
    BY Zenon, <1>1, <2>1 DEF IInv, Promise
<1>3. CASE Fresh(t) /\ tm' = timer_add(f, t, 0, "collector", seen, Collect)
  <2>1. /\ t # NULL /\ todo = {} /\ tm[t].state = "unused" /\ NULL \notin Pool /\ seen \in Int
        /\ Collect \in Int /\ "collector" \in Handlers
    BY <1>3, TypesOfSteps DEF Pool, NULL, Handlers
  <2>2. f[t].state = "unused"
    BY Zenon, <2>1 DEF Keeps
  <2>3. Counts(tm', NULL, NULL, NULL) /\ Keeps(f, tm', t)
    BY Zenon, <1>3, <2>1, <2>2, Oneshot
  <2>4. Keeps(tm, tm', t)
    BY Zenon, <2>1, <2>3 DEF Keeps
  <2>5. Typed' /\ TimerInv' /\ Started'
    BY Zenon, <1>1, <2>1, <2>3, <2>4, Kept DEF Pointer
  <2> QED
    BY Zenon, <1>1, <2>5 DEF IInv, Promise
<1> QED
  BY Zenon, <1>2, <1>3 DEF tcp_done

\* timers_tick, one timer: it is freed only when no pointer counts, and the
\* delayed ACK's timer that expires leaves a handler.
LEMMA VisitKeeps ==
  ASSUME IInv, NEW t \in Pool, Visit(t)
  PROVE  IInv'
<1>1. /\ tick' = tick /\ sk' = sk /\ todo' = todo \ {t} /\ t \in todo
      /\ threads' = IF Expired(t) THEN threads \union {t} ELSE threads
  BY Zenon DEF Visit
<1>2. /\ tm' \in [Pool -> TimerType]
      /\ \A u \in Pool : u # t => tm'[u] = tm[u]
      /\ tm'[t].refcnt = tm[t].refcnt /\ tm'[t].handler = tm[t].handler
      /\ tm'[t].cancelled = (tm[t].cancelled \/ Expired(t))
      /\ tm'[t].state = IF Freed(t) THEN "freed" ELSE tm[t].state
  <2> DEFINE c == tm[t].cancelled \/ Expired(t)
             s == IF Freed(t) THEN "freed" ELSE tm[t].state
             e == IF Freed(t) THEN 0 ELSE tm[t].expires
             b == IF Freed(t) THEN FALSE ELSE tm[t].busy
  <2>1. tm[t] \in TimerType /\ tm \in [Pool -> TimerType]
    BY Zenon DEF IInv, Typed
  <2>2. s \in {"unused", "listed", "freed"} /\ e \in Int
    BY <2>1 DEF TimerType
  <2>6. b \in BOOLEAN
    BY Zenon, <2>1 DEF TimerType
  <2>3. c \in BOOLEAN
    BY Zenon
  <2>4. tm' = [tm EXCEPT ![t].cancelled = c, ![t].state = s, ![t].expires = e, ![t].busy = b]
    BY Zenon DEF Visit
  <2> HIDE DEF c, s, e, b
  <2>5. /\ tm' \in [Pool -> TimerType]
        /\ \A u \in Pool : u # t => tm'[u] = tm[u]
        /\ tm'[t].refcnt = tm[t].refcnt /\ tm'[t].handler = tm[t].handler
        /\ tm'[t].cancelled = c /\ tm'[t].state = s
    BY ZenonT(40), <2>1, <2>2, <2>3, <2>4, <2>6 DEF TimerType
  <2> QED
    BY Zenon, <2>5 DEF c, s
<1>3. Freed(t) => t \notin Pointers
  BY DEF Freed, IInv, TimerInv
<1>4. tm[t].state = "listed"
  BY Zenon, <1>1 DEF IInv, TimerInv, Listed
<1>5. Typed'
  BY Zenon, <1>1, <1>2 DEF IInv, Typed
<1>6. TimerInv'
  <2>1. Pointers' = Pointers
    BY Zenon, <1>1 DEF Pointers
  <2>2. Pointers' \union todo' \subseteq Listed'
    BY <1>1, <1>2, <1>3, <1>4, <2>1 DEF IInv, TimerInv, Listed
  <2>3. \A u \in Pool : tm'[u].refcnt = IF u \in Pointers' THEN 1 ELSE 0
    BY <1>2, <2>1 DEF IInv, TimerInv
  <2>4. \A h \in threads' : tm'[h].cancelled
    BY Zenon, <1>1, <1>2 DEF IInv, Typed, TimerInv
  <2> QED
    BY Zenon, <1>1, <2>2, <2>3, <2>4 DEF IInv, TimerInv
<1>7. Started'
  BY Zenon, <1>1, <1>2, <1>4 DEF IInv, Typed, Started
<1>8. Promise'
  <2>1. CASE t = sk.delack
    BY Zenon, <1>1, <1>2, <2>1 DEF IInv, Promise
  <2>2. CASE t # sk.delack
    BY Zenon, <1>1, <1>2, <2>2 DEF IInv, Promise, Typed, SkType, Pointer
  <2> QED
    BY Zenon, <2>1, <2>2
<1> QED
  BY Zenon, <1>5, <1>6, <1>7, <1>8 DEF IInv

\* A busy timer changes nothing that is counted.
LEMMA SkipKeeps ==
  ASSUME IInv, NEW t \in Pool, Skip(t)
  PROVE  IInv'
<1>1. tick' = tick /\ sk' = sk /\ todo' \subseteq todo /\ threads' = threads
  BY Zenon DEF Skip
<1>2. /\ tm' \in [Pool -> TimerType]
      /\ \A u \in Pool : /\ tm'[u].refcnt = tm[u].refcnt /\ tm'[u].handler = tm[u].handler
                         /\ tm'[u].cancelled = tm[u].cancelled /\ tm'[u].state = tm[u].state
  BY ZenonT(40) DEF IInv, Typed, Skip, TimerType
<1>3. Typed'
  BY Zenon, <1>1, <1>2 DEF IInv, Typed
<1>4. TimerInv'
  BY <1>1, <1>2 DEF IInv, Typed, TimerInv, Listed, Pointers
<1>5. Started' /\ Promise'
  BY <1>1, <1>2 DEF IInv, Typed, SkType, Pointer, Started, Promise
<1> QED
  BY Zenon, <1>3, <1>4, <1>5 DEF IInv

\* The steps that leave the timers alone.
LEMMA TimersAloneKeep ==
  ASSUME IInv, tm' = tm, tick' \in Int, todo' = Listed \/ todo' = todo, threads' \subseteq threads,
         sk' \in SkType, sk'.delack = sk.delack, sk'.retransmit = sk.retransmit, sk'.linger = sk.linger,
         \/ ~sk'.unacked
         \/ sk' = sk /\ \A h \in threads : h \in threads' \/ tm[h].handler # "delack"
  PROVE  IInv'
<1>1. Typed'
  BY Zenon DEF IInv, Typed, Listed
<1>2. TimerInv'
  BY Zenon DEF IInv, Typed, TimerInv, Listed, Pointers
<1>3. Started' /\ Promise'
  BY Zenon DEF IInv, Started, Promise
<1> QED
  BY Zenon, <1>1, <1>2, <1>3 DEF IInv

------------------------------------------------------------------------------

\* No timer yet.
LEMMA InitTimers == Init => IInv
<1> SUFFICES ASSUME Init PROVE IInv
  BY Zenon
<1>1. tm \in [Pool -> TimerType] /\ \A t \in Pool : tm[t].refcnt = 0
  BY DEF Init, Unused, TimerType, Handlers
<1>2. sk \in SkType /\ Pointers = {} /\ ~sk.unacked
  BY DEF Init, SkType, Pointer, Pointers
<1>3. Typed
  BY <1>1, <1>2, TimersAssumption DEF Typed, Init
<1>4. TimerInv
  BY Zenon, <1>1, <1>2 DEF TimerInv, Init, Listed
<1> QED
  BY Zenon, <1>2, <1>3, <1>4 DEF IInv, Started, Promise, Init

\* A handler takes the lock of the socket.
LEMMA HandlerKeeps ==
  ASSUME IInv, NEW h \in Pool, Handler(h)
  PROVE  IInv'
<1>1. CASE tcp_send_delack(h)
  <2>1. sk' \in SkType /\ sk'.delack = NULL /\ sk'.retransmit = sk.retransmit
        /\ sk'.linger = sk.linger /\ ~sk'.unacked
    BY ZenonT(40), <1>1, AckedNoTimer DEF tcp_send_delack
  <2> QED
    BY Zenon, <1>1, <2>1, StopDelAckKeeps DEF tcp_send_delack, Runs
<1>2. CASE RtoHandler(h)
  <2>1. /\ tick' = tick /\ todo' = todo /\ threads' \subseteq threads
        /\ \A u \in threads : u \in threads' \/ tm[u].handler # "delack"
    BY Zenon, <1>2 DEF RtoHandler, Runs
  <2>2. CASE tm' = timer_release(tm, sk.retransmit) /\ sk' = [sk EXCEPT !.retransmit = NULL]
    BY Zenon, <2>1, <2>2, StopRtoKeeps
  <2>3. ASSUME NEW t \in Pool, NEW seen \in Seen, NEW rto \in Rtos, CanAdd(t),
               sk' = [sk EXCEPT !.retransmit = t], tm' = Rearm(tm, t, seen, rto)
        PROVE  IInv'
    BY Zenon, <2>1, <2>3, TypesOfSteps, RearmKeeps
  <2>4. ASSUME NEW t \in Pool, NEW seen \in Seen,
               tcp_done(timer_cancel(timer_cancel(timer_release(tm, sk.retransmit), sk.delack), sk.linger),
                        t, seen)
        PROVE  IInv'
    <3> DEFINE f == timer_cancel(timer_cancel(timer_release(tm, sk.retransmit), sk.delack), sk.linger)
    <3>1. Counts(f, NULL, NULL, NULL) /\ Keeps(tm, f, NULL)
      BY Zenon, AllGivenUp
    <3>2. tcp_done(f, t, seen)
      BY Zenon, <2>4
    <3> HIDE DEF f
    <3> QED
      BY Zenon, <2>1, <3>1, <3>2, DoneKeeps
  <2> QED
    BY Zenon, <1>2, <2>2, <2>3, <2>4 DEF RtoHandler
<1>3. CASE LingerHandler(h)
  <2>1. PICK t \in Pool, seen \in Seen : tcp_done(tcp_clear_timers(tm), t, seen)
    BY Zenon, <1>3 DEF LingerHandler
  <2>2. Counts(tcp_clear_timers(tm), NULL, NULL, NULL) /\ Keeps(tm, tcp_clear_timers(tm), NULL)
    BY Zenon, AllGivenUp DEF tcp_clear_timers
  <2>3. tick' = tick /\ todo' = todo /\ threads' \subseteq threads
    BY Zenon, <1>3 DEF LingerHandler, Runs
  <2> QED
    BY Zenon, <2>1, <2>2, <2>3, DoneKeeps
<1>4. CASE Collector(h)
  <2>1. sk \in SkType /\ tick \in Int
    BY Zenon DEF IInv, Typed
  <2> QED
    BY Zenon, <1>4, <2>1, TimersAloneKeep DEF Collector, Runs
<1> QED
  BY Zenon, <1>1, <1>2, <1>3, <1>4 DEF Handler

\* One step for each action of the connection, of the timers' thread and of its handlers.
LEMMA NextTimers == IInv /\ [Next]_vars => IInv'
<1> SUFFICES ASSUME IInv, [Next]_vars PROVE IInv'
  BY Zenon
<1>0. sk \in SkType /\ tick \in Int /\ tick + Step \in Int
  BY TimersAssumption DEF IInv, Typed
<1>1. CASE Tick
  BY Zenon, <1>0, <1>1, TimersAloneKeep DEF Tick
<1>2. CASE AcksOther
  <2>1. /\ sk' \in SkType /\ sk'.delack = sk.delack /\ sk'.retransmit = sk.retransmit
        /\ sk'.linger = sk.linger /\ ~sk'.unacked
    BY Zenon, <1>2, AckedType DEF AcksOther, SkType
  <2> QED
    BY Zenon, <1>0, <1>2, <2>1, TimersAloneKeep DEF AcksOther
<1>3. CASE tcp_stop_rto_timer
  BY Zenon, <1>3, StopRtoKeeps DEF tcp_stop_rto_timer
<1>4. ASSUME NEW t \in Pool, Visit(t) \/ Skip(t) \/ Handler(t)
      PROVE  IInv'
  BY Zenon, <1>4, VisitKeeps, SkipKeeps, HandlerKeeps
<1>5. ASSUME NEW kind \in Kinds, AcksAtOnce(kind)
      PROVE  IInv'
  <2>1. sk' \in SkType /\ sk'.delack = NULL /\ sk'.retransmit = sk.retransmit
        /\ sk'.linger = sk.linger /\ ~sk'.unacked
    BY Zenon, <1>5, AckedNoTimer DEF AcksAtOnce
  <2> QED
    BY Zenon, <1>5, <2>1, StopDelAckKeeps DEF AcksAtOnce
<1>6. ASSUME NEW kind \in Kinds, StopsDelAck(kind)
      PROVE  IInv'
  <2>1. sk' \in SkType /\ sk'.delack = NULL /\ sk'.retransmit = sk.retransmit
        /\ sk'.linger = sk.linger
    BY Zenon, <1>0, <1>6 DEF StopsDelAck, SkType, Pointer
  <2>2. ~sk'.unacked \/ sk'.stopped
    BY Zenon, <1>0, <1>6 DEF StopsDelAck, SkType
  <2> QED
    BY Zenon, <1>6, <2>1, <2>2, StopDelAckKeeps DEF StopsDelAck
<1>7. ASSUME NEW t \in Pool, NEW seen \in Seen, NEW kind \in Kinds, DelaysAck(kind, t, seen)
      PROVE  IInv'
  BY Zenon, <1>7, DelaysAckKeeps
<1>8. ASSUME NEW t \in Pool, NEW seen \in Seen, NEW rto \in Rtos,
             SendsNext(t, seen, rto) \/ tcp_rearm_rto_timer(t, seen, rto)
      PROVE  IInv'
  <2>1. CASE SendsNext(t, seen, rto)
    BY Zenon, <2>1, SendsNextKeeps
  <2>2. CASE tcp_rearm_rto_timer(t, seen, rto)
    BY Zenon, <2>2, TypesOfSteps, RearmKeeps DEF tcp_rearm_rto_timer
  <2> QED
    BY Zenon, <1>8, <2>1, <2>2
<1>9. ASSUME NEW t \in Pool, NEW seen \in Seen,
             tcp_rearm_user_timeout(t, seen) \/ tcp_enter_time_wait(t, seen) \/ Closes(t, seen)
      PROVE  IInv'
  <2>1. CASE Closes(t, seen)
    <3>1. Counts(tcp_clear_timers(tm), NULL, NULL, NULL) /\ Keeps(tm, tcp_clear_timers(tm), NULL)
      BY Zenon, AllGivenUp DEF tcp_clear_timers
    <3> QED
      BY Zenon, <2>1, <3>1, DoneKeeps DEF Closes
  <2> QED
    BY Zenon, <1>9, <2>1, UserTimeoutKeeps, TimeWaitKeeps
<1>10. CASE UNCHANGED vars
  BY Zenon, <1>0, <1>10, TimersAloneKeep DEF vars
<1> QED
  BY Zenon, <1>1, <1>2, <1>3, <1>4, <1>5, <1>6, <1>7, <1>8, <1>9, <1>10 DEF Next

\* The inductive invariant says what the two properties say.
LEMMA PromiseIsAck == IInv => TimerInv /\ AckPromised
<1> SUFFICES ASSUME IInv PROVE AckPromised
  BY Zenon DEF IInv
<1>1. sk.delack # NULL => sk.delack \in Listed /\ sk.delack \in Pool
  BY Zenon DEF IInv, TimerInv, Pointers, Listed
<1> QED
  BY Zenon, <1>1 DEF IInv, Promise, AckPromised

\* The timers of a connection are three different ones, listed and counted once,
\* whatever order segments, calls, handlers and the timers' thread take, however
\* many timers there are and wherever the tick and expires wrap: timer_cancel,
\* timer_release and tcp_rtt never see a freed timer.
THEOREM TimersCounted == Spec => []TimerInv
<1>1. Spec => []IInv
  BY InitTimers, NextTimers, PTL DEF Spec
<1> QED
  BY <1>1, PromiseIsAck, PTL

\* As long as no segment without text stops it, the acknowledgment of received
\* text is promised by a timer that runs or a handler that waits.
THEOREM AckIsPromised == Spec => []AckPromised
<1>1. Spec => []IInv
  BY InitTimers, NextTimers, PTL DEF Spec
<1> QED
  BY <1>1, PromiseIsAck, PTL

------------------------------------------------------------------------------
\* Time.

\* The 32 bits of expires have not wrapped: fewer than 2^32 ticks since start-up (timer_add).
NoWrap == \A t \in Pool : tm[t].expires < Modulus

OnTime ==
  /\ tick \in Nat /\ FirstTick <= tick
  /\ \A u \in Pool : tm[u].expires \in Nat
  /\ NotEarly

\* f and g have the same timers, and their times are the same.
SameTimes(f, g) ==
  g \in [Pool -> TimerType] /\ \A u \in Pool : g[u].state = f[u].state /\ g[u].expires = f[u].expires

\* The times of allocated timers are the same.
Timed(f, g) ==
  \A u \in Pool : /\ g[u].expires \in Nat
                  /\ f[u].state # "unused" => g[u].expires = f[u].expires

\* The remainder of a number is not greater, and of a small one it is the number.
LEMMA Remainder ==
  ASSUME NEW a \in Nat, NEW m \in Nat \ {0}
  PROVE  a % m \in Nat /\ a % m <= a /\ (a < m => a % m = a)
<1> DEFINE q == a \div m
           r == a % m
<1>1. q \in Int /\ r \in 0..(m - 1) /\ a = m * q + r
  OBVIOUS
<1> HIDE DEF q, r
<1>2. q >= 0
  <2> SUFFICES ASSUME q <= -1 PROVE FALSE
    BY <1>1
  <2>1. m * q <= m * (-1)
    BY <1>1, SMTT(30)
  <2> QED
    BY <1>1, <2>1
<1>3. m * q >= 0
  BY <1>1, <1>2, SMTT(30)
<1>4. a < m => q = 0
  <2> SUFFICES ASSUME a < m, q >= 1 PROVE FALSE
    BY <1>1, <1>2
  <2>1. m * q >= m
    BY <1>1, SMTT(30)
  <2> QED
    BY <1>1, <2>1
<1>5. r \in Nat /\ r <= a /\ (a < m => r = a)
  BY <1>1, <1>3, <1>4
<1> QED
  BY Zenon, <1>5 DEF r

\* Giving up a timer changes no time.
LEMMA GivenUpTimes ==
  ASSUME NEW f \in [Pool -> TimerType], NEW p \in Pointer,
         NEW g, g = timer_cancel(f, p) \/ g = timer_release(f, p)
  PROVE  SameTimes(f, g)
<1>1. CASE p = NULL
  BY Zenon, <1>1 DEF timer_cancel, timer_release, SameTimes
<1>2. CASE p # NULL
  <2>1. p \in Pool
    BY Zenon, <1>2 DEF Pointer
  <2>2. /\ g \in [Pool -> TimerType] /\ g[p].state = f[p].state /\ g[p].expires = f[p].expires
        /\ \A u \in Pool : u # p => g[u] = f[u]
    BY <1>2, <2>1 DEF timer_cancel, timer_release, TimerType
  <2> QED
    BY Zenon, <2>2 DEF SameTimes
<1> QED
  BY Zenon, <1>1, <1>2

\* A new timer has a time that is a number.
LEMMA AddedTimes ==
  ASSUME IInv, OnTime, NEW f, SameTimes(tm, f), NEW t, Fresh(t), NEW refs, NEW handler,
         NEW seen \in Seen, NEW expire \in Nat
  PROVE  Timed(tm, timer_add(f, t, refs, handler, seen, expire))
<1>1. t \in Pool /\ tm[t].state = "unused"
  BY Zenon, TypesOfSteps
<1>2. seen + expire \in Nat
  BY TimersAssumption DEF Seen, OnTime
<1>3. \A u \in Pool : f[u].expires = tm[u].expires /\ tm[u].expires \in Nat
  BY Zenon DEF SameTimes, OnTime
<1> QED
  BY Zenon, <1>1, <1>2, <1>3 DEF timer_add, Timed, SameTimes

\* A step that starts no thread makes nothing early.
LEMMA StillOnTime ==
  ASSUME IInv, OnTime, Timed(tm, tm') \/ SameTimes(tm, tm'), tick' = tick, threads' \subseteq threads
  PROVE  OnTime'
BY Zenon DEF IInv, Typed, Started, OnTime, NotEarly, Timed, SameTimes

\* Giving up all three.
LEMMA AllTimes ==
  ASSUME IInv, NEW f, f = timer_cancel(tm, sk.retransmit) \/ f = timer_release(tm, sk.retransmit)
  PROVE  SameTimes(tm, timer_cancel(timer_cancel(f, sk.delack), sk.linger))
<1>0. tm \in [Pool -> TimerType] /\ sk.retransmit \in Pointer /\ sk.delack \in Pointer
      /\ sk.linger \in Pointer
  BY Zenon DEF IInv, Typed, SkType
<1> DEFINE h == timer_cancel(f, sk.delack)
           g == timer_cancel(h, sk.linger)
<1>1. SameTimes(tm, f)
  BY Zenon, <1>0, GivenUpTimes
<1>2. f \in [Pool -> TimerType]
  BY Zenon, <1>1 DEF SameTimes
<1>3. SameTimes(f, h)
  BY Zenon, <1>0, <1>2, GivenUpTimes
<1>4. h \in [Pool -> TimerType]
  BY Zenon, <1>3 DEF SameTimes
<1>5. SameTimes(h, g)
  BY Zenon, <1>0, <1>4, GivenUpTimes
<1> HIDE DEF h, g
<1>6. SameTimes(tm, g)
  BY Zenon, <1>1, <1>3, <1>5 DEF SameTimes
<1> QED
  BY Zenon, <1>6 DEF g, h

\* tcp_done.
LEMMA DoneTimes ==
  ASSUME IInv, OnTime, NEW f, SameTimes(tm, f), NEW t, NEW seen \in Seen, tcp_done(f, t, seen)
  PROVE  Timed(tm, tm') \/ SameTimes(tm, tm')
<1>1. Collect \in Nat
  BY Zenon, TimersAssumption
<1> QED
  BY <1>1, AddedTimes DEF tcp_done

\* The timers' thread fires what has expired, and expired it has.
LEMMA VisitOnTime ==
  ASSUME IInv, OnTime, NoWrap, NEW t \in Pool, Visit(t)
  PROVE  OnTime'
<1>0. tm \in [Pool -> TimerType] /\ Modulus \in Nat \ {0} /\ tick \in Nat /\ tm[t].expires \in Nat
      /\ tm[t].expires < Modulus
  BY Zenon, TimersAssumption DEF IInv, Typed, OnTime, NoWrap
<1>1. Expired(t) => tm[t].expires < tick
  <2>1. tm[t].expires % Modulus = tm[t].expires /\ tick % Modulus <= tick /\ tick % Modulus \in Nat
    BY Zenon, <1>0, Remainder
  <2> QED
    BY <1>0, <2>1 DEF Expired
<1>2. /\ \A u \in Pool : u # t => tm'[u].expires = tm[u].expires
      /\ tm'[t].expires = IF Freed(t) THEN 0 ELSE tm[t].expires
  BY <1>0 DEF Visit, TimerType
<1>3. threads' \subseteq threads \union {t} /\ (t \in threads' => t \in threads \/ Expired(t)) /\ tick' = tick
  BY Zenon DEF Visit
<1>4. t \in threads' => tm[t].expires < tick
  BY Zenon, <1>1, <1>3 DEF OnTime, NotEarly
<1>5. \A u \in Pool : tm'[u].expires \in Nat
  BY <1>0, <1>2 DEF OnTime
<1>6. NotEarly'
  <2> SUFFICES ASSUME NEW u \in threads' PROVE tm'[u].expires < tick
    BY Zenon, <1>3 DEF NotEarly
  <2>1. CASE u = t
    BY SMTT(40), <1>0, <1>2, <1>4, <2>1
  <2>2. CASE u # t
    BY Zenon, <1>2, <1>3, <2>2 DEF OnTime, NotEarly, IInv, Typed
  <2> QED
    BY Zenon, <2>1, <2>2
<1> QED
  BY Zenon, <1>3, <1>5, <1>6 DEF OnTime

\* The handlers.
LEMMA HandlerOnTime ==
  ASSUME IInv, OnTime, NEW h \in Pool, Handler(h)
  PROVE  OnTime'
<1>0. /\ tm \in [Pool -> TimerType] /\ sk.retransmit \in Pointer /\ sk.delack \in Pointer
      /\ \A rto \in Rtos : rto \in Nat
      /\ \A t : CanAdd(t) => Fresh(t)
  BY Zenon, TimersAssumption, TypesOfSteps DEF IInv, Typed, SkType
<1>1. tick' = tick /\ threads' \subseteq threads
  BY Zenon DEF Handler, tcp_send_delack, RtoHandler, LingerHandler, Collector, Runs
<1>2. CASE tcp_send_delack(h)
  BY Zenon, <1>0, <1>1, <1>2, GivenUpTimes, StillOnTime DEF tcp_send_delack
<1>3. CASE RtoHandler(h)
  <2>1. CASE tm' = timer_release(tm, sk.retransmit)
    BY Zenon, <1>0, <1>1, <2>1, GivenUpTimes, StillOnTime
  <2>2. ASSUME NEW t \in Pool, NEW seen \in Seen, NEW rto \in Rtos, CanAdd(t),
               tm' = Rearm(tm, t, seen, rto)
        PROVE  OnTime'
    <3>1. SameTimes(tm, timer_release(tm, sk.retransmit))
      BY Zenon, <1>0, GivenUpTimes
    <3>2. Timed(tm, tm')
      BY Zenon, <1>0, <2>2, <3>1, AddedTimes DEF Rearm
    <3> QED
      BY Zenon, <1>1, <3>2, StillOnTime
  <2>3. ASSUME NEW t \in Pool, NEW seen \in Seen,
               tcp_done(timer_cancel(timer_cancel(timer_release(tm, sk.retransmit), sk.delack), sk.linger),
                        t, seen)
        PROVE  OnTime'
    <3> DEFINE f == timer_cancel(timer_cancel(timer_release(tm, sk.retransmit), sk.delack), sk.linger)
    <3>1. SameTimes(tm, f)
      BY Zenon, AllTimes
    <3>2. tcp_done(f, t, seen)
      BY Zenon, <2>3
    <3> HIDE DEF f
    <3> QED
      BY Zenon, <1>1, <3>1, <3>2, DoneTimes, StillOnTime
  <2> QED
    BY Zenon, <1>3, <2>1, <2>2, <2>3 DEF RtoHandler
<1>4. CASE LingerHandler(h)
  <2>1. PICK t \in Pool, seen \in Seen : tcp_done(tcp_clear_timers(tm), t, seen)
    BY Zenon, <1>4 DEF LingerHandler
  <2>2. SameTimes(tm, tcp_clear_timers(tm))
    BY Zenon, AllTimes DEF tcp_clear_timers
  <2> QED
    BY Zenon, <1>1, <2>1, <2>2, DoneTimes, StillOnTime
<1>5. CASE Collector(h)
  <2>1. SameTimes(tm, tm')
    BY Zenon, <1>0, <1>5 DEF Collector, SameTimes
  <2> QED
    BY Zenon, <1>1, <2>1, StillOnTime
<1> QED
  BY Zenon, <1>2, <1>3, <1>4, <1>5 DEF Handler

\* The connection: its steps start no thread and leave the tick alone.
LEMMA ConnectionOnTime ==
  ASSUME IInv, OnTime, NEW t \in Pool, NEW seen \in Seen,
         \/ \E kind \in Kinds : DelaysAck(kind, t, seen)
         \/ \E rto \in Rtos : SendsNext(t, seen, rto) \/ tcp_rearm_rto_timer(t, seen, rto)
         \/ tcp_rearm_user_timeout(t, seen) \/ tcp_enter_time_wait(t, seen) \/ Closes(t, seen)
  PROVE  OnTime'
<1>0. /\ tm \in [Pool -> TimerType] /\ sk.retransmit \in Pointer /\ sk.delack \in Pointer
      /\ sk.linger \in Pointer
      /\ DelAck \in Nat /\ Linger \in Nat /\ \A rto \in Rtos : rto \in Nat
      /\ CanAdd(t) => Fresh(t)
  BY Zenon, TimersAssumption, TypesOfSteps DEF IInv, Typed, SkType
<1>1. tick' = tick /\ threads' \subseteq threads
  BY Zenon DEF DelaysAck, SendsNext, tcp_rearm_rto_timer, tcp_rearm_user_timeout, tcp_enter_time_wait, Closes
<1>2. ASSUME NEW kind \in Kinds, DelaysAck(kind, t, seen) PROVE OnTime'
  <2>1. SameTimes(tm, timer_cancel(tm, sk.delack))
    BY Zenon, <1>0, GivenUpTimes
  <2>2. Timed(tm, tm')
    BY Zenon, <1>0, <1>2, <2>1, AddedTimes DEF DelaysAck
  <2> QED
    BY Zenon, <1>1, <2>2, StillOnTime
<1>3. ASSUME NEW rto \in Rtos, SendsNext(t, seen, rto) PROVE OnTime'
  <2> DEFINE f == timer_cancel(tm, sk.delack)
             g == timer_release(f, sk.retransmit)
  <2>1. SameTimes(tm, f)
    BY Zenon, <1>0, GivenUpTimes
  <2>2. f \in [Pool -> TimerType]
    BY Zenon, <2>1 DEF SameTimes
  <2>3. SameTimes(f, g)
    BY Zenon, <1>0, <2>2, GivenUpTimes
  <2>4. CanAdd(t) /\ tm' = timer_add(g, t, 1, "rto", seen, rto)
    BY Zenon, <1>3 DEF SendsNext, Rearm
  <2> HIDE DEF f, g
  <2>5. SameTimes(tm, g)
    BY Zenon, <2>1, <2>3 DEF SameTimes
  <2>6. Timed(tm, tm')
    BY Zenon, <1>0, <2>4, <2>5, AddedTimes
  <2> QED
    BY Zenon, <1>1, <2>6, StillOnTime
<1>4. ASSUME NEW rto \in Rtos, tcp_rearm_rto_timer(t, seen, rto) PROVE OnTime'
  <2>1. SameTimes(tm, timer_release(tm, sk.retransmit))
    BY Zenon, <1>0, GivenUpTimes
  <2>2. Timed(tm, tm')
    BY Zenon, <1>0, <1>4, <2>1, AddedTimes DEF tcp_rearm_rto_timer, Rearm
  <2> QED
    BY Zenon, <1>1, <2>2, StillOnTime
<1>5. CASE tcp_rearm_user_timeout(t, seen)
  <2>1. SameTimes(tm, timer_cancel(tm, sk.linger))
    BY Zenon, <1>0, GivenUpTimes
  <2>2. Timed(tm, tm')
    BY Zenon, <1>0, <1>5, <2>1, AddedTimes DEF tcp_rearm_user_timeout
  <2> QED
    BY Zenon, <1>1, <2>2, StillOnTime
<1>6. SameTimes(tm, tcp_clear_timers(tm))
  BY Zenon, AllTimes DEF tcp_clear_timers
<1>7. CASE tcp_enter_time_wait(t, seen)
  <2>1. Timed(tm, tm')
    BY Zenon, <1>0, <1>6, <1>7, AddedTimes DEF tcp_enter_time_wait
  <2> QED
    BY Zenon, <1>1, <2>1, StillOnTime
<1>8. CASE Closes(t, seen)
  BY Zenon, <1>1, <1>6, <1>8, DoneTimes, StillOnTime DEF Closes
<1> QED
  BY Zenon, <1>2, <1>3, <1>4, <1>5, <1>7, <1>8

\* Every step is on time.
LEMMA NextOnTime == IInv /\ OnTime /\ NoWrap /\ [Next]_vars => OnTime'
<1> SUFFICES ASSUME IInv, OnTime, NoWrap, [Next]_vars PROVE OnTime'
  BY Zenon
<1>0. tm \in [Pool -> TimerType] /\ sk.retransmit \in Pointer /\ sk.delack \in Pointer
      /\ Step \in Nat /\ FirstTick \in Nat /\ tick \in Nat
  BY Zenon, TimersAssumption DEF IInv, Typed, SkType, OnTime
<1>1. SameTimes(tm, tm)
  BY Zenon, <1>0 DEF SameTimes
<1>2. CASE Tick
  <2>1. tick' \in Nat /\ tick <= tick' /\ tm' = tm /\ threads' = threads
    BY <1>0, <1>2 DEF Tick
  <2>2. \A t \in threads : tm[t].expires \in Nat
    BY Zenon DEF OnTime, IInv, Typed
  <2> QED
    BY <1>0, <2>1, <2>2 DEF OnTime, NotEarly
<1>3. CASE AcksOther \/ UNCHANGED vars
  <2>1. tm' = tm /\ tick' = tick /\ threads' = threads
    BY Zenon, <1>3 DEF AcksOther, vars
  <2> QED
    BY Zenon, <2>1 DEF OnTime, NotEarly
<1>4. CASE tcp_stop_rto_timer
  BY Zenon, <1>0, <1>4, GivenUpTimes, StillOnTime DEF tcp_stop_rto_timer
<1>5. ASSUME NEW t \in Pool, Skip(t) PROVE OnTime'
  <2>1. SameTimes(tm, tm')
    BY ZenonT(40), <1>0, <1>5 DEF Skip, SameTimes, TimerType
  <2> QED
    BY Zenon, <1>5, <2>1, StillOnTime DEF Skip
<1>6. ASSUME NEW kind \in Kinds, AcksAtOnce(kind) \/ StopsDelAck(kind) PROVE OnTime'
  <2>1. tm' = timer_cancel(tm, sk.delack) /\ tick' = tick /\ threads' = threads
    BY Zenon, <1>6 DEF AcksAtOnce, StopsDelAck
  <2> QED
    BY Zenon, <1>0, <2>1, GivenUpTimes, StillOnTime
<1> QED
  BY Zenon, <1>2, <1>3, <1>4, <1>5, <1>6, VisitOnTime, HandlerOnTime, ConnectionOnTime DEF Next

\* As long as no expires has wrapped, no handler runs before its time, although timer_add may
\* have read the tick before a walk of timers_tick and come to the list after it.
THEOREM TimersNotEarly == Spec /\ []NoWrap => []NotEarly
<1>1. Init => OnTime
  BY TimersAssumption DEF Init, OnTime, NotEarly, Unused
<1>2. Spec => []IInv
  BY InitTimers, NextTimers, PTL DEF Spec
<1>3. OnTime => NotEarly
  BY Zenon DEF OnTime
<1>4. Spec => Init /\ [][Next]_vars
  BY Zenon DEF Spec
<1> QED
  BY <1>1, <1>2, <1>3, <1>4, NextOnTime, PTL
================================================================================
