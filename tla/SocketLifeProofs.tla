--------------------------- MODULE SocketLifeProofs ---------------------------
(***************************************************************************)
(* LifeInv is inductive for any set of threads, sockets and environment,   *)
(* and no sock is freed under an open connection unless connect() is given *)
(* a bad address.  A step changes one socket; what the operators on its    *)
(* record leave alone is Evolves, and the lemmas after it are the two ways *)
(* in which the body of a call ends.                                       *)
(***************************************************************************)
EXTENDS SocketLife, TLAPS

Evolves(k, m) ==
  /\ m \in SockSet
  /\ m.lock = k.lock /\ m.sleep = k.sleep /\ m.refcnt = k.refcnt /\ m.live = k.live
  /\ k.deleted => m.deleted
  /\ (Condemned(k) => k.deleted) => (Condemned(m) => m.deleted)

\* The placeholder for a free lock is no thread (socket.c, the rwlocks).
LEMMA NoneIsNoThread == None \notin Threads
  BY DEF None, Threads, AppThreads, App, core, Handler, Timers

\* Every record a socket can have evolves into itself.
LEMMA EvolvesRefl == ASSUME NEW k \in SockSet PROVE Evolves(k, k)
  BY Zenon DEF Evolves

\* Evolving in two steps is evolving.
LEMMA EvolvesTrans ==
  ASSUME NEW k, NEW m, NEW n, Evolves(k, m), Evolves(m, n) PROVE Evolves(k, n)
  BY Zenon DEF Evolves

\* Only the fields of the connection change: its state, write queue and timers.
KeepsFate(k, m) ==
  /\ m.lock = k.lock /\ m.sleep = k.sleep /\ m.refcnt = k.refcnt /\ m.live = k.live
  /\ m.deleted = k.deleted /\ m.state = k.state /\ m.collector = k.collector /\ m.err = k.err

\* A step that keeps those fields evolves the socket.
LEMMA KeepsFateEvolves ==
  ASSUME NEW k, NEW m \in SockSet, KeepsFate(k, m) PROVE Evolves(k, m)
  BY Zenon DEF Evolves, Condemned, KeepsFate

\* The operators on the timers keep the lock, the count and the fate of a socket.
LEMMA TimersEvolve ==
  ASSUME NEW k \in SockSet
  PROVE  /\ Evolves(k, tcp_clear_timers(k)) /\ Evolves(k, tcp_enter_time_wait(k))
         /\ Evolves(k, tcp_rearm_user_timeout(k))
         /\ Evolves(k, tcp_release_rto_timer(k)) /\ Evolves(k, tcp_rearm_rto_timer(k))
<1>1. Evolves(k, tcp_clear_timers(k))
  <2>1. tcp_clear_timers(k) \in SockSet
    BY ZenonT(60) DEF SockSet, tcp_clear_timers
  <2>2. KeepsFate(k, tcp_clear_timers(k))
    BY ZenonT(60) DEF SockSet, KeepsFate, tcp_clear_timers
  <2> QED BY Zenon, <2>1, <2>2, KeepsFateEvolves
<1>2. Evolves(k, tcp_enter_time_wait(k))
  <2>1. PICK c : c = tcp_clear_timers(k)
    BY Zenon
  <2>2. c \in SockSet
    BY Zenon, <1>1, <2>1 DEF Evolves
  <2>3. PICK m : m = [c EXCEPT !.conn = "TIME_WAIT", !.linger = "time_wait"]
    BY Zenon
  <2>4. m \in SockSet
    <3>1. "TIME_WAIT" \in ConnStates
      BY Zenon DEF ConnStates
    <3> QED BY ZenonT(60), <2>2, <2>3, <3>1 DEF SockSet
  <2>5. KeepsFate(c, m)
    BY ZenonT(60), <2>2, <2>3 DEF SockSet, KeepsFate
  <2>6. m = tcp_enter_time_wait(k)
    BY Zenon, <2>1, <2>3 DEF tcp_enter_time_wait
  <2> QED BY Zenon, <1>1, <2>1, <2>4, <2>5, <2>6, KeepsFateEvolves, EvolvesTrans
<1>3. Evolves(k, tcp_rearm_user_timeout(k))
  <2>1. PICK m : m = [k EXCEPT !.linger = "user"]
    BY Zenon
  <2>2. m \in SockSet
    BY ZenonT(60), <2>1 DEF SockSet
  <2>3. KeepsFate(k, m)
    BY ZenonT(60), <2>1 DEF SockSet, KeepsFate
  <2> QED BY Zenon, <2>1, <2>2, <2>3, KeepsFateEvolves, EvolvesRefl DEF tcp_rearm_user_timeout
<1>4. Evolves(k, tcp_release_rto_timer(k))
  <2>1. PICK b \in BOOLEAN : b = (k.orphan \/ k.rto)
    BY Zenon
  <2>2. tcp_release_rto_timer(k) = [k EXCEPT !.rto = FALSE, !.orphan = b]
    BY Zenon, <2>1 DEF tcp_release_rto_timer
  <2>3. tcp_release_rto_timer(k) \in SockSet
    BY ZenonT(60), <2>2 DEF SockSet
  <2>4. KeepsFate(k, tcp_release_rto_timer(k))
    BY ZenonT(60), <2>2 DEF SockSet, KeepsFate
  <2> QED BY Zenon, <2>3, <2>4, KeepsFateEvolves
<1>5. Evolves(k, tcp_rearm_rto_timer(k))
  <2>1. PICK c : c = tcp_release_rto_timer(k)
    BY Zenon
  <2>2. c \in SockSet
    BY Zenon, <1>4, <2>1 DEF Evolves
  <2>3. tcp_rearm_rto_timer(k) \in SockSet
    BY ZenonT(60), <2>1, <2>2 DEF SockSet, tcp_rearm_rto_timer
  <2>4. KeepsFate(c, tcp_rearm_rto_timer(k))
    BY ZenonT(60), <2>1, <2>2 DEF SockSet, KeepsFate, tcp_rearm_rto_timer
  <2> QED BY Zenon, <1>4, <2>1, <2>3, <2>4, KeepsFateEvolves, EvolvesTrans
<1> QED BY Zenon, <1>1, <1>2, <1>3, <1>4, <1>5

\* So does queueing a segment (tcp_queue_transmit_skb).
LEMMA QueueEvolves ==
  ASSUME NEW k \in SockSet, NEW item \in {"syn", "data", "fin"}
  PROVE  Evolves(k, QueueTransmit(k, item))
<1>1. ASSUME NEW m \in SockSet
      PROVE  Evolves(m, [m EXCEPT !.queue = @ \union {item}])
  <2>1. PICK q \in SUBSET {"syn", "data", "fin"} : q = m.queue \union {item}
    BY ZenonT(60) DEF SockSet
  <2>2. [m EXCEPT !.queue = q] \in SockSet
    BY ZenonT(60) DEF SockSet
  <2>3. KeepsFate(m, [m EXCEPT !.queue = q])
    BY ZenonT(60) DEF SockSet, KeepsFate
  <2> QED BY Zenon, <2>1, <2>2, <2>3, KeepsFateEvolves
<1>2. CASE k.queue = {}
  <2>1. QueueTransmit(k, item) = [tcp_rearm_rto_timer(k) EXCEPT !.queue = @ \union {item}]
    BY Zenon, <1>2 DEF QueueTransmit
  <2>2. Evolves(k, tcp_rearm_rto_timer(k)) /\ tcp_rearm_rto_timer(k) \in SockSet
    BY Zenon, TimersEvolve DEF Evolves
  <2> QED BY Zenon, <1>1, <2>1, <2>2, EvolvesTrans
<1>3. CASE k.queue # {}
  BY Zenon, <1>1, <1>3 DEF QueueTransmit
<1> QED BY Zenon, <1>2, <1>3

\* tcp_done marks the socket deleted, unless it was being taken down already.
LEMMA DoneDeletes ==
  ASSUME NEW k \in SockSet, NEW m, m = tcp_done(k)
  PROVE  /\ m \in SockSet /\ m.lock = k.lock /\ m.sleep = k.sleep
         /\ m.refcnt = k.refcnt /\ m.live = k.live
         /\ k.deleted => m.deleted
         /\ (k.state = "DISCONNECTING" => k.deleted) => m.deleted
<1>1. PICK c : c = tcp_clear_timers([k EXCEPT !.conn = "CLOSING"])
  BY Zenon
<1>2. c \in SockSet /\ KeepsFate(k, c)
  <2>1. "CLOSING" \in ConnStates
    BY Zenon DEF ConnStates
  <2> QED BY ZenonT(60), <1>1, <2>1 DEF SockSet, KeepsFate, tcp_clear_timers
<1>3. m = IF c.state = "DISCONNECTING" THEN c
          ELSE [c EXCEPT !.state = "DISCONNECTING", !.collector = TRUE, !.deleted = TRUE]
  BY Zenon, <1>1 DEF tcp_done, socket_delete
<1>4. CASE c.state = "DISCONNECTING"
  BY Zenon, <1>2, <1>3, <1>4 DEF KeepsFate
<1>5. CASE c.state # "DISCONNECTING"
  <2>1. m = [c EXCEPT !.state = "DISCONNECTING", !.collector = TRUE, !.deleted = TRUE]
    BY Zenon, <1>3, <1>5
  <2>2. /\ m \in SockSet /\ m.lock = c.lock /\ m.sleep = c.sleep /\ m.refcnt = c.refcnt
        /\ m.live = c.live /\ m.deleted = TRUE
    BY ZenonT(60), <1>2, <2>1 DEF SockSet
  <2> QED BY Zenon, <1>2, <2>2 DEF KeepsFate
<1> QED BY Zenon, <1>4, <1>5

-------------------------------------------------------------------------------
\* A call takes the lock with a reference and gives both back (socket_wr_acquire,
\* socket_release).
LEMMA AcquireRelease ==
  ASSUME NEW k \in SockSet, NEW t \in Threads, NEW a, a = socket_wr_acquire(k, t),
         NEW r, r = socket_release(a)
  PROVE  /\ a \in SockSet /\ a.lock = t /\ a.refcnt = k.refcnt + 1
         /\ a.sleep = k.sleep /\ a.live = k.live /\ a.deleted = k.deleted
         /\ Condemned(a) = Condemned(k)
         /\ r \in SockSet /\ r.lock = None /\ r.refcnt = k.refcnt
         /\ r.sleep = k.sleep /\ r.live = k.live /\ r.deleted = k.deleted
         /\ Condemned(r) = Condemned(k)
<1>1. k.refcnt \in Nat
  BY ZenonT(60) DEF SockSet
<1>2. PICK n \in Nat : n = k.refcnt + 1
  BY <1>1
<1>3. a = [k EXCEPT !.lock = t, !.refcnt = n]
  BY Zenon, <1>2 DEF socket_wr_acquire
<1>4. a \in SockSet
  <2>1. t \in Holders
    BY Zenon DEF Holders
  <2> QED BY ZenonT(60), <1>3, <2>1 DEF SockSet
<1>5. /\ a.lock = t /\ a.refcnt = n /\ a.sleep = k.sleep /\ a.live = k.live
      /\ a.deleted = k.deleted /\ a.state = k.state /\ a.collector = k.collector /\ a.err = k.err
  BY ZenonT(60), <1>3 DEF SockSet
<1>6. PICK l \in Nat : l = a.refcnt - 1 /\ l = k.refcnt
  BY <1>1, <1>2, <1>5
<1>7. r = [a EXCEPT !.lock = None, !.refcnt = l]
  BY Zenon, <1>6 DEF socket_release
<1>8. r \in SockSet
  <2>1. None \in Holders
    BY Zenon DEF Holders
  <2> QED BY ZenonT(60), <1>4, <1>7, <2>1 DEF SockSet
<1>9. /\ r.lock = None /\ r.refcnt = l /\ r.sleep = a.sleep /\ r.live = a.live
      /\ r.deleted = a.deleted /\ r.state = a.state /\ r.collector = a.collector /\ r.err = a.err
  BY ZenonT(60), <1>4, <1>7 DEF SockSet
<1>10. Condemned(a) = Condemned(k) /\ Condemned(r) = Condemned(k)
  BY Zenon, <1>5, <1>9 DEF Condemned
<1> QED BY Zenon, <1>2, <1>4, <1>5, <1>6, <1>8, <1>9, <1>10

\* The thread t has made r of the socket s: it holds afterwards what its place in the code
\* says, and nobody else's hold is disturbed.
Fits(t, s, r) ==
  /\ thr'[t].pc # "idle" => thr'[t].s = s
  /\ r.lock \in {sock[s].lock, t, None} /\ (r.lock # sock[s].lock => sock[s].lock \in {t, None})
  /\ r.lock = t <=> thr'[t].pc = "wakeup"
  /\ r.sleep \in {sock[s].sleep, t, None} /\ (r.sleep # sock[s].sleep => sock[s].sleep \in {t, None})
  /\ r.sleep = t <=> thr'[t].pc = "relock"
  /\ thr[t].pc \in {"wakeup", "relock"} => thr[t].s = s
  /\ thr[t].pc # "unlink" /\ thr'[t].pc # "unlink"
  /\ r.refcnt >= (IF r.lock = None THEN 1 ELSE 2)
  /\ r.live = sock[s].live
  /\ "bad_address" \notin Env =>
       /\ sock[s].deleted => r.deleted
       /\ Condemned(r) => r.deleted
       /\ thr'[t].pc = "free" => r.deleted

\* The other threads stay where they are, or one that slept is woken.
OthersStay(t) ==
  /\ thr' \in [Threads -> CallSet]
  /\ \A u \in Threads \ {t} :
        /\ thr'[u].s = thr[u].s
        /\ \/ thr'[u].pc = thr[u].pc
           \/ thr[u].pc \in {"receiving", "connecting"} /\ thr'[u].pc \in {"found", "woken"}

\* What every step is shown to do: it preserves the invariant, and a sock it frees is one
\* that was given up before.
Kept ==
  /\ LifeInv'
  /\ "bad_address" \notin Env =>
       \A s \in Sockets : sock[s].live /\ ~sock'[s].live => sock[s].deleted

\* Such a step preserves the invariant.
LEMMA OneSocketStep ==
  ASSUME LifeInv, NEW t \in Threads, NEW s \in Sockets, NEW r \in SockSet,
         sock' = [sock EXCEPT ![s] = r], table' = table, slock' = slock,
         Fits(t, s, r), OthersStay(t)
  PROVE  Kept
<1> USE DEF Fits, OthersStay
<1>1. /\ sock'[s] = r /\ \A x \in Sockets : x # s => sock'[x] = sock[x]
      /\ sock' \in [Sockets -> SockSet]
  BY Zenon DEF LifeInv, TypeOK
<1>2. TypeOK'
  <2>1. ASSUME NEW u \in Threads, thr'[u].pc # "idle" PROVE thr'[u].s \in Sockets
    <3>1. CASE u = t
      BY Zenon, <2>1, <3>1
    <3>2. CASE u # t
      BY <2>1, <3>2 DEF LifeInv, TypeOK
    <3> QED BY Zenon, <3>1, <3>2
  <2> QED BY Zenon, <1>1, <2>1 DEF LifeInv, TypeOK
<1>3. ASSUME NEW x \in Sockets, NEW u \in Threads
      PROVE  sock'[x].lock = u <=> thr'[u].pc = "wakeup" /\ thr'[u].s = x
  BY <1>1, NoneIsNoThread DEF LifeInv, LocksHeld
<1>4. ASSUME NEW x \in Sockets, NEW u \in Threads
      PROVE  sock'[x].sleep = u <=> thr'[u].pc = "relock" /\ thr'[u].s = x
  BY <1>1, NoneIsNoThread DEF LifeInv, LocksHeld
<1>5. ASSUME NEW u \in Threads PROVE slock' = u <=> thr'[u].pc = "unlink"
  BY DEF LifeInv, LocksHeld
<1>6. RefcountCovers'
  BY Zenon, <1>1 DEF LifeInv, RefcountCovers
<1>7. ListedIsLive'
  BY Zenon, <1>1 DEF LifeInv, TypeOK, ListedIsLive
<1>8. ASSUME "bad_address" \notin Env PROVE DeletedFirst'
  BY <1>1, <1>8 DEF LifeInv, TypeOK, DeletedFirst
<1>9. \A x \in Sockets : sock'[x].live = sock[x].live
  BY Zenon, <1>1
<1>10. LifeInv'
  BY Zenon, <1>2, <1>3, <1>4, <1>5, <1>6, <1>7, <1>8 DEF LifeInv, LocksHeld
<1> QED BY ZenonT(60), <1>9, <1>10 DEF Kept

\* tcp_done evolves the socket, with or without an error that is set before it.
LEMMA DoneEvolves ==
  ASSUME NEW k \in SockSet, NEW e \in Errors
  PROVE  Evolves(k, tcp_done(k)) /\ Evolves(k, tcp_done([k EXCEPT !.err = e]))
<1>1. Evolves(k, tcp_done(k))
  BY Zenon, DoneDeletes DEF Evolves, Condemned
<1>2. PICK x : x = [k EXCEPT !.err = e]
  BY Zenon
<1>3. x \in SockSet
  BY ZenonT(60), <1>2 DEF SockSet
<1>4. /\ x.lock = k.lock /\ x.sleep = k.sleep /\ x.refcnt = k.refcnt /\ x.live = k.live
      /\ x.deleted = k.deleted /\ x.state = k.state
  BY ZenonT(60), <1>2 DEF SockSet
<1>5. PICK m : m = tcp_done(x)
  BY Zenon
<1>6. /\ m \in SockSet /\ m.lock = x.lock /\ m.sleep = x.sleep /\ m.refcnt = x.refcnt
      /\ m.live = x.live
      /\ x.deleted => m.deleted
      /\ (x.state = "DISCONNECTING" => x.deleted) => m.deleted
  BY Zenon, <1>3, <1>5, DoneDeletes
<1>7. Evolves(k, m)
  BY Zenon, <1>4, <1>6 DEF Evolves, Condemned
<1> QED BY Zenon, <1>1, <1>2, <1>5, <1>7

\* An error that is not fatal evolves the socket.
LEMMA HarmlessErrorEvolves ==
  ASSUME NEW k \in SockSet, NEW e \in Errors, e \notin Fatal
  PROVE  Evolves(k, [k EXCEPT !.err = e])
<1>1. PICK x : x = [k EXCEPT !.err = e]
  BY Zenon
<1>2. x \in SockSet
  BY ZenonT(60), <1>1 DEF SockSet
<1>3. /\ x.lock = k.lock /\ x.sleep = k.sleep /\ x.refcnt = k.refcnt /\ x.live = k.live
      /\ x.deleted = k.deleted /\ x.state = k.state /\ x.collector = k.collector /\ x.err = e
  BY ZenonT(60), <1>1 DEF SockSet
<1> QED BY Zenon, <1>1, <1>2, <1>3 DEF Evolves, Condemned

\* A body that returns, and may have told a reader, preserves the invariant.
LEMMA BodyLeaves ==
  ASSUME LifeInv, NEW t \in Threads, thr[t].pc = "found", sock[thr[t].s].lock = None,
         NEW k, Evolves(sock[thr[t].s], k), Leave(t, k) \/ LeaveNotifying(t, k)
  PROVE  Kept
<1>1. PICK s \in Sockets : s = thr[t].s
  BY Zenon DEF LifeInv, TypeOK
<1>2. sock[s] \in SockSet /\ k \in SockSet /\ thr \in [Threads -> CallSet] /\ NoCall \in CallSet
  BY Zenon, <1>1 DEF LifeInv, TypeOK, Evolves, NoCall, CallSet
<1>3. PICK a, r : a = socket_wr_acquire(k, t) /\ r = socket_release(a)
  BY Zenon
<1>4. sock' = [sock EXCEPT ![s] = r] /\ table' = table /\ slock' = slock
  BY Zenon, <1>1, <1>3 DEF Leave, LeaveNotifying, Set
<1>5. /\ thr' \in [Threads -> CallSet] /\ thr'[t] = NoCall
      /\ \A u \in Threads \ {t} :
            /\ thr'[u].s = thr[u].s
            /\ thr'[u].pc = thr[u].pc \/ (thr[u].pc = "receiving" /\ thr'[u].pc = "found")
  <2>1. CASE thr' = [thr EXCEPT ![t] = NoCall]
    BY Zenon, <1>2, <2>1
  <2>2. ASSUME NEW v \in Threads, thr[v].pc = "receiving", NEW f,
               f = [thr EXCEPT ![v].pc = "found"], thr' = [f EXCEPT ![t] = NoCall]
        PROVE  <1>5!:
    <3>1. PICK c : c = [thr[v] EXCEPT !.pc = "found"]
      BY Zenon
    <3>2. c \in CallSet /\ c.pc = "found" /\ c.s = thr[v].s
      BY Zenon, <1>2, <3>1 DEF CallSet
    <3>3. f = [thr EXCEPT ![v] = c]
      BY Zenon, <2>2, <3>1
    <3>4. f \in [Threads -> CallSet] /\ f[v] = c /\ \A u \in Threads \ {v} : f[u] = thr[u]
      BY Zenon, <1>2, <3>2, <3>3
    <3>5. /\ thr' \in [Threads -> CallSet] /\ thr'[t] = NoCall
          /\ \A u \in Threads \ {t} : thr'[u] = f[u]
      BY Zenon, <1>2, <2>2, <3>4
    <3> QED BY Zenon, <2>2, <3>2, <3>4, <3>5
  <2>3. ASSUME Leave(t, k) PROVE thr' = [thr EXCEPT ![t] = NoCall]
    BY Zenon, <2>3 DEF Leave, Return
  <2>4. ASSUME LeaveNotifying(t, k), thr' # [thr EXCEPT ![t] = NoCall]
        PROVE  \E v \in Threads : \E f :
                  /\ thr[v].pc = "receiving" /\ f = [thr EXCEPT ![v].pc = "found"]
                  /\ thr' = [f EXCEPT ![t] = NoCall]
    <3>1. PICK f \in Notified(thr[t].s) : thr' = [f EXCEPT ![t] = NoCall]
      BY Zenon, <2>4 DEF LeaveNotifying
    <3>2. f # thr
      BY ZenonT(60), <2>4, <3>1
    <3>3. \E v \in Threads : thr[v].pc = "receiving" /\ f = [thr EXCEPT ![v].pc = "found"]
      BY Zenon, <3>2 DEF Notified, At
    <3> QED BY Zenon, <3>1, <3>3
  <2> QED BY Zenon, <2>1, <2>2, <2>3, <2>4
<1>6. NoCall.pc = "idle"
  BY Zenon DEF NoCall
<1>7. /\ r \in SockSet /\ r.lock = None /\ r.refcnt = k.refcnt /\ r.sleep = k.sleep
      /\ r.live = k.live /\ r.deleted = k.deleted /\ Condemned(r) = Condemned(k)
  BY <1>2, <1>3, AcquireRelease
<1>8. /\ r.sleep = sock[s].sleep /\ r.live = sock[s].live /\ r.refcnt = sock[s].refcnt
      /\ sock[s].deleted => r.deleted
      /\ (Condemned(sock[s]) => sock[s].deleted) => (Condemned(r) => r.deleted)
  BY Zenon, <1>1, <1>7 DEF Evolves
<1>9. r.refcnt >= 1 /\ r.sleep # t
  BY <1>1, <1>8 DEF LifeInv, RefcountCovers, LocksHeld
<1>10. "bad_address" \notin Env => (Condemned(r) => r.deleted)
  BY Zenon, <1>8 DEF LifeInv, DeletedFirst
<1>11. Fits(t, s, r) /\ OthersStay(t)
  BY <1>1, <1>5, <1>6, <1>7, <1>8, <1>9, <1>10, NoneIsNoThread DEF Fits, OthersStay
<1> QED BY Zenon, <1>4, <1>7, <1>11, OneSocketStep

\* A body that has come to wake connect() holds the socket and preserves the invariant.
LEMMA BodyWakes ==
  ASSUME LifeInv, NEW t \in Threads, thr[t].pc = "found", sock[thr[t].s].lock = None,
         NEW k, Evolves(sock[thr[t].s], k), WakeUp(t, k)
  PROVE  Kept
<1>1. PICK s \in Sockets : s = thr[t].s
  BY Zenon DEF LifeInv, TypeOK
<1>2. sock[s] \in SockSet /\ k \in SockSet /\ thr \in [Threads -> CallSet]
  BY Zenon, <1>1 DEF LifeInv, TypeOK, Evolves
<1>3. PICK r : r = socket_wr_acquire(k, t)
  BY Zenon
<1>4. sock' = [sock EXCEPT ![s] = r] /\ table' = table /\ slock' = slock
  BY Zenon, <1>1, <1>3 DEF WakeUp, Set
<1>5. PICK c : c = [thr[t] EXCEPT !.pc = "wakeup"]
  BY Zenon
<1>6. c \in CallSet /\ c.pc = "wakeup" /\ c.s = s
  BY Zenon, <1>1, <1>2, <1>5 DEF CallSet
<1>7. thr' = [thr EXCEPT ![t] = c]
  BY Zenon, <1>5 DEF WakeUp, Goto
<1>8. /\ r \in SockSet /\ r.lock = t /\ r.refcnt = k.refcnt + 1 /\ r.sleep = k.sleep
      /\ r.live = k.live /\ r.deleted = k.deleted /\ Condemned(r) = Condemned(k)
  BY <1>2, <1>3, AcquireRelease
<1>9. /\ r.sleep = sock[s].sleep /\ r.live = sock[s].live /\ r.refcnt = sock[s].refcnt + 1
      /\ sock[s].deleted => r.deleted
      /\ (Condemned(sock[s]) => sock[s].deleted) => (Condemned(r) => r.deleted)
  BY Zenon, <1>1, <1>8 DEF Evolves
<1>10. sock[s].refcnt \in Nat
  BY ZenonT(60), <1>2 DEF SockSet
<1>11. r.refcnt >= 2 /\ r.sleep # t
  BY <1>1, <1>9, <1>10 DEF LifeInv, RefcountCovers, LocksHeld
<1>12. "bad_address" \notin Env => (Condemned(r) => r.deleted)
  BY Zenon, <1>9 DEF LifeInv, DeletedFirst
<1>13. /\ thr' \in [Threads -> CallSet] /\ thr'[t].pc = "wakeup" /\ thr'[t].s = s
       /\ \A u \in Threads \ {t} : thr'[u] = thr[u]
  BY Zenon, <1>2, <1>6, <1>7
<1>14. Fits(t, s, r) /\ OthersStay(t)
  BY Zenon, <1>1, <1>8, <1>9, <1>11, <1>12, <1>13, NoneIsNoThread DEF Fits, OthersStay
<1> QED BY Zenon, <1>4, <1>8, <1>14, OneSocketStep

-------------------------------------------------------------------------------
\* _connect on a new socket keeps its lock, its count and its fate.
LEMMA ConnectingEvolves == ASSUME NEW k \in SockSet PROVE Evolves(k, StartsConnecting(k))
<1>1. PICK q : q = QueueTransmit(k, "syn")
  BY Zenon
<1>2. q \in SockSet /\ Evolves(k, q)
  BY Zenon, <1>1, QueueEvolves DEF Evolves
<1>3. PICK m : m = [q EXCEPT !.conn = "SYN_SENT", !.state = "CONNECTING", !.err = "EINPROGRESS"]
  BY Zenon
<1>4. "SYN_SENT" \in ConnStates /\ "EINPROGRESS" \in Errors /\ "EINPROGRESS" \notin Fatal
  BY Zenon DEF ConnStates, Errors, Fatal
<1>5. m \in SockSet
  BY ZenonT(60), <1>2, <1>3, <1>4 DEF SockSet
<1>6. /\ m.lock = q.lock /\ m.sleep = q.sleep /\ m.refcnt = q.refcnt /\ m.live = q.live
      /\ m.deleted = q.deleted /\ m.state = "CONNECTING" /\ m.collector = q.collector
      /\ m.err = "EINPROGRESS"
  BY ZenonT(60), <1>2, <1>3 DEF SockSet
<1>7. Evolves(q, m)
  BY Zenon, <1>4, <1>5, <1>6 DEF Evolves, Condemned
<1> QED BY Zenon, <1>1, <1>2, <1>3, <1>7, EvolvesTrans DEF StartsConnecting

\* Goto moves one thread.
LEMMA GotoMoves ==
  ASSUME LifeInv, NEW t \in Threads, NEW pc, Goto(t, pc),
         NEW c \in CallSet, c = [thr[t] EXCEPT !.pc = pc]
  PROVE  /\ thr' \in [Threads -> CallSet] /\ thr'[t] = c
         /\ \A u \in Threads \ {t} : thr'[u] = thr[u]
<1>1. thr \in [Threads -> CallSet]
  BY Zenon DEF LifeInv, TypeOK
<1>2. thr' = [thr EXCEPT ![t] = c]
  BY Zenon DEF Goto
<1> QED BY Zenon, <1>1, <1>2

\* A body that gives the socket back and goes on to sleep, or to socket_free of a socket
\* that was deleted, preserves the invariant.
LEMMA BodyGoesOn ==
  ASSUME LifeInv, NEW t \in Threads, thr[t].pc = "found", sock[thr[t].s].lock = None,
         NEW k, Evolves(sock[thr[t].s], k),
         Set(t, socket_release(socket_wr_acquire(k, t))),
         NEW c \in CallSet, thr' \in [Threads -> CallSet], thr'[t] = c,
         \A u \in Threads \ {t} : thr'[u] = thr[u],
         c.pc \in {"connecting", "receiving", "free"}, c.s = thr[t].s,
         table' = table, slock' = slock,
         ("bad_address" \notin Env /\ c.pc = "free") => k.deleted
  PROVE  Kept
<1>1. PICK s \in Sockets : s = thr[t].s
  BY Zenon DEF LifeInv, TypeOK
<1>2. sock[s] \in SockSet /\ k \in SockSet /\ thr \in [Threads -> CallSet]
  BY Zenon, <1>1 DEF LifeInv, TypeOK, Evolves
<1>3. PICK a, r : a = socket_wr_acquire(k, t) /\ r = socket_release(a)
  BY Zenon
<1>4. sock' = [sock EXCEPT ![s] = r]
  BY Zenon, <1>1, <1>3 DEF Set
<1>5. /\ r \in SockSet /\ r.lock = None /\ r.refcnt = k.refcnt /\ r.sleep = k.sleep
      /\ r.live = k.live /\ r.deleted = k.deleted /\ Condemned(r) = Condemned(k)
  BY SMTT(40), <1>2, <1>3, AcquireRelease
<1>6. /\ r.sleep = sock[s].sleep /\ r.live = sock[s].live /\ r.refcnt = sock[s].refcnt
      /\ sock[s].deleted => r.deleted
      /\ (Condemned(sock[s]) => sock[s].deleted) => (Condemned(r) => r.deleted)
  BY Zenon, <1>1, <1>5 DEF Evolves
<1>7. r.refcnt >= 1 /\ r.sleep # t
  BY <1>1, <1>6 DEF LifeInv, RefcountCovers, LocksHeld
<1>8. "bad_address" \notin Env => (Condemned(r) => r.deleted)
  BY Zenon, <1>6 DEF LifeInv, DeletedFirst
<1>9. Fits(t, s, r) /\ OthersStay(t)
  BY Zenon, <1>1, <1>5, <1>6, <1>7, <1>8, NoneIsNoThread DEF Fits, OthersStay
<1> QED BY ZenonT(60), <1>4, <1>5, <1>9, OneSocketStep

\* connect() on a socket that is new, connecting, connected or being taken down.
LEMMA ConnectKeeps ==
  ASSUME LifeInv, NEW t \in Threads, Connect(t) PROVE Kept
<1>1. PICK s \in Sockets : s = thr[t].s
  BY Zenon DEF LifeInv, TypeOK, Connect, Enters, At
<1>2. PICK k \in SockSet : k = sock[s]
  BY Zenon, <1>1 DEF LifeInv, TypeOK
<1>3. thr[t].pc = "found" /\ k.lock = None /\ thr[t] \in CallSet
  BY Zenon, <1>1, <1>2 DEF Connect, Enters, At, LifeInv, TypeOK
<1>4. "bad_address" \notin Env => (Condemned(k) => k.deleted)
  BY Zenon, <1>1, <1>2 DEF LifeInv, DeletedFirst
<1>5. ASSUME NEW pc \in {"free", "connecting"}
      PROVE  LET c == [thr[t] EXCEPT !.pc = pc] IN c \in CallSet /\ c.pc = pc /\ c.s = thr[t].s
  BY Zenon, <1>3 DEF CallSet
<1>6. CASE /\ k.state \in Refusing
           /\ Set(t, socket_release(socket_wr_acquire(
                       [k EXCEPT !.err = IF k.state = "DISCONNECTING" THEN "EINVAL" ELSE @], t)))
           /\ Goto(t, "free") /\ UNCHANGED <<table, slock>>
  <2>1. PICK m : m = [k EXCEPT !.err = IF k.state = "DISCONNECTING" THEN "EINVAL" ELSE @]
    BY Zenon
  <2>2. Evolves(k, m) /\ (k.state = "DISCONNECTING" /\ k.deleted => m.deleted)
    <3>1. CASE k.state = "DISCONNECTING"
      <4>1. m = [k EXCEPT !.err = "EINVAL"] /\ "EINVAL" \in Errors
        BY Zenon, <2>1, <3>1 DEF Errors, Fatal
      <4>2. m \in SockSet
        BY ZenonT(60), <4>1 DEF SockSet
      <4>3. /\ m.lock = k.lock /\ m.sleep = k.sleep /\ m.refcnt = k.refcnt /\ m.live = k.live
            /\ m.deleted = k.deleted
        BY ZenonT(60), <4>1 DEF SockSet
      <4> QED BY Zenon, <3>1, <4>2, <4>3 DEF Evolves, Condemned
    <3>2. CASE k.state # "DISCONNECTING"
      <4>1. m = [k EXCEPT !.err = k.err]
        BY Zenon, <2>1, <3>2
      <4>2. m = k
        BY ZenonT(60), <4>1 DEF SockSet
      <4> QED BY Zenon, <3>2, <4>2, EvolvesRefl
    <3> QED BY Zenon, <3>1, <3>2
  <2>3. "bad_address" \notin Env => m.deleted
    BY Zenon, <1>4, <1>6, <2>2 DEF Refusing, Condemned
  <2>4. PICK c : c = [thr[t] EXCEPT !.pc = "free"]
    BY Zenon
  <2>5. c \in CallSet /\ c.pc = "free" /\ c.s = thr[t].s
    BY Zenon, <1>5, <2>4
  <2>6. Set(t, socket_release(socket_wr_acquire(m, t)))
    BY Zenon, <1>6, <2>1
  <2>7. /\ thr' \in [Threads -> CallSet] /\ thr'[t] = c
        /\ \A u \in Threads \ {t} : thr'[u] = thr[u]
    BY <1>6, <2>4, <2>5, GotoMoves
  <2>8. table' = table /\ slock' = slock
    BY Zenon, <1>6
  <2> QED BY Zenon, <1>1, <1>2, <1>3, <2>2, <2>3, <2>5, <2>6, <2>7, <2>8, BodyGoesOn
<1>7. CASE Leave(t, [k EXCEPT !.err = "EISCONN"])
  BY Zenon, <1>1, <1>2, <1>3, <1>7, HarmlessErrorEvolves, BodyLeaves DEF Errors, Fatal
<1>8. CASE Leave(t, [k EXCEPT !.err = "EALREADY"])
  BY Zenon, <1>1, <1>2, <1>3, <1>8, HarmlessErrorEvolves, BodyLeaves DEF Errors, Fatal
<1>9. CASE Leave(t, StartsConnecting(k))
  BY Zenon, <1>1, <1>2, <1>3, <1>9, ConnectingEvolves, BodyLeaves
<1>10. CASE /\ Set(t, socket_release(socket_wr_acquire(StartsConnecting(k), t)))
            /\ Goto(t, "connecting") /\ UNCHANGED <<table, slock>>
  <2>1. PICK c : c = [thr[t] EXCEPT !.pc = "connecting"]
    BY ZenonT(60)
  <2>2. c \in CallSet /\ c.pc = "connecting" /\ c.s = thr[t].s
    BY Zenon, <1>5, <2>1
  <2>3. Set(t, socket_release(socket_wr_acquire(StartsConnecting(k), t)))
    BY Zenon, <1>10
  <2>4. /\ thr' \in [Threads -> CallSet] /\ thr'[t] = c
        /\ \A u \in Threads \ {t} : thr'[u] = thr[u]
    BY <1>10, <2>1, <2>2, GotoMoves
  <2>5. table' = table /\ slock' = slock
    BY Zenon, <1>10
  <2> QED BY Zenon, <1>1, <1>2, <1>3, <2>2, <2>3, <2>4, <2>5, ConnectingEvolves, BodyGoesOn
<1> QED BY Zenon, <1>1, <1>2, <1>6, <1>7, <1>8, <1>9, <1>10 DEF Connect

\* What a thread finds when it enters the body of a call.
LEMMA EntersFinds ==
  ASSUME LifeInv, NEW t \in Threads, NEW ops, Enters(t, ops)
  PROVE  /\ thr[t].pc = "found" /\ thr[t].s \in Sockets
         /\ sock[thr[t].s] \in SockSet /\ sock[thr[t].s].lock = None
  BY Zenon DEF Enters, At, LifeInv, TypeOK

\* The calls that write, read, close, set a flag or only look.
LEMMA CallsKeep ==
  ASSUME LifeInv, NEW t \in Threads, Write(t) \/ Read(t) \/ Close(t) \/ Fcntl(t) \/ Query(t)
  PROVE  Kept
<1>1. PICK k : k = sock[thr[t].s]
  BY Zenon
<1>2. thr[t].pc = "found" /\ thr[t].s \in Sockets /\ k \in SockSet /\ k.lock = None
  BY Zenon, <1>1, EntersFinds DEF Write, Read, Close, Fcntl, Query
<1>3. CASE Write(t)
  <2>1. PICK q : q = QueueTransmit(k, "data")
    BY Zenon
  <2>2. q \in SockSet /\ Evolves(k, q)
    BY Zenon, <1>2, <2>1, QueueEvolves DEF Evolves
  <2>3. Evolves(k, tcp_rearm_user_timeout(q))
    BY Zenon, <2>2, TimersEvolve, EvolvesTrans
  <2>4. Leave(t, tcp_rearm_user_timeout(q)) \/ Leave(t, k)
    BY Zenon, <1>1, <1>3, <2>1 DEF Write
  <2> QED BY Zenon, <1>1, <1>2, <2>3, <2>4, EvolvesRefl, BodyLeaves
<1>4. CASE Read(t)
  <2>1. CASE Leave(t, k) \/ Leave(t, tcp_rearm_user_timeout(k))
    BY Zenon, <1>1, <1>2, <2>1, EvolvesRefl, TimersEvolve, BodyLeaves
  <2>2. CASE /\ Set(t, socket_release(socket_wr_acquire(k, t)))
             /\ thr' = [thr EXCEPT ![t].pc = "receiving", ![t].op = "read"]
             /\ UNCHANGED <<table, slock>>
    <3>1. PICK c : c = [thr[t] EXCEPT !.pc = "receiving", !.op = "read"]
      BY Zenon
    <3>2. thr \in [Threads -> CallSet] /\ thr[t] \in CallSet
      BY Zenon DEF LifeInv, TypeOK
    <3>3. c \in CallSet /\ c.pc = "receiving" /\ c.s = thr[t].s
      BY Zenon, <3>1, <3>2 DEF CallSet
    <3>4. thr' = [thr EXCEPT ![t] = c]
      BY Zenon, <2>2, <3>1, <3>2
    <3>5. /\ thr' \in [Threads -> CallSet] /\ thr'[t] = c
          /\ \A u \in Threads \ {t} : thr'[u] = thr[u]
      BY Zenon, <3>2, <3>3, <3>4
    <3>6. table' = table /\ slock' = slock /\ Set(t, socket_release(socket_wr_acquire(k, t)))
      BY Zenon, <2>2
    <3> QED BY Zenon, <1>1, <1>2, <3>3, <3>5, <3>6, EvolvesRefl, BodyGoesOn
  <2> QED BY Zenon, <1>1, <1>4, <2>1, <2>2 DEF Read
<1>5. CASE Close(t)
  <2>1. CASE WakeUp(t, tcp_done(k))
    BY Zenon, <1>1, <1>2, <2>1, DoneEvolves, BodyWakes DEF Errors
  <2>2. CASE Leave(t, QueueTransmit([k EXCEPT !.conn = "FIN_WAIT"], "fin"))
    <3>1. PICK f : f = [k EXCEPT !.conn = "FIN_WAIT"]
      BY ZenonT(60)
    <3>2. f \in SockSet /\ KeepsFate(k, f)
      <4>1. "FIN_WAIT" \in ConnStates
        BY Zenon DEF ConnStates
      <4> QED BY ZenonT(60), <1>2, <3>1, <4>1 DEF SockSet, KeepsFate
    <3>3. Evolves(k, QueueTransmit(f, "fin"))
      BY Zenon, <3>2, KeepsFateEvolves, QueueEvolves, EvolvesTrans
    <3> QED BY Zenon, <1>1, <1>2, <2>2, <3>1, <3>3, BodyLeaves
  <2>3. CASE Leave(t, QueueTransmit(k, "fin"))
    BY Zenon, <1>1, <1>2, <2>3, QueueEvolves, BodyLeaves
  <2>4. CASE Leave(t, [k EXCEPT !.err = "EBADF"])
    BY Zenon, <1>1, <1>2, <2>4, HarmlessErrorEvolves, BodyLeaves DEF Errors, Fatal
  <2> QED BY Zenon, <1>1, <1>5, <2>1, <2>2, <2>3, <2>4 DEF Close
<1>6. CASE Fcntl(t)
  <2>1. PICK b \in BOOLEAN : Leave(t, [k EXCEPT !.nonblock = b])
    BY Zenon, <1>1, <1>6 DEF Fcntl
  <2>2. PICK m : m = [k EXCEPT !.nonblock = b]
    BY ZenonT(60)
  <2>3. m \in SockSet /\ KeepsFate(k, m)
    BY ZenonT(60), <1>2, <2>2 DEF SockSet, KeepsFate
  <2> QED BY Zenon, <1>1, <1>2, <2>1, <2>2, <2>3, KeepsFateEvolves, BodyLeaves
<1>7. CASE Query(t)
  BY Zenon, <1>1, <1>2, <1>7, EvolvesRefl, BodyLeaves DEF Query
<1> QED BY Zenon, <1>3, <1>4, <1>5, <1>6, <1>7

\* The handlers of the retransmission and linger timers.
LEMMA HandlersKeep ==
  ASSUME LifeInv, NEW t \in Threads,
         tcp_connect_rto(t) \/ tcp_retransmission_timeout(t) \/ tcp_linger(t)
  PROVE  Kept
<1>1. PICK j, k : j = sock[thr[t].s] /\ k = tcp_release_rto_timer(j)
  BY Zenon
<1>2. thr[t].pc = "found" /\ thr[t].s \in Sockets /\ j \in SockSet /\ j.lock = None
  BY ZenonT(60), <1>1, EntersFinds DEF tcp_connect_rto, tcp_retransmission_timeout, tcp_linger
<1>3. Evolves(j, k) /\ k \in SockSet
  BY Zenon, <1>1, <1>2, TimersEvolve DEF Evolves
<1>4. "ETIMEDOUT" \in Errors
  BY Zenon DEF Errors, Fatal
<1>5. CASE tcp_connect_rto(t)
  <2>1. CASE Leave(t, k)
    BY Zenon, <1>1, <1>2, <1>3, <2>1, BodyLeaves
  <2>2. CASE WakeUp(t, tcp_done([k EXCEPT !.err = "ETIMEDOUT"]))
    BY Zenon, <1>1, <1>2, <1>3, <1>4, <2>2, DoneEvolves, EvolvesTrans, BodyWakes
  <2>3. CASE Leave(t, tcp_rearm_rto_timer([k EXCEPT !.backoff = @ + 1]))
    <3>1. PICK n \in Nat : n = k.backoff + 1
      <4>1. k.backoff \in Nat
        BY ZenonT(60), <1>3 DEF SockSet
      <4> QED BY <4>1
    <3>2. PICK f : f = [k EXCEPT !.backoff = @ + 1]
      BY Zenon
    <3>3. f = [k EXCEPT !.backoff = n]
      BY Zenon, <3>1, <3>2
    <3>4. f \in SockSet /\ KeepsFate(k, f)
      BY ZenonT(60), <1>3, <3>3 DEF SockSet, KeepsFate
    <3>5. Evolves(j, tcp_rearm_rto_timer(f))
      BY Zenon, <1>3, <3>4, KeepsFateEvolves, TimersEvolve, EvolvesTrans
    <3> QED BY Zenon, <1>1, <1>2, <2>3, <3>2, <3>5, BodyLeaves
  <2> QED BY Zenon, <1>1, <1>5, <2>1, <2>2, <2>3 DEF tcp_connect_rto
<1>6. CASE tcp_retransmission_timeout(t)
  <2>1. CASE WakeUp(t, k)
    BY Zenon, <1>1, <1>2, <1>3, <2>1, BodyWakes
  <2>2. CASE Leave(t, k)
    BY Zenon, <1>1, <1>2, <1>3, <2>2, BodyLeaves
  <2>3. PICK f : f = tcp_rearm_rto_timer(k)
    BY Zenon
  <2>4. Evolves(j, f) /\ f \in SockSet
    BY Zenon, <1>3, <2>3, TimersEvolve, EvolvesTrans DEF Evolves
  <2>5. CASE Leave(t, [f EXCEPT !.conn =
                         IF k.queue = {"fin"} /\ @ = "CLOSE_WAIT" THEN "LAST_ACK" ELSE @])
    <3>1. PICK st \in ConnStates :
             st = IF k.queue = {"fin"} /\ f.conn = "CLOSE_WAIT" THEN "LAST_ACK" ELSE f.conn
      <4>1. f.conn \in ConnStates
        BY ZenonT(60), <2>4 DEF SockSet
      <4> QED BY Zenon, <4>1 DEF ConnStates
    <3>2. [f EXCEPT !.conn = st] \in SockSet /\ KeepsFate(f, [f EXCEPT !.conn = st])
      BY ZenonT(60), <2>4 DEF SockSet, KeepsFate
    <3>3. Leave(t, [f EXCEPT !.conn = st])
      BY Zenon, <2>5, <3>1
    <3> QED BY Zenon, <1>1, <1>2, <2>4, <3>2, <3>3, KeepsFateEvolves, EvolvesTrans, BodyLeaves
  <2>6. CASE WakeUp(t, [tcp_done(k) EXCEPT !.err = "ETIMEDOUT"])
    <3>1. PICK d, m : d = tcp_done(k) /\ m = [d EXCEPT !.err = "ETIMEDOUT"]
      BY Zenon
    <3>2. /\ d \in SockSet /\ d.lock = k.lock /\ d.sleep = k.sleep
          /\ d.refcnt = k.refcnt /\ d.live = k.live
          /\ k.deleted => d.deleted
          /\ (k.state = "DISCONNECTING" => k.deleted) => d.deleted
      BY Zenon, <1>3, <3>1, DoneDeletes
    <3>3. m \in SockSet
      BY ZenonT(60), <1>4, <3>1, <3>2 DEF SockSet
    <3>4. /\ m.lock = d.lock /\ m.sleep = d.sleep /\ m.refcnt = d.refcnt /\ m.live = d.live
          /\ m.deleted = d.deleted
      BY ZenonT(60), <3>1, <3>2 DEF SockSet
    <3>5. Evolves(k, m)
      BY Zenon, <3>2, <3>3, <3>4 DEF Evolves, Condemned
    <3> QED BY Zenon, <1>1, <1>2, <1>3, <2>6, <3>1, <3>5, EvolvesTrans, BodyWakes
  <2> QED BY Zenon, <1>1, <1>6, <2>1, <2>2, <2>3, <2>5, <2>6 DEF tcp_retransmission_timeout
<1>7. CASE tcp_linger(t)
  BY Zenon, <1>1, <1>2, <1>4, <1>7, DoneEvolves, BodyWakes DEF tcp_linger
<1> QED BY Zenon, <1>5, <1>6, <1>7

\* The acknowledgment field changes the write queue and its timer only.
LEMMA AckEvolves ==
  ASSUME NEW k \in SockSet, NEW a \in AckTakes(k)
  PROVE  a \in SockSet /\ Evolves(k, a)
<1>1. CASE k.conn = "TIME_WAIT"
  BY Zenon, <1>1, EvolvesRefl DEF AckTakes
<1>2. CASE k.conn # "TIME_WAIT"
  <2>1. PICK q \in {k.queue, k.queue \ {"data"}, {}}, r \in BOOLEAN :
                a = [k EXCEPT !.queue = q, !.rto = r]
    <3>1. PICK q \in {k.queue, k.queue \ {"data"}, {}} :
             a \in {[k EXCEPT !.queue = q, !.rto = r] : r \in RtoAfter(k, q)}
      BY Zenon, <1>2 DEF AckTakes
    <3>2. PICK r \in RtoAfter(k, q) : a = [k EXCEPT !.queue = q, !.rto = r]
      BY Zenon, <3>1
    <3>3. r \in BOOLEAN
      BY Zenon DEF RtoAfter
    <3> QED BY Zenon, <3>1, <3>2, <3>3
  <2>2. k.queue \in SUBSET {"syn", "data", "fin"}
    BY ZenonT(60) DEF SockSet
  <2>3. q \in SUBSET {"syn", "data", "fin"}
    BY Zenon, <2>1, <2>2
  <2>4. a \in SockSet
    BY ZenonT(60), <2>1, <2>3 DEF SockSet
  <2>5. KeepsFate(k, a)
    BY ZenonT(60), <2>1 DEF SockSet, KeepsFate
  <2> QED BY Zenon, <2>4, <2>5, KeepsFateEvolves
<1> QED BY Zenon, <1>1, <1>2

\* So do the steps an acknowledged FIN and an arriving FIN make between the states.
LEMMA FinEvolves ==
  ASSUME NEW k \in SockSet PROVE Evolves(k, FinAcked(k)) /\ Evolves(k, FinArrives(k))
<1>1. ASSUME NEW st \in ConnStates PROVE Evolves(k, [k EXCEPT !.conn = st])
  <2>1. [k EXCEPT !.conn = st] \in SockSet /\ KeepsFate(k, [k EXCEPT !.conn = st])
    BY ZenonT(60) DEF SockSet, KeepsFate
  <2> QED BY Zenon, <2>1, KeepsFateEvolves
<1>2. {"TIME_WAIT", "CLOSE_WAIT", "CLOSING"} \subseteq ConnStates
  BY Zenon DEF ConnStates
<1>3. Evolves(k, FinAcked(k))
  BY Zenon, <1>1, <1>2, EvolvesRefl DEF FinAcked
<1>4. Evolves(k, FinArrives(k))
  BY Zenon, <1>1, <1>2, EvolvesRefl, TimersEvolve DEF FinArrives
<1> QED BY Zenon, <1>3, <1>4

\* tcp_input_state, for every segment.
LEMMA SegmentKeeps ==
  ASSUME LifeInv, NEW seg \in Segments, Segment(seg) PROVE Kept
<1>1. PICK k : k = sock[thr[core].s]
  BY Zenon
<1>2. core \in Threads
  BY DEF Threads
<1>3. thr[core].pc = "found" /\ thr[core].s \in Sockets /\ k \in SockSet /\ k.lock = None
  BY Zenon, <1>1, <1>2, EntersFinds DEF Segment
<1>4. CASE WakeUp(core, Established(k))
  <2>1. PICK c : c = tcp_clear_timers(k)
    BY Zenon
  <2>2. c \in SockSet /\ Evolves(k, c)
    BY Zenon, <1>3, <2>1, TimersEvolve DEF Evolves
  <2>3. PICK m : m = [c EXCEPT !.conn = "ESTABLISHED", !.queue = {}, !.state = "CONNECTED",
                               !.err = "0"]
    BY Zenon
  <2>4. "ESTABLISHED" \in ConnStates /\ "0" \in Errors /\ "0" \notin Fatal
    BY Zenon DEF ConnStates, Errors, Fatal
  <2>5. m \in SockSet
    BY ZenonT(60), <2>2, <2>3, <2>4 DEF SockSet
  <2>6. /\ m.lock = c.lock /\ m.sleep = c.sleep /\ m.refcnt = c.refcnt /\ m.live = c.live
        /\ m.deleted = c.deleted /\ m.state = "CONNECTED" /\ m.collector = c.collector
        /\ m.err = "0"
    BY ZenonT(60), <2>2, <2>3 DEF SockSet
  <2>7. Evolves(c, m)
    BY Zenon, <2>4, <2>5, <2>6 DEF Evolves, Condemned
  <2>8. Evolves(k, tcp_rearm_user_timeout(m))
    BY Zenon, <2>2, <2>5, <2>7, TimersEvolve, EvolvesTrans
  <2>9. Established(k) = tcp_rearm_user_timeout(m)
    BY Zenon, <2>1, <2>3 DEF Established
  <2> QED BY Zenon, <1>1, <1>2, <1>3, <1>4, <2>8, <2>9, BodyWakes
<1>5. CASE WakeUp(core, tcp_done([k EXCEPT !.err = "ECONNREFUSED"]))
  BY ZenonT(60), <1>1, <1>2, <1>3, <1>5, DoneEvolves, BodyWakes DEF Errors, Fatal
<1>6. CASE Leave(core, k)
  BY Zenon, <1>1, <1>2, <1>3, <1>6, EvolvesRefl, BodyLeaves
<1>7. CASE LeaveNotifying(core, tcp_enter_time_wait(k))
  BY Zenon, <1>1, <1>2, <1>3, <1>7, TimersEvolve, BodyLeaves
<1>8. ASSUME NEW a \in AckTakes(k),
             \/ WakeUp(core, tcp_done(a))
             \/ LeaveNotifying(core, FinArrives(FinAcked(a)))
             \/ Leave(core, FinAcked(a)) \/ LeaveNotifying(core, FinAcked(a))
      PROVE  Kept
  <2>1. a \in SockSet /\ Evolves(k, a)
    BY Zenon, <1>3, AckEvolves
  <2>2. Evolves(k, FinAcked(a)) /\ FinAcked(a) \in SockSet
    BY Zenon, <2>1, FinEvolves, EvolvesTrans DEF Evolves
  <2>3. Evolves(k, FinArrives(FinAcked(a)))
    BY Zenon, <2>2, FinEvolves, EvolvesTrans
  <2>4. Evolves(k, tcp_done(a))
    BY Zenon, <2>1, DoneEvolves, EvolvesTrans DEF Errors
  <2> QED BY Zenon, <1>1, <1>2, <1>3, <1>8, <2>2, <2>3, <2>4, BodyWakes, BodyLeaves
<1>9. \/ WakeUp(core, Established(k))
      \/ WakeUp(core, tcp_done([k EXCEPT !.err = "ECONNREFUSED"]))
      \/ Leave(core, k) \/ LeaveNotifying(core, tcp_enter_time_wait(k))
      \/ \E a \in AckTakes(k) :
            \/ WakeUp(core, tcp_done(a))
            \/ LeaveNotifying(core, FinArrives(FinAcked(a)))
            \/ Leave(core, FinAcked(a)) \/ LeaveNotifying(core, FinAcked(a))
  <2>1. CASE k.conn = "SYN_SENT"
    BY Zenon, <1>1, <2>1 DEF Segment
  <2>2. CASE k.conn # "SYN_SENT"
    BY Zenon, <1>1, <2>2 DEF Segment
  <2> QED BY Zenon, <2>1, <2>2
<1> QED BY Zenon, <1>4, <1>5, <1>6, <1>7, <1>8, <1>9

-------------------------------------------------------------------------------
\* connect() gets the sleep mutex again after its wait.
LEMMA SleepEndsKeeps ==
  ASSUME LifeInv, NEW t \in Threads, SleepEnds(t) PROVE Kept
<1>1. PICK s \in Sockets : s = thr[t].s
  BY Zenon DEF LifeInv, TypeOK, SleepEnds, At
<1>2. PICK k, r : k = sock[s] /\ r = [k EXCEPT !.sleep = t]
  BY Zenon
<1>3. k \in SockSet /\ thr[t].pc = "woken" /\ k.sleep = None /\ thr[t] \in CallSet
  BY Zenon, <1>1, <1>2 DEF LifeInv, TypeOK, SleepEnds, At
<1>4. t \in Holders
  BY Zenon DEF Holders
<1>5. r \in SockSet
  BY ZenonT(60), <1>2, <1>3, <1>4 DEF SockSet
<1>6. /\ r.sleep = t /\ r.lock = k.lock /\ r.refcnt = k.refcnt /\ r.live = k.live
      /\ r.deleted = k.deleted /\ r.state = k.state /\ r.collector = k.collector /\ r.err = k.err
  BY ZenonT(60), <1>2, <1>3 DEF SockSet
<1>7. sock' = [sock EXCEPT ![s] = r] /\ table' = table /\ slock' = slock
  BY Zenon, <1>1, <1>2 DEF SleepEnds, Set
<1>8. PICK c : c = [thr[t] EXCEPT !.pc = "relock"]
  BY Zenon
<1>9. c \in CallSet /\ c.pc = "relock" /\ c.s = s
  BY Zenon, <1>1, <1>3, <1>8 DEF CallSet
<1>10. /\ thr' \in [Threads -> CallSet] /\ thr'[t] = c
       /\ \A u \in Threads \ {t} : thr'[u] = thr[u]
  BY SMTT(40), <1>8, <1>9, GotoMoves DEF SleepEnds
<1>11. /\ r.refcnt >= (IF r.lock = None THEN 1 ELSE 2) /\ r.lock # t
       /\ "bad_address" \notin Env => (Condemned(r) => r.deleted)
  BY SMTT(40), <1>1, <1>2, <1>3, <1>6 DEF LifeInv, LocksHeld, RefcountCovers, DeletedFirst, Condemned
<1>12. Fits(t, s, r) /\ OthersStay(t)
  BY Zenon, <1>1, <1>2, <1>3, <1>6, <1>9, <1>10, <1>11, NoneIsNoThread DEF Fits, OthersStay
<1> QED BY Zenon, <1>5, <1>7, <1>12, OneSocketStep

\* connect() has both locks back and waits again, fails or returns.
LEMMA ConnectResumesKeeps ==
  ASSUME LifeInv, NEW t \in Threads, ConnectResumes(t) PROVE Kept
<1>1. PICK s \in Sockets : s = thr[t].s
  BY Zenon DEF LifeInv, TypeOK, ConnectResumes, At
<1>2. PICK j, k : j = sock[s] /\ k = socket_wr_acquire(j, t)
  BY Zenon
<1>3. /\ j \in SockSet /\ thr[t].pc = "relock" /\ j.lock = None /\ j.sleep = t
      /\ thr \in [Threads -> CallSet] /\ thr[t] \in CallSet
  BY <1>1, <1>2 DEF LifeInv, TypeOK, LocksHeld, ConnectResumes, At
<1>4. /\ k \in SockSet /\ k.lock = t /\ k.refcnt = j.refcnt + 1 /\ k.sleep = t
      /\ k.live = j.live /\ k.deleted = j.deleted /\ Condemned(k) = Condemned(j)
  BY <1>2, <1>3, AcquireRelease
<1>5. j.refcnt \in Nat /\ j.refcnt >= 1
  <2>1. j.refcnt \in Nat
    BY ZenonT(60), <1>3 DEF SockSet
  <2> QED BY Zenon, <1>2, <1>3, <2>1 DEF LifeInv, RefcountCovers
<1>6. "bad_address" \notin Env => (Condemned(k) => k.deleted)
  BY Zenon, <1>2, <1>4 DEF LifeInv, DeletedFirst
<1>7. table' = table /\ slock' = slock
  BY Zenon DEF ConnectResumes
<1>8. PICK x, over : x = [k EXCEPT !.sleep = None] /\ over = socket_wr_acquire(x, t)
  BY Zenon
<1>9. None \in Holders
  BY Zenon DEF Holders
<1>10. x \in SockSet
  BY ZenonT(60), <1>4, <1>8, <1>9 DEF SockSet
<1>11. /\ x.sleep = None /\ x.lock = k.lock /\ x.refcnt = k.refcnt /\ x.live = k.live
       /\ x.deleted = k.deleted /\ x.state = k.state /\ x.collector = k.collector /\ x.err = k.err
  BY ZenonT(60), <1>4, <1>8 DEF SockSet
<1>12. Condemned(x) = Condemned(k)
  BY Zenon, <1>11 DEF Condemned
<1>13. PICK z :
          /\ z = socket_release(over)
          /\ over \in SockSet /\ over.lock = t /\ over.refcnt = x.refcnt + 1
          /\ over.sleep = x.sleep /\ over.live = x.live /\ over.deleted = x.deleted
          /\ Condemned(over) = Condemned(x)
          /\ z \in SockSet /\ z.lock = None /\ z.refcnt = x.refcnt
          /\ z.sleep = x.sleep /\ z.live = x.live /\ z.deleted = x.deleted
          /\ Condemned(z) = Condemned(x)
  <2>1. over = socket_wr_acquire(x, t)
    BY Zenon, <1>8
  <2>2. PICK z : z = socket_release(over)
    BY Zenon
  <2>3. /\ over \in SockSet /\ over.lock = t /\ over.refcnt = x.refcnt + 1
        /\ over.sleep = x.sleep /\ over.live = x.live /\ over.deleted = x.deleted
        /\ Condemned(over) = Condemned(x)
    BY <1>10, <2>1, AcquireRelease
  <2>4. /\ z \in SockSet /\ z.lock = None /\ z.refcnt = x.refcnt
        /\ z.sleep = x.sleep /\ z.live = x.live /\ z.deleted = x.deleted
        /\ Condemned(z) = Condemned(x)
    BY <1>10, <2>1, <2>2, AcquireRelease
  <2> QED BY Zenon, <2>2, <2>3, <2>4
<1>14. ASSUME NEW pc \in {"connecting", "free"}, NEW c, c = [thr[t] EXCEPT !.pc = pc]
       PROVE  c \in CallSet /\ c.pc = pc /\ c.s = s
  BY Zenon, <1>1, <1>3, <1>14 DEF CallSet
<1>15. CASE /\ Set(t, [socket_release(k) EXCEPT !.sleep = None])
            /\ Goto(t, "connecting")
  <2>1. PICK q, r : q = socket_release(k) /\ r = [q EXCEPT !.sleep = None]
    BY Zenon
  <2>2. /\ q \in SockSet /\ q.lock = None /\ q.refcnt = j.refcnt /\ q.live = j.live
        /\ q.deleted = j.deleted /\ Condemned(q) = Condemned(j)
    BY <1>2, <1>3, <2>1, AcquireRelease
  <2>3. r \in SockSet
    BY ZenonT(60), <1>9, <2>1, <2>2 DEF SockSet
  <2>4. /\ r.sleep = None /\ r.lock = None /\ r.refcnt = j.refcnt /\ r.live = j.live
        /\ r.deleted = j.deleted /\ r.state = q.state /\ r.collector = q.collector /\ r.err = q.err
    BY ZenonT(60), <2>1, <2>2 DEF SockSet
  <2>5. Condemned(r) = Condemned(j)
    BY Zenon, <2>2, <2>4 DEF Condemned
  <2>6. sock' = [sock EXCEPT ![s] = r]
    BY Zenon, <1>1, <1>15, <2>1 DEF Set
  <2>7. PICK c : c = [thr[t] EXCEPT !.pc = "connecting"]
    BY Zenon
  <2>8. /\ thr' \in [Threads -> CallSet] /\ thr'[t] = c
        /\ \A u \in Threads \ {t} : thr'[u] = thr[u]
    BY <1>14, <1>15, <2>7, GotoMoves
  <2>9. c.pc = "connecting" /\ c.s = s
    BY Zenon, <1>14, <2>7
  <2>10. Fits(t, s, r) /\ OthersStay(t)
    BY <1>1, <1>2, <1>3, <1>4, <1>5, <1>6, <2>4, <2>5, <2>8, <2>9, NoneIsNoThread
    DEF Fits, OthersStay
  <2> QED BY Zenon, <1>7, <2>3, <2>6, <2>10, OneSocketStep
<1>16. CASE /\ k.err \in Fatal
            /\ Set(t, socket_release(over)) /\ Goto(t, "free")
  <2>1. PICK r : r = socket_release(over)
    BY Zenon
  <2>2. /\ r \in SockSet /\ r.lock = None /\ r.refcnt = x.refcnt /\ r.sleep = None
        /\ r.live = x.live /\ r.deleted = x.deleted /\ Condemned(r) = Condemned(x)
    BY Zenon, <1>11, <1>13, <2>1
  <2>3. sock' = [sock EXCEPT ![s] = r]
    BY Zenon, <1>1, <1>16, <2>1 DEF Set
  <2>4. PICK c : c = [thr[t] EXCEPT !.pc = "free"]
    BY Zenon
  <2>5. /\ thr' \in [Threads -> CallSet] /\ thr'[t] = c
        /\ \A u \in Threads \ {t} : thr'[u] = thr[u]
    BY <1>14, <1>16, <2>4, GotoMoves
  <2>6. c.pc = "free" /\ c.s = s
    BY ZenonT(60), <1>14, <2>4
  <2>7. "bad_address" \notin Env => r.deleted
    BY Zenon, <1>6, <1>11, <1>16, <2>2 DEF Condemned
  <2>8. r.refcnt >= 1 /\ r.live = j.live /\ r.deleted = j.deleted
    BY SMTT(40), <1>4, <1>5, <1>11, <2>2
  <2>9. Fits(t, s, r) /\ OthersStay(t)
    BY Zenon, <1>1, <1>2, <1>3, <2>2, <2>5, <2>6, <2>7, <2>8, NoneIsNoThread DEF Fits, OthersStay
  <2> QED BY Zenon, <1>7, <2>2, <2>3, <2>9, OneSocketStep
<1>17. CASE /\ k.err \notin Fatal
            /\ Set(t, socket_release(IF k.err = "0" THEN [over EXCEPT !.state = "CONNECTED"]
                                     ELSE over))
            /\ Return(t)
  <2>1. PICK o : o = IF k.err = "0" THEN [over EXCEPT !.state = "CONNECTED"] ELSE over
    BY Zenon
  <2>2. /\ over \in SockSet /\ over.lock = t /\ over.refcnt = x.refcnt + 1 /\ over.sleep = None
        /\ over.live = x.live /\ over.deleted = x.deleted /\ Condemned(over) = Condemned(x)
    BY Zenon, <1>11, <1>13
  <2>3. /\ o \in SockSet /\ o.refcnt = over.refcnt /\ o.sleep = None /\ o.live = over.live
        /\ o.deleted = over.deleted /\ (Condemned(o) => Condemned(over))
    <3>1. CASE o = over
      BY Zenon, <2>2, <3>1
    <3>2. CASE o = [over EXCEPT !.state = "CONNECTED"]
      <4>1. o \in SockSet
        BY ZenonT(60), <2>2, <3>2 DEF SockSet
      <4>2. /\ o.refcnt = over.refcnt /\ o.sleep = over.sleep /\ o.live = over.live
            /\ o.deleted = over.deleted /\ o.state = "CONNECTED" /\ o.collector = over.collector
            /\ o.err = over.err
        BY ZenonT(60), <2>2, <3>2 DEF SockSet
      <4> QED BY Zenon, <2>2, <4>1, <4>2 DEF Condemned
    <3> QED BY Zenon, <2>1, <3>1, <3>2
  <2>4. PICK r : r = socket_release(o)
    BY Zenon
  <2>5. /\ r \in SockSet /\ r.lock = None /\ r.refcnt = o.refcnt - 1 /\ r.sleep = o.sleep
        /\ r.live = o.live /\ r.deleted = o.deleted /\ Condemned(r) = Condemned(o)
    <3>1. PICK n \in Nat : n = o.refcnt - 1
      BY <1>4, <1>5, <1>11, <2>2, <2>3
    <3>2. r = [o EXCEPT !.lock = None, !.refcnt = n]
      BY Zenon, <2>4, <3>1 DEF socket_release
    <3>3. r \in SockSet
      BY ZenonT(60), <1>9, <2>3, <3>2 DEF SockSet
    <3>4. /\ r.lock = None /\ r.refcnt = n /\ r.sleep = o.sleep /\ r.live = o.live
          /\ r.deleted = o.deleted /\ r.state = o.state /\ r.collector = o.collector
          /\ r.err = o.err
      BY ZenonT(60), <2>3, <3>2 DEF SockSet
    <3>5. Condemned(r) = Condemned(o)
      BY Zenon, <3>4 DEF Condemned
    <3> QED BY Zenon, <3>1, <3>3, <3>4, <3>5
  <2>6. sock' = [sock EXCEPT ![s] = r]
    BY Zenon, <1>1, <1>17, <2>1, <2>4 DEF Set
  <2>7. NoCall \in CallSet /\ NoCall.pc = "idle"
    BY Zenon DEF NoCall, CallSet
  <2>8. /\ thr' \in [Threads -> CallSet] /\ thr'[t] = NoCall
        /\ \A u \in Threads \ {t} : thr'[u] = thr[u]
    BY Zenon, <1>3, <1>17, <2>7 DEF Return
  <2>9. r.refcnt >= 1 /\ r.live = j.live /\ r.deleted = j.deleted /\ r.sleep = None
    BY SMTT(40), <1>4, <1>5, <1>11, <2>2, <2>3, <2>5
  <2>10. "bad_address" \notin Env => (Condemned(r) => r.deleted)
    BY Zenon, <1>4, <1>6, <1>11, <1>12, <2>2, <2>3, <2>5
  <2>11. Fits(t, s, r) /\ OthersStay(t)
    BY <1>1, <1>2, <1>3, <2>5, <2>7, <2>8, <2>9, <2>10, NoneIsNoThread DEF Fits, OthersStay
  <2> QED BY Zenon, <1>7, <2>5, <2>6, <2>11, OneSocketStep
<1> QED BY Zenon, <1>1, <1>2, <1>8, <1>15, <1>16, <1>17 DEF ConnectResumes

\* wait_wakeup and the end of the body: the socket is released, and one connect() goes on.
LEMMA WakeupKeeps ==
  ASSUME LifeInv, NEW t \in Threads, Wakeup(t) PROVE Kept
<1>1. PICK s \in Sockets : s = thr[t].s
  BY Zenon DEF LifeInv, TypeOK, Wakeup, At
<1>2. PICK k, r : k = sock[s] /\ r = socket_release(k)
  BY Zenon
<1>3. /\ k \in SockSet /\ thr[t].pc = "wakeup" /\ k.lock = t /\ k.sleep = None
      /\ thr \in [Threads -> CallSet] /\ NoCall \in CallSet /\ NoCall.pc = "idle"
  BY <1>1, <1>2 DEF LifeInv, TypeOK, LocksHeld, Wakeup, At, NoCall, CallSet
<1>4. k.refcnt \in Nat
  BY ZenonT(60), <1>3 DEF SockSet
<1>5. k.refcnt >= 2
  BY Zenon, <1>2, <1>3, <1>4, NoneIsNoThread DEF LifeInv, RefcountCovers
<1>6. PICK n \in Nat : n = k.refcnt - 1
  BY <1>4, <1>5
<1>7. r = [k EXCEPT !.lock = None, !.refcnt = n]
  BY Zenon, <1>2, <1>6 DEF socket_release
<1>8. r \in SockSet
  <2>1. None \in Holders
    BY Zenon DEF Holders
  <2> QED BY ZenonT(60), <1>3, <1>7, <2>1 DEF SockSet
<1>9. /\ r.lock = None /\ r.refcnt = n /\ r.sleep = k.sleep /\ r.live = k.live
      /\ r.deleted = k.deleted /\ r.state = k.state /\ r.collector = k.collector /\ r.err = k.err
  BY ZenonT(60), <1>3, <1>7 DEF SockSet
<1>10. Condemned(r) = Condemned(k)
  BY Zenon, <1>9 DEF Condemned
<1>11. sock' = [sock EXCEPT ![s] = r] /\ table' = table /\ slock' = slock
  BY Zenon, <1>1, <1>2 DEF Wakeup, Set
<1>12. OthersStay(t) /\ thr'[t] = NoCall
  <2>1. CASE Return(t)
    <3>1. thr' = [thr EXCEPT ![t] = NoCall]
      BY Zenon, <2>1 DEF Return
    <3> QED BY Zenon, <1>3, <3>1 DEF OthersStay
  <2>2. ASSUME NEW u \in Threads, thr[u].pc = "connecting",
               thr' = [thr EXCEPT ![u].pc = "woken", ![t] = NoCall]
        PROVE  OthersStay(t) /\ thr'[t] = NoCall
    <3>1. PICK c : c = [thr[u] EXCEPT !.pc = "woken"]
      BY Zenon
    <3>2. c \in CallSet /\ c.pc = "woken" /\ c.s = thr[u].s
      BY <1>3, <3>1 DEF CallSet
    <3>3. PICK f : f = [thr EXCEPT ![u] = c]
      BY ZenonT(60)
    <3>4. f \in [Threads -> CallSet] /\ f[u] = c /\ \A v \in Threads \ {u} : f[v] = thr[v]
      BY Zenon, <1>3, <3>2, <3>3
    <3>5. thr' = [f EXCEPT ![t] = NoCall]
      BY Zenon, <2>2, <3>1, <3>3
    <3>6. /\ thr' \in [Threads -> CallSet] /\ thr'[t] = NoCall
          /\ \A v \in Threads \ {t} : thr'[v] = f[v]
      BY Zenon, <1>3, <3>4, <3>5
    <3> QED BY Zenon, <2>2, <3>2, <3>4, <3>6 DEF OthersStay
  <2> QED BY Zenon, <2>1, <2>2 DEF Wakeup, At
<1>13. "bad_address" \notin Env => (Condemned(r) => r.deleted)
  BY ZenonT(60), <1>2, <1>9, <1>10 DEF LifeInv, DeletedFirst
<1>14. Fits(t, s, r)
  BY <1>1, <1>2, <1>3, <1>4, <1>5, <1>6, <1>9, <1>12, <1>13, NoneIsNoThread DEF Fits
<1> QED BY Zenon, <1>8, <1>11, <1>12, <1>14, OneSocketStep

-------------------------------------------------------------------------------
\* A thread that neither takes nor gives back a lock preserves the invariant.
LEMMA OneThreadStep ==
  ASSUME LifeInv, NEW t \in Threads, NEW c \in CallSet, thr' = [thr EXCEPT ![t] = c],
         sock' = sock, table' = table, slock' = slock,
         thr[t].pc \notin {"wakeup", "relock", "unlink"}, c.s \in Sockets,
         c.pc \in {"found", "woken"}
  PROVE  Kept
<1>1. /\ thr' \in [Threads -> CallSet] /\ thr'[t] = c
      /\ \A u \in Threads \ {t} : thr'[u] = thr[u]
  BY Zenon DEF LifeInv, TypeOK
<1>2. TypeOK'
  BY Zenon, <1>1 DEF LifeInv, TypeOK
<1>3. LocksHeld'
  BY <1>1 DEF LifeInv, LocksHeld
<1>4. RefcountCovers' /\ ListedIsLive'
  BY Zenon DEF LifeInv, RefcountCovers, ListedIsLive
<1>5. ASSUME "bad_address" \notin Env PROVE DeletedFirst'
  BY Zenon, <1>1, <1>5 DEF LifeInv, DeletedFirst
<1>6. LifeInv'
  BY Zenon, <1>2, <1>3, <1>4, <1>5 DEF LifeInv
<1> QED BY Zenon, <1>6 DEF Kept

\* socket_lookup and inet_lookup, and a wait that returns unasked.
LEMMA LookupsKeep ==
  ASSUME LifeInv,
         \/ \E a \in Apps, s \in Sockets : get_socket(a, s)
         \/ \E s \in Sockets : inet_lookup(s)
         \/ \E t \in Threads : SpuriousWakeup(t)
  PROVE  Kept
<1>1. ASSUME NEW a \in Apps, NEW s \in Sockets, get_socket(a, s) PROVE Kept
  <2>1. App(a) \in Threads
    BY DEF Threads, AppThreads
  <2>2. PICK c : c = [pc |-> "found", op |-> "call", s |-> s]
    BY ZenonT(60)
  <2>3. c \in CallSet /\ c.pc = "found" /\ c.s = s
    BY Zenon, <2>2 DEF CallSet
  <2>4. thr' = [thr EXCEPT ![App(a)] = c] /\ thr[App(a)].pc = "idle"
    BY Zenon, <1>1, <2>2 DEF get_socket, At
  <2>5. sock' = sock /\ table' = table /\ slock' = slock
    BY Zenon, <1>1 DEF get_socket
  <2> QED BY Zenon, <2>1, <2>3, <2>4, <2>5, OneThreadStep
<1>2. ASSUME NEW s \in Sockets, inet_lookup(s) PROVE Kept
  <2>1. core \in Threads
    BY DEF Threads
  <2>2. PICK c : c = [pc |-> "found", op |-> "segment", s |-> s]
    BY ZenonT(60)
  <2>3. c \in CallSet /\ c.pc = "found" /\ c.s = s
    BY Zenon, <2>2 DEF CallSet
  <2>4. thr' = [thr EXCEPT ![core] = c] /\ thr[core].pc = "idle"
    BY Zenon, <1>2, <2>2 DEF inet_lookup, At
  <2>5. sock' = sock /\ table' = table /\ slock' = slock
    BY Zenon, <1>2 DEF inet_lookup
  <2> QED BY Zenon, <2>1, <2>3, <2>4, <2>5, OneThreadStep
<1>3. ASSUME NEW t \in Threads, SpuriousWakeup(t) PROVE Kept
  <2>1. PICK pc \in {"found", "woken"} : Goto(t, pc)
    BY Zenon, <1>3 DEF SpuriousWakeup
  <2>2. thr[t].pc \in {"receiving", "connecting"} /\ thr[t] \in CallSet /\ thr[t].s \in Sockets
    BY Zenon, <1>3 DEF SpuriousWakeup, MayAwake, LifeInv, TypeOK
  <2>3. PICK c : c = [thr[t] EXCEPT !.pc = pc]
    BY Zenon
  <2>4. c \in CallSet /\ c.pc = pc /\ c.s = thr[t].s
    BY Zenon, <2>1, <2>2, <2>3 DEF CallSet
  <2>5. thr' = [thr EXCEPT ![t] = c]
    BY Zenon, <2>1, <2>3 DEF Goto
  <2>6. sock' = sock /\ table' = table /\ slock' = slock
    BY Zenon, <1>3 DEF SpuriousWakeup
  <2> QED BY Zenon, <2>1, <2>2, <2>4, <2>5, <2>6, OneThreadStep
<1> QED BY Zenon, <1>1, <1>2, <1>3

\* A timer that expires starts its thread.
LEMMA TimersKeep ==
  ASSUME LifeInv, NEW s \in Sockets, Expires(s) PROVE Kept
<1>1. PICK k : k = sock[s]
  BY Zenon
<1>2. k \in SockSet /\ thr \in [Threads -> CallSet]
  BY Zenon, <1>1 DEF LifeInv, TypeOK
<1>3. ASSUME NEW timer \in Timers PROVE Handler(timer, s) \in Threads
  BY DEF Threads
<1>4. ASSUME NEW t \in Threads, thr[t].pc = "idle", NEW c \in CallSet,
             thr' = [thr EXCEPT ![t] = c], c.s = s, c.pc \in {"found", "free"},
             NEW r \in SockSet, r.lock = k.lock, r.sleep = k.sleep, r.refcnt = k.refcnt,
             r.live = k.live, r.deleted = k.deleted, Condemned(r) => Condemned(k),
             c.pc = "free" => Condemned(k),
             sock' = [sock EXCEPT ![s] = r], table' = table, slock' = slock
      PROVE  Kept
  <2>1. /\ thr' \in [Threads -> CallSet] /\ thr'[t] = c
        /\ \A u \in Threads \ {t} : thr'[u] = thr[u]
    BY Zenon, <1>2, <1>4
  <2>2. OthersStay(t)
    BY Zenon, <2>1 DEF OthersStay
  <2>3. /\ k.lock # t /\ k.sleep # t /\ k.refcnt >= (IF k.lock = None THEN 1 ELSE 2)
        /\ "bad_address" \notin Env => (Condemned(k) => k.deleted)
    BY SMTT(40), <1>1, <1>4 DEF LifeInv, LocksHeld, RefcountCovers, DeletedFirst
  <2>4. Fits(t, s, r)
    BY <1>1, <1>4, <2>1, <2>3 DEF Fits
  <2> QED BY ZenonT(60), <1>4, <2>2, <2>4, OneSocketStep
<1>5. CASE RtoExpires(s)
  <2>1. PICK t \in Threads : t = Handler("rto", s)
    BY Zenon, <1>3 DEF Timers
  <2>2. PICK r : /\ sock' = [sock EXCEPT ![s] = r]
                 /\ r = [k EXCEPT !.rto = FALSE] \/ r = [k EXCEPT !.orphan = FALSE]
    BY Zenon, <1>1, <1>5 DEF RtoExpires
  <2>3. r \in SockSet /\ KeepsFate(k, r)
    BY ZenonT(60), <1>2, <2>2 DEF SockSet, KeepsFate
  <2>4. PICK op \in {"connect_rto", "rto"} :
             thr' = [thr EXCEPT ![t] = [pc |-> "found", s |-> s, op |-> op]]
    BY Zenon, <1>5, <2>1 DEF RtoExpires
  <2>5. PICK c : c = [pc |-> "found", s |-> s, op |-> op]
    BY Zenon
  <2>6. c \in CallSet /\ c.pc = "found" /\ c.s = s
    BY Zenon, <2>4, <2>5 DEF CallSet
  <2>7. thr[t].pc = "idle" /\ table' = table /\ slock' = slock
    BY Zenon, <1>5, <2>1 DEF RtoExpires, At
  <2> QED BY Zenon, <1>4, <2>1, <2>2, <2>3, <2>4, <2>5, <2>6, <2>7 DEF KeepsFate, Condemned
<1>6. CASE LingerExpires(s)
  <2>1. PICK t \in Threads : t = Handler("linger", s)
    BY Zenon, <1>3 DEF Timers
  <2>2. PICK r : sock' = [sock EXCEPT ![s] = r] /\ r = [k EXCEPT !.linger = "none"]
    BY Zenon, <1>1, <1>6 DEF LingerExpires
  <2>3. r \in SockSet /\ KeepsFate(k, r)
    BY ZenonT(60), <1>2, <2>2 DEF SockSet, KeepsFate
  <2>4. PICK c : c = [pc |-> "found", op |-> "linger", s |-> s]
    BY Zenon
  <2>5. c \in CallSet /\ c.pc = "found" /\ c.s = s
    BY Zenon, <2>4 DEF CallSet
  <2>6. thr' = [thr EXCEPT ![t] = c] /\ thr[t].pc = "idle" /\ table' = table /\ slock' = slock
    BY Zenon, <1>6, <2>1, <2>4 DEF LingerExpires, At
  <2> QED BY Zenon, <1>4, <2>1, <2>2, <2>3, <2>5, <2>6 DEF KeepsFate, Condemned
<1>7. CASE socket_garbage_collect(s)
  <2>1. PICK t \in Threads : t = Handler("collector", s)
    BY Zenon, <1>3 DEF Timers
  <2>2. PICK r : sock' = [sock EXCEPT ![s] = r] /\ r = [k EXCEPT !.collector = FALSE]
    BY Zenon, <1>1, <1>7 DEF socket_garbage_collect
  <2>3. r \in SockSet
    BY ZenonT(60), <1>2, <2>2 DEF SockSet
  <2>4. /\ r.lock = k.lock /\ r.sleep = k.sleep /\ r.refcnt = k.refcnt /\ r.live = k.live
        /\ r.deleted = k.deleted /\ r.state = k.state /\ r.collector = FALSE /\ r.err = k.err
    BY ZenonT(60), <1>2, <2>2 DEF SockSet
  <2>5. k.collector /\ thr[t].pc = "idle" /\ table' = table /\ slock' = slock
    BY Zenon, <1>1, <1>7, <2>1 DEF socket_garbage_collect, At
  <2>6. CASE s \in table
    <3>1. PICK c : c = [pc |-> "free", op |-> "free", s |-> s]
      BY Zenon
    <3>2. c \in CallSet /\ c.pc = "free" /\ c.s = s
      BY Zenon, <3>1 DEF CallSet
    <3>3. thr' = [thr EXCEPT ![t] = c]
      BY Zenon, <1>7, <2>1, <2>6, <3>1 DEF socket_garbage_collect
    <3>4. Condemned(k) /\ (Condemned(r) => Condemned(k))
      BY Zenon, <2>5 DEF Condemned
    <3> QED BY Zenon, <1>4, <2>1, <2>2, <2>3, <2>4, <2>5, <3>2, <3>3, <3>4
  <2>7. CASE s \notin table
    <3>1. thr' = thr
      BY Zenon, <1>7, <2>7 DEF socket_garbage_collect
    <3>2. /\ k.lock # t /\ k.sleep # t /\ k.refcnt >= (IF k.lock = None THEN 1 ELSE 2)
          /\ "bad_address" \notin Env => (Condemned(k) => k.deleted)
      BY <1>1, <2>5 DEF LifeInv, LocksHeld, RefcountCovers, DeletedFirst
    <3>3. Condemned(r) => Condemned(k)
      BY Zenon, <2>5 DEF Condemned
    <3>4. Fits(t, s, r) /\ OthersStay(t)
      BY Zenon, <1>1, <1>2, <2>4, <2>5, <3>1, <3>2, <3>3 DEF Fits, OthersStay
    <3> QED BY ZenonT(60), <2>2, <2>3, <2>5, <3>4, OneSocketStep
  <2> QED BY Zenon, <2>6, <2>7
<1> QED BY Zenon, <1>5, <1>6, <1>7 DEF Expires

-------------------------------------------------------------------------------
\* _socket puts a new socket in the table.
LEMMA CreateKeeps ==
  ASSUME LifeInv, NEW a \in Apps, NEW s \in Sockets, _socket(a, s) PROVE Kept
<1>1. PICK k, r : k = sock[s] /\ r = NewSocket
  BY Zenon
<1>2. k = Unborn /\ sock' = [sock EXCEPT ![s] = r] /\ table' = table \union {s}
      /\ slock' = slock /\ thr' = thr /\ slock = None
  BY Zenon, <1>1 DEF _socket
<1>3. None \in Holders /\ "CLOSE" \in ConnStates /\ "0" \in Errors
  BY Zenon DEF Holders, ConnStates, Errors
<1>4. r \in SockSet
  BY Zenon, <1>1, <1>3 DEF SockSet, NewSocket
<1>5. /\ r.lock = None /\ r.sleep = None /\ r.refcnt = 1 /\ r.live = TRUE /\ r.deleted = FALSE
      /\ r.state = "UNCONNECTED" /\ r.collector = FALSE /\ r.err = "0"
  BY Zenon, <1>1 DEF NewSocket
<1>6. k.lock = None /\ k.sleep = None /\ k.live = FALSE /\ k.deleted = FALSE
  BY Zenon, <1>2 DEF NewSocket, Unborn
<1>7. /\ sock'[s] = r /\ \A x \in Sockets : x # s => sock'[x] = sock[x]
      /\ sock' \in [Sockets -> SockSet]
  BY Zenon, <1>2, <1>4 DEF LifeInv, TypeOK
<1>8. TypeOK'
  BY Zenon, <1>2, <1>7 DEF LifeInv, TypeOK
<1>9. LocksHeld'
  <2>1. \A x \in Sockets : sock'[x].lock = sock[x].lock /\ sock'[x].sleep = sock[x].sleep
    BY SMTT(40), <1>1, <1>5, <1>6, <1>7
  <2> QED BY SMTT(40), <1>2, <2>1 DEF LifeInv, LocksHeld
<1>10. RefcountCovers'
  BY SMTT(40), <1>5, <1>7 DEF LifeInv, RefcountCovers
<1>11. ListedIsLive'
  BY SMTT(40), <1>2, <1>5, <1>7 DEF LifeInv, TypeOK, ListedIsLive
<1>12. ASSUME "bad_address" \notin Env PROVE DeletedFirst'
  <2>1. ~Condemned(r)
    BY Zenon, <1>5 DEF Condemned, Fatal
  <2>2. \A t \in Threads : thr[t].pc \in {"free", "unlink"} => thr[t].s # s /\ thr[t].s \in Sockets
    BY Zenon, <1>1, <1>6, <1>12 DEF LifeInv, TypeOK, DeletedFirst
  <2> QED BY Zenon, <1>2, <1>7, <1>12, <2>1, <2>2 DEF LifeInv, DeletedFirst
<1>13. LifeInv'
  BY Zenon, <1>8, <1>9, <1>10, <1>11, <1>12 DEF LifeInv
<1>14. \A x \in Sockets : sock[x].live => sock'[x].live
  BY Zenon, <1>5, <1>7
<1> QED BY Zenon, <1>13, <1>14 DEF Kept

\* socket_free takes the lock of the table.
LEMMA FreeLocksKeeps ==
  ASSUME LifeInv, NEW t \in Threads, FreeLocksTable(t) PROVE Kept
<1>1. /\ thr[t] \in CallSet /\ thr[t].pc = "free" /\ slock = None /\ slock' = t
      /\ table' = table /\ sock' = sock
  BY Zenon DEF FreeLocksTable, At, LifeInv, TypeOK
<1>2. PICK c : c = [thr[t] EXCEPT !.pc = "unlink"]
  BY ZenonT(60)
<1>3. c \in CallSet /\ c.pc = "unlink" /\ c.s = thr[t].s
  BY Zenon, <1>1, <1>2 DEF CallSet
<1>4. /\ thr' \in [Threads -> CallSet] /\ thr'[t] = c
      /\ \A u \in Threads \ {t} : thr'[u] = thr[u]
  BY <1>2, <1>3, GotoMoves DEF FreeLocksTable
<1>5. TypeOK'
  BY Zenon, <1>1, <1>3, <1>4 DEF LifeInv, TypeOK, Holders
<1>6. LocksHeld'
  BY SMTT(40), <1>1, <1>3, <1>4, NoneIsNoThread DEF LifeInv, LocksHeld
<1>7. RefcountCovers' /\ ListedIsLive'
  BY Zenon, <1>1 DEF LifeInv, RefcountCovers, ListedIsLive
<1>8. ASSUME "bad_address" \notin Env PROVE DeletedFirst'
  BY Zenon, <1>1, <1>3, <1>4, <1>8 DEF LifeInv, DeletedFirst
<1>9. LifeInv'
  BY Zenon, <1>5, <1>6, <1>7, <1>8 DEF LifeInv
<1> QED BY Zenon, <1>1, <1>9 DEF Kept

\* socket_free unlinks the socket before the sock is freed.
LEMMA FreeUnlinksKeeps ==
  ASSUME LifeInv, NEW t \in Threads, FreeUnlinks(t) PROVE Kept
<1>1. PICK s \in Sockets : s = thr[t].s
  BY Zenon DEF LifeInv, TypeOK, FreeUnlinks, At
<1>2. PICK k, q, r : k = sock[s] /\ q = socket_wr_acquire(k, t) /\ r = [q EXCEPT !.live = FALSE]
  BY Zenon
<1>3. /\ thr[t] \in CallSet /\ thr[t].pc = "unlink" /\ k \in SockSet /\ k.lock = None
      /\ table' = table \ {s} /\ slock' = None
  BY Zenon, <1>1, <1>2 DEF FreeUnlinks, At, LifeInv, TypeOK
<1>4. sock' = [sock EXCEPT ![s] = r]
  BY Zenon, <1>1, <1>2 DEF FreeUnlinks, Set
<1>5. /\ q \in SockSet /\ q.lock = t /\ q.refcnt = k.refcnt + 1 /\ q.sleep = k.sleep
      /\ q.deleted = k.deleted /\ Condemned(q) = Condemned(k)
  BY <1>2, <1>3, AcquireRelease
<1>6. r \in SockSet
  BY ZenonT(60), <1>2, <1>5 DEF SockSet
<1>7. /\ r.lock = q.lock /\ r.sleep = q.sleep /\ r.refcnt = q.refcnt /\ r.deleted = q.deleted
      /\ r.state = q.state /\ r.collector = q.collector /\ r.err = q.err
  BY ZenonT(60), <1>2, <1>5 DEF SockSet
<1>8. Condemned(r) = Condemned(k)
  BY Zenon, <1>5, <1>7 DEF Condemned
<1>9. PICK c : c = [thr[t] EXCEPT !.pc = "wakeup"]
  BY ZenonT(60)
<1>10. c \in CallSet /\ c.pc = "wakeup" /\ c.s = s
  BY Zenon, <1>1, <1>3, <1>9 DEF CallSet
<1>11. /\ thr' \in [Threads -> CallSet] /\ thr'[t] = c
       /\ \A u \in Threads \ {t} : thr'[u] = thr[u]
  BY <1>9, <1>10, GotoMoves DEF FreeUnlinks
<1>12. /\ sock'[s] = r /\ \A x \in Sockets : x # s => sock'[x] = sock[x]
       /\ sock' \in [Sockets -> SockSet]
  BY Zenon, <1>4, <1>6 DEF LifeInv, TypeOK
<1>13. TypeOK'
  <2>1. \A u \in Threads : thr'[u].pc # "idle" => thr'[u].s \in Sockets
    BY Zenon, <1>10, <1>11 DEF LifeInv, TypeOK
  <2> QED BY Zenon, <1>3, <1>11, <1>12, <2>1 DEF LifeInv, TypeOK, Holders
<1>14. LocksHeld'
  <2>1. /\ sock[s].lock = None /\ sock'[s].lock = t
        /\ \A x \in Sockets : sock'[x].sleep = sock[x].sleep
        /\ \A x \in Sockets : x # s => sock'[x].lock = sock[x].lock
    BY ZenonT(60), <1>2, <1>3, <1>5, <1>7, <1>12
  <2>2. /\ thr'[t].pc = "wakeup" /\ thr'[t].s = s
        /\ \A u \in Threads \ {t} : thr'[u].pc = thr[u].pc /\ thr'[u].s = thr[u].s
    BY Zenon, <1>10, <1>11
  <2>3. ASSUME NEW x \in Sockets, NEW u \in Threads
        PROVE  sock'[x].lock = u <=> thr'[u].pc = "wakeup" /\ thr'[u].s = x
    BY SMTT(40), <1>3, <2>1, <2>2, NoneIsNoThread DEF LifeInv, LocksHeld
  <2>4. ASSUME NEW x \in Sockets, NEW u \in Threads
        PROVE  sock'[x].sleep = u <=> thr'[u].pc = "relock" /\ thr'[u].s = x
    BY SMTT(40), <1>3, <2>1, <2>2 DEF LifeInv, LocksHeld
  <2>5. ASSUME NEW u \in Threads PROVE slock' = u <=> thr'[u].pc = "unlink"
    BY SMTT(40), <1>3, <2>2, NoneIsNoThread DEF LifeInv, LocksHeld
  <2> QED BY Zenon, <2>3, <2>4, <2>5 DEF LocksHeld
<1>15. RefcountCovers'
  <2>1. k.refcnt \in Nat /\ k.refcnt >= 1
    BY Zenon, <1>1, <1>2, <1>3 DEF LifeInv, RefcountCovers, SockSet
  <2> QED BY SMTT(40), <1>5, <1>7, <1>12, <2>1 DEF LifeInv, RefcountCovers
<1>16. ListedIsLive'
  BY Zenon, <1>3, <1>12 DEF LifeInv, TypeOK, ListedIsLive
<1>17. ASSUME "bad_address" \notin Env PROVE DeletedFirst' /\ k.deleted
  <2>1. k.deleted
    BY Zenon, <1>1, <1>2, <1>3, <1>17 DEF LifeInv, DeletedFirst
  <2>2. r.deleted
    BY Zenon, <1>5, <1>7, <2>1
  <2>3. \A x \in Sockets : Condemned(sock'[x]) => sock'[x].deleted
    BY Zenon, <1>12, <1>17, <2>2 DEF LifeInv, DeletedFirst
  <2>4. ASSUME NEW u \in Threads, thr'[u].pc \in {"free", "unlink"} PROVE sock'[thr'[u].s].deleted
    <3>1. u # t /\ thr'[u] = thr[u]
      BY Zenon, <1>10, <1>11, <2>4
    <3>2. sock[thr[u].s].deleted /\ thr[u].s \in Sockets
      BY Zenon, <1>17, <2>4, <3>1 DEF LifeInv, TypeOK, DeletedFirst
    <3> QED BY Zenon, <1>12, <2>2, <3>1, <3>2
  <2> QED BY Zenon, <2>1, <2>3, <2>4 DEF DeletedFirst
<1>18. LifeInv'
  BY Zenon, <1>13, <1>14, <1>15, <1>16, <1>17 DEF LifeInv
<1> QED BY Zenon, <1>2, <1>12, <1>17, <1>18 DEF Kept

-------------------------------------------------------------------------------
\* The invariant holds before any call: no socket, no lock.
LEMMA InitLife == Init => LifeInv
<1> SUFFICES ASSUME Init PROVE LifeInv
  BY Zenon
<1>1. PICK r : r = Unborn
  BY Zenon
<1>2. None \in Holders /\ "CLOSE" \in ConnStates /\ "0" \in Errors
  BY Zenon DEF Holders, ConnStates, Errors
<1>3. r \in SockSet
  <2>1. PICK n : n = NewSocket
    BY Zenon
  <2>2. n \in SockSet
    BY Zenon, <1>2, <2>1 DEF SockSet, NewSocket
  <2> QED BY ZenonT(60), <1>1, <2>1, <2>2 DEF SockSet, Unborn
<1>4. /\ r.lock = None /\ r.sleep = None /\ r.refcnt = 1
      /\ r.state = "UNCONNECTED" /\ r.collector = FALSE /\ r.err = "0"
  BY Zenon, <1>1 DEF NewSocket, Unborn
<1>5. NoCall \in CallSet /\ NoCall.pc = "idle"
  BY Zenon DEF CallSet, NoCall
<1>6. /\ table = {} /\ slock = None
      /\ sock \in [Sockets -> SockSet] /\ thr \in [Threads -> CallSet]
      /\ \A s \in Sockets : sock[s] = r
      /\ \A t \in Threads : thr[t].pc = "idle"
  BY Zenon, <1>1, <1>3, <1>5 DEF Init
<1>7. TypeOK
  BY Zenon, <1>2, <1>6 DEF TypeOK
<1>8. LocksHeld
  BY <1>4, <1>6, NoneIsNoThread DEF LocksHeld
<1>9. RefcountCovers /\ ListedIsLive
  BY SMTT(40), <1>4, <1>6 DEF RefcountCovers, ListedIsLive
<1>10. DeletedFirst
  BY Zenon, <1>4, <1>6 DEF DeletedFirst, Condemned, Fatal
<1> QED BY Zenon, <1>7, <1>8, <1>9, <1>10 DEF LifeInv

\* Every step of every thread preserves it and frees only what was given up.
LEMMA NextLife == LifeInv /\ [Next]_vars => Kept
<1> SUFFICES ASSUME LifeInv, [Next]_vars PROVE Kept
  BY Zenon
<1>1. ASSUME NEW a \in Apps, NEW s \in Sockets, _socket(a, s) \/ get_socket(a, s) PROVE Kept
  BY Zenon, <1>1, CreateKeeps, LookupsKeep
<1>2. ASSUME NEW s \in Sockets, inet_lookup(s) \/ Expires(s) PROVE Kept
  BY Zenon, <1>2, LookupsKeep, TimersKeep
<1>3. ASSUME NEW seg \in Segments, Segment(seg) PROVE Kept
  BY Zenon, <1>3, SegmentKeeps
<1>4. ASSUME NEW t \in Threads, Goes(t) \/ SpuriousWakeup(t) PROVE Kept
  <2>1. CASE Connect(t) \/ SleepEnds(t) \/ ConnectResumes(t)
    BY Zenon, <2>1, ConnectKeeps, SleepEndsKeeps, ConnectResumesKeeps
  <2>2. CASE Write(t) \/ Read(t) \/ Close(t) \/ Fcntl(t) \/ Query(t)
    BY Zenon, <2>2, CallsKeep
  <2>3. CASE tcp_connect_rto(t) \/ tcp_retransmission_timeout(t) \/ tcp_linger(t)
    BY Zenon, <2>3, HandlersKeep
  <2>4. CASE Wakeup(t) \/ FreeLocksTable(t) \/ FreeUnlinks(t)
    BY Zenon, <2>4, WakeupKeeps, FreeLocksKeeps, FreeUnlinksKeeps
  <2>5. CASE SpuriousWakeup(t)
    BY Zenon, <2>5, LookupsKeep
  <2> QED BY Zenon, <1>4, <2>1, <2>2, <2>3, <2>4, <2>5 DEF Goes
<1>5. CASE UNCHANGED vars
  BY <1>5 DEF vars, Kept, LifeInv, TypeOK, LocksHeld, RefcountCovers, ListedIsLive, DeletedFirst
<1> QED BY Zenon, <1>1, <1>2, <1>3, <1>4, <1>5 DEF Next

\* The invariant of the socket table holds for any number of threads and sockets, whatever
\* segments arrive and whichever timers expire: locks are held where the code holds them, the
\* count covers the holder, and a socket in the table has its sock (socket.c).
THEOREM LifeInvariant == Spec => []LifeInv
<1>1. LifeInv /\ [Next]_vars => LifeInv'
  BY Zenon, NextLife DEF Kept
<1> QED BY InitLife, <1>1, PTL DEF Spec

\* Unless connect() is given a bad address, socket_free never takes the sock of a connection
\* that tcp_done has not given up (socket.c, _connect and socket_garbage_collect).
THEOREM OpenKept == ASSUME "bad_address" \notin Env PROVE Spec => OpenConnectionKept
<1>1. LifeInv /\ [Next]_vars =>
        [\A s \in Sockets : sock[s].live /\ ~sock[s].live' => sock[s].deleted]_vars
  BY Zenon, NextLife DEF Kept
<1> QED BY LifeInvariant, <1>1, PTL DEF Spec, OpenConnectionKept

===============================================================================
