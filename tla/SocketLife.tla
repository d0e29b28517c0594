----------------------------- MODULE SocketLife ------------------------------
(***************************************************************************)
(* The life of a socket: the table of sockets and its lock (slock), the    *)
(* reference count and lock of each socket, the mutex connect() sleeps on  *)
(* (sock->sleep), and the garbage collector that frees the sock.           *)
(*                                                                         *)
(* Application threads, the core thread (tcp_in) and the threads that      *)
(* timers_tick starts run side by side.  A step is what a thread does      *)
(* between two points where it can block, so the body of a call, from      *)
(* acquiring the socket to releasing it, is one step unless it must also   *)
(* take the sleep mutex.  What connections say to each other is in TcpConn *)
(* and TcpConnect; here a connection is its state, whether its write queue *)
(* holds the SYN, data or the FIN, and its timers.                         *)
(***************************************************************************)
EXTENDS Integers, FiniteSets

CONSTANTS
  Apps,               \* application threads
  Sockets,            \* sockets they may create
  TCP_CONN_RETRIES,
  Env                 \* what may also happen, see EnvAssumption

\* spurious: the wait of connect() returns unasked.  slow: a timer of 10 s or
\* more expires while a woken connect() is still on its way.  shared: several
\* threads use one socket at a time.  bad_address: connect() is given an
\* address that is too short or of family AF_UNSPEC.
ASSUME EnvAssumption ==
  /\ Env \subseteq {"spurious", "slow", "shared", "bad_address"}
  /\ TCP_CONN_RETRIES \in Nat

VARIABLES
  table,    \* the list of sockets
  slock,    \* the thread that holds the table's lock for writing
  sock,     \* the struct socket and the struct sock of each
  thr       \* where each thread is

vars == <<table, slock, sock, thr>>

\* The three kinds of timer whose handlers take a socket's lock or the
\* table's; tcp_send_delack only sends and is left out.
Timers == {"rto", "linger", "collector"}

core == <<"core", "tcp_in">>
None == <<"none", "none">>
App(a) == <<"app", a>>
Handler(timer, s) == <<timer, s>>
AppThreads == {App(a) : a \in Apps}
Threads == AppThreads \union {core} \union {Handler(timer, s) : timer \in Timers, s \in Sockets}

NoCall == [pc |-> "idle", op |-> "none", s |-> "none"]

\* alloc_socket, inet_create, sk_alloc and sock_init_data.
NewSocket ==
  [state |-> "UNCONNECTED", lock |-> None, refcnt |-> 1, sleep |-> None,
   nonblock |-> FALSE, collector |-> FALSE, deleted |-> FALSE, live |-> TRUE,
   conn |-> "CLOSE", err |-> "0", queue |-> {}, rto |-> FALSE, orphan |-> FALSE,
   backoff |-> 0, linger |-> "none"]

\* A socket that no call has created yet.
Unborn == [NewSocket EXCEPT !.live = FALSE]

Init ==
  /\ table = {} /\ slock = None
  /\ sock = [s \in Sockets |-> Unborn]
  /\ thr = [t \in Threads |-> NoCall]

------------------------------------------------------------------------------
\* Operators on the record of a socket.

socket_wr_acquire(k, t) == [k EXCEPT !.lock = t, !.refcnt = @ + 1]

socket_release(k) == [k EXCEPT !.lock = None, !.refcnt = @ - 1]

\* Mutant: the garbage collector is not started.
socket_delete_NoCollector(k) ==
  IF k.state = "DISCONNECTING" THEN k
  ELSE [k EXCEPT !.state = "DISCONNECTING", !.deleted = TRUE]

socket_delete(k) ==
  IF k.state = "DISCONNECTING" THEN k
  ELSE [k EXCEPT !.state = "DISCONNECTING", !.collector = TRUE, !.deleted = TRUE]

tcp_clear_timers(k) == [k EXCEPT !.rto = FALSE, !.backoff = 0, !.linger = "none"]

\* The code wakes connect() before it calls socket_delete, with the socket held
\* all the while; here the wake-up is the caller's next step, Wakeup.
tcp_done(k) == socket_delete(tcp_clear_timers([k EXCEPT !.conn = "CLOSING"]))

tcp_enter_time_wait(k) ==
  [tcp_clear_timers(k) EXCEPT !.conn = "TIME_WAIT", !.linger = "time_wait"]

tcp_rearm_user_timeout(k) ==
  IF k.conn = "TIME_WAIT" THEN k ELSE [k EXCEPT !.linger = "user"]

\* tcp_release_rto_timer forgets the timer without cancelling it: one that is
\* still running fires later, and no tcp_clear_timers reaches it.
tcp_release_rto_timer(k) == [k EXCEPT !.rto = FALSE, !.orphan = @ \/ k.rto]

tcp_rearm_rto_timer(k) == [tcp_release_rto_timer(k) EXCEPT !.rto = TRUE]

\* tcp_queue_transmit_skb starts the timer when the queue was empty.
QueueTransmit(k, item) ==
  [IF k.queue = {} THEN tcp_rearm_rto_timer(k) ELSE k EXCEPT !.queue = @ \union {item}]

------------------------------------------------------------------------------
\* Steps of a thread t that holds or wants the socket s.

At(t, pc) == thr[t].pc = pc
Goto(t, pc) == thr' = [thr EXCEPT ![t].pc = pc]
Return(t) == thr' = [thr EXCEPT ![t] = NoCall]

\* t is at the socket's lock, about to do one of ops, and finds it free.
Enters(t, ops) == At(t, "found") /\ thr[t].op \in ops /\ sock[thr[t].s].lock = None

Set(t, k) == sock' = [sock EXCEPT ![thr[t].s] = k]

\* The body of a call ends: the socket, acquired for it, is released.
Leave(t, k) ==
  Set(t, socket_release(socket_wr_acquire(k, t))) /\ Return(t) /\ UNCHANGED <<table, slock>>

\* Mutant: tcp_done and tcp_synsent wake nobody.
WakeUp_Silent(t, k) == Leave(t, k)

\* The body has come to wait_wakeup(&sock->sleep), holding the socket.
WakeUp(t, k) ==
  Set(t, socket_wr_acquire(k, t)) /\ Goto(t, "wakeup") /\ UNCHANGED <<table, slock>>

\* A reader that sleeps on recv_wait is told; it does not hold a mutex when it
\* goes for the socket again.  pthread_cond_signal wakes one of them.
Notified(s) ==
  LET asleep == {t \in Threads : At(t, "receiving") /\ thr[t].s = s}
  IN  IF asleep = {} THEN {thr} ELSE {[thr EXCEPT ![t].pc = "found"] : t \in asleep}

LeaveNotifying(t, k) ==
  /\ Set(t, socket_release(socket_wr_acquire(k, t)))
  /\ \E th \in Notified(thr[t].s) : thr' = [th EXCEPT ![t] = NoCall]
  /\ UNCHANGED <<table, slock>>

\* A connect() whose sleep is over, or is about to be: the outcome is there and
\* its waker still holds the socket.
OnItsWay(t) ==
  \/ thr[t].pc \in {"woken", "relock"}
  \/ At(t, "connecting") /\ sock[thr[t].s].state # "CONNECTING"

Prompt == "slow" \notin Env => \A t \in Threads : ~OnItsWay(t)

------------------------------------------------------------------------------
\* Calls of the application.

\* _socket, the path without an error.
_socket(a, s) ==
  /\ At(App(a), "idle") /\ slock = None
  /\ sock[s] = Unborn
  /\ table' = table \union {s}
  /\ sock' = [sock EXCEPT ![s] = NewSocket]
  /\ UNCHANGED <<slock, thr>>

\* get_socket, for every call on a descriptor; which call it is shows when the
\* body runs.  A descriptor that is not in the table gives EBADF.
get_socket(a, s) ==
  /\ At(App(a), "idle") /\ slock = None
  /\ s \in table
  /\ "shared" \in Env \/ \A b \in Apps : At(App(b), "idle") \/ thr[App(b)].s # s
  /\ thr' = [thr EXCEPT ![App(a)] = [pc |-> "found", op |-> "call", s |-> s]]
  /\ UNCHANGED <<table, slock, sock>>

\* inet_stream_connect on a new socket: tcp_v4_connect sends the SYN, and a
\* blocking caller sleeps until the state or the error changes.  It holds the
\* sleep mutex from before it releases the socket until it waits.
StartsConnecting(k) ==
  [QueueTransmit(k, "syn") EXCEPT !.conn = "SYN_SENT", !.state = "CONNECTING",
                                  !.err = "EINPROGRESS"]

\* Mutant: connect() on a connected socket is refused like one with a bad address.
Refusing_Connected == {"CONNECTED", "DISCONNECTING"}

\* The states in which connect() gives EINVAL or EAFNOSUPPORT.
Refusing == IF "bad_address" \in Env
            THEN {"UNCONNECTED", "CONNECTING", "CONNECTED", "DISCONNECTING"} ELSE {"DISCONNECTING"}

\* _connect.  A refusal of the call itself leads to socket_free.
Connect(t) ==
  /\ Enters(t, {"call"})
  /\ LET k == sock[thr[t].s]
     IN  \/ /\ k.state \in Refusing
            /\ Set(t, socket_release(socket_wr_acquire(
                        [k EXCEPT !.err = IF k.state = "DISCONNECTING" THEN "EINVAL" ELSE @], t)))
            /\ Goto(t, "free") /\ UNCHANGED <<table, slock>>
         \/ k.state = "CONNECTED" /\ Leave(t, [k EXCEPT !.err = "EISCONN"])
         \/ k.state = "CONNECTING" /\ Leave(t, [k EXCEPT !.err = "EALREADY"])
         \/ /\ k.state = "UNCONNECTED" /\ k.nonblock
            /\ Leave(t, StartsConnecting(k))
         \/ /\ k.state = "UNCONNECTED" /\ ~k.nonblock /\ k.sleep = None
            /\ Set(t, socket_release(socket_wr_acquire(StartsConnecting(k), t)))
            /\ Goto(t, "connecting") /\ UNCHANGED <<table, slock>>

\* pthread_cond_wait returns once it has the mutex again.
SleepEnds(t) ==
  /\ At(t, "woken") /\ sock[thr[t].s].sleep = None
  /\ Set(t, [sock[thr[t].s] EXCEPT !.sleep = t])
  /\ Goto(t, "relock") /\ UNCHANGED <<table, slock>>

\* The errors for which _connect frees the socket.
Fatal == {"ETIMEDOUT", "ECONNREFUSED", "EINVAL"}

\* The loop of inet_stream_connect, with the socket back.  The second
\* socket_wr_acquire after the loop fails with EDEADLK and counts all the same.
ConnectResumes(t) ==
  /\ At(t, "relock") /\ sock[thr[t].s].lock = None
  /\ LET k == socket_wr_acquire(sock[thr[t].s], t)
         over == socket_wr_acquire([k EXCEPT !.sleep = None], t)
         waits == k.state = "CONNECTING" /\ k.err = "EINPROGRESS"
     IN  \/ /\ waits
            /\ Set(t, [socket_release(k) EXCEPT !.sleep = None])
            /\ Goto(t, "connecting")
         \/ /\ ~waits /\ k.err \in Fatal
            /\ Set(t, socket_release(over)) /\ Goto(t, "free")
         \/ /\ ~waits /\ k.err \notin Fatal
            /\ Set(t, socket_release(IF k.err = "0" THEN [over EXCEPT !.state = "CONNECTED"]
                                     ELSE over))
            /\ Return(t)
  /\ UNCHANGED <<table, slock>>

\* _write: tcp_write and tcp_send.
Write(t) ==
  /\ Enters(t, {"call"})
  /\ LET k == sock[thr[t].s]
     IN  Leave(t, IF k.err = "0" /\ k.conn \in {"ESTABLISHED", "CLOSE_WAIT"}
                  THEN tcp_rearm_user_timeout(QueueTransmit(k, "data")) ELSE k)

\* _read: tcp_read and tcp_receive.  Whether there is text to read is left
\* open; TcpRead has it.
Read(t) ==
  /\ Enters(t, {"call", "read"})
  /\ LET k == sock[thr[t].s]
         receives == k.conn \in {"SYN_SENT", "ESTABLISHED", "FIN_WAIT", "CLOSE_WAIT"}
     IN  \/ ~receives /\ Leave(t, k)
         \/ receives /\ Leave(t, tcp_rearm_user_timeout(k))
         \/ receives /\ (k.nonblock \/ k.conn = "CLOSE_WAIT") /\ Leave(t, k)
         \/ /\ receives /\ ~k.nonblock
            /\ Set(t, socket_release(socket_wr_acquire(k, t)))
            /\ thr' = [thr EXCEPT ![t].pc = "receiving", ![t].op = "read"]
            /\ UNCHANGED <<table, slock>>

\* _close: tcp_close.
Close(t) ==
  /\ Enters(t, {"call"})
  /\ LET k == sock[thr[t].s]
     IN  CASE k.conn = "SYN_SENT" -> WakeUp(t, tcp_done(k))
           [] k.conn = "ESTABLISHED" ->
                Leave(t, QueueTransmit([k EXCEPT !.conn = "FIN_WAIT"], "fin"))
           [] k.conn = "CLOSE_WAIT" -> Leave(t, QueueTransmit(k, "fin"))
           [] OTHER -> Leave(t, [k EXCEPT !.err = "EBADF"])

\* _fcntl with F_SETFL.
Fcntl(t) ==
  /\ Enters(t, {"call"})
  /\ \E b \in BOOLEAN : Leave(t, [sock[thr[t].s] EXCEPT !.nonblock = b])

\* The calls that only look: _poll (each of its rounds), _getsockopt,
\* _getpeername, _getsockname and _fcntl with F_GETFL.
Query(t) == Enters(t, {"call"}) /\ Leave(t, sock[thr[t].s])

------------------------------------------------------------------------------
\* The core thread: tcp_in.

\* inet_lookup.  connect() gives a socket its ports; it keeps them.
inet_lookup(s) ==
  /\ At(core, "idle") /\ slock = None
  /\ s \in table /\ sock[s].conn # "CLOSE"
  /\ thr' = [thr EXCEPT ![core] = [pc |-> "found", op |-> "segment", s |-> s]]
  /\ UNCHANGED <<table, slock, sock>>

\* tcp_synsent: the SYN is acknowledged, and sock_connected.
Established(k) ==
  tcp_rearm_user_timeout(
    [tcp_clear_timers(k) EXCEPT !.conn = "ESTABLISHED", !.queue = {},
                                !.state = "CONNECTED", !.err = "0"])

\* The acknowledgment field: any part of the write queue, from its head, is
\* taken off it (tcp_clean_rto_queue).  The timer stops when the queue is empty
\* or nothing of it is in flight, and starts again when more of it is sent.
RtoAfter(k, q) ==
  {r \in BOOLEAN : r => q # {} /\ (k.rto \/ k.conn \in {"ESTABLISHED", "FIN_WAIT"})}

AckTakes(k) ==
  IF k.conn = "TIME_WAIT" THEN {k}
  ELSE UNION {{[k EXCEPT !.queue = q, !.rto = r] : r \in RtoAfter(k, q)} :
                q \in {k.queue, k.queue \ {"data"}, {}}}

\* What an empty write queue means for the state.  LAST_ACK is left in Segment.
FinAcked(k) ==
  IF k.queue = {} /\ k.conn = "CLOSING" THEN [k EXCEPT !.conn = "TIME_WAIT"] ELSE k

\* The FIN bit, in sequence.
FinArrives(k) ==
  CASE k.conn = "ESTABLISHED" -> [k EXCEPT !.conn = "CLOSE_WAIT"]
    [] k.conn = "FIN_WAIT" -> IF k.queue = {} THEN tcp_enter_time_wait(k)
                              ELSE [k EXCEPT !.conn = "CLOSING"]
    [] OTHER -> k

\* tcp_input_state for an acceptable segment: synack, rst, ack (text or none)
\* or fin.
Segment(seg) ==
  /\ Enters(core, {"segment"})
  /\ LET k == sock[thr[core].s]
     IN  IF k.conn = "SYN_SENT"
         THEN CASE seg = "synack" -> WakeUp(core, Established(k))
                [] seg = "rst" -> WakeUp(core, tcp_done([k EXCEPT !.err = "ECONNREFUSED"]))
                [] OTHER -> Leave(core, k)
         ELSE CASE seg = "synack" -> Leave(core, k)
                [] seg = "rst" -> LeaveNotifying(core, tcp_enter_time_wait(k))
                [] OTHER ->
                     \E a \in AckTakes(k) :
                       IF a.conn = "LAST_ACK" /\ a.queue = {} THEN WakeUp(core, tcp_done(a))
                       ELSE IF seg = "fin" THEN LeaveNotifying(core, FinArrives(FinAcked(a)))
                       ELSE \/ Leave(core, FinAcked(a))
                            \/ /\ a.conn \in {"ESTABLISHED", "FIN_WAIT"}
                               /\ LeaveNotifying(core, FinAcked(a))

------------------------------------------------------------------------------
\* Threads started by timers_tick.

\* The retransmission timer: tcp_connect_rto or tcp_retransmission_timeout,
\* whichever was armed.
RtoExpires(s) ==
  /\ At(Handler("rto", s), "idle")
  /\ \/ sock[s].rto /\ sock' = [sock EXCEPT ![s].rto = FALSE]
     \/ sock[s].orphan /\ sock' = [sock EXCEPT ![s].orphan = FALSE]
  /\ thr' = [thr EXCEPT ![Handler("rto", s)] =
                [pc |-> "found", s |-> s,
                 op |-> IF sock[s].conn = "SYN_SENT" THEN "connect_rto" ELSE "rto"]]
  /\ UNCHANGED <<table, slock>>

tcp_connect_rto(t) ==
  /\ Enters(t, {"connect_rto"})
  /\ LET k == tcp_release_rto_timer(sock[thr[t].s])
     IN  CASE k.conn # "SYN_SENT" -> Leave(t, k)
           [] k.conn = "SYN_SENT" /\ k.backoff > TCP_CONN_RETRIES ->
                WakeUp(t, tcp_done([k EXCEPT !.err = "ETIMEDOUT"]))
           [] OTHER -> Leave(t, tcp_rearm_rto_timer([k EXCEPT !.backoff = @ + 1]))

\* How far the timeout has been doubled is left open.
tcp_retransmission_timeout(t) ==
  /\ Enters(t, {"rto"})
  /\ LET k == tcp_release_rto_timer(sock[thr[t].s])
         sent == [tcp_rearm_rto_timer(k) EXCEPT
                    !.conn = IF k.queue = {"fin"} /\ @ = "CLOSE_WAIT" THEN "LAST_ACK" ELSE @]
     IN  \/ k.queue = {} /\ k.conn = "CLOSE_WAIT" /\ WakeUp(t, k)
         \/ k.queue = {} /\ k.conn # "CLOSE_WAIT" /\ Leave(t, k)
         \/ k.queue # {} /\ Leave(t, sent)
         \/ k.queue # {} /\ WakeUp(t, [tcp_done(k) EXCEPT !.err = "ETIMEDOUT"])

\* The linger timer: tcp_linger (2 MSL, 60 s) or tcp_user_timeout (180 s).
LingerExpires(s) ==
  /\ At(Handler("linger", s), "idle") /\ sock[s].linger # "none" /\ Prompt
  /\ sock' = [sock EXCEPT ![s].linger = "none"]
  /\ thr' = [thr EXCEPT ![Handler("linger", s)] = [pc |-> "found", op |-> "linger", s |-> s]]
  /\ UNCHANGED <<table, slock>>

tcp_linger(t) == Enters(t, {"linger"}) /\ WakeUp(t, tcp_done(sock[thr[t].s]))

\* socket_garbage_collect, 10 s after socket_delete: socket_find looks the
\* socket up, and the thread goes on to socket_free.
socket_garbage_collect(s) ==
  /\ At(Handler("collector", s), "idle") /\ sock[s].collector /\ slock = None /\ Prompt
  /\ sock' = [sock EXCEPT ![s].collector = FALSE]
  /\ thr' = IF s \in table
            THEN [thr EXCEPT ![Handler("collector", s)] = [pc |-> "free", op |-> "free", s |-> s]]
            ELSE thr
  /\ UNCHANGED <<table, slock>>

------------------------------------------------------------------------------
\* Blocking steps shared by the threads.

\* wait_wakeup(&sock->sleep): signals one sleeper; the body then ends.
Wakeup(t) ==
  /\ At(t, "wakeup") /\ sock[thr[t].s].sleep = None
  /\ LET asleep == {u \in Threads : At(u, "connecting") /\ thr[u].s = thr[t].s}
     IN  \/ asleep = {} /\ Return(t)
         \/ \E u \in asleep : thr' = [thr EXCEPT ![u].pc = "woken", ![t] = NoCall]
  /\ Set(t, socket_release(sock[thr[t].s])) /\ UNCHANGED <<table, slock>>

\* socket_free takes the table's lock and keeps it until it has the socket.
FreeLocksTable(t) ==
  /\ At(t, "free") /\ slock = None
  /\ slock' = t /\ Goto(t, "unlink") /\ UNCHANGED <<table, sock>>

\* Mutant: the sock is freed and the socket left in the list.
FreeUnlinks_StillListed(t) ==
  /\ At(t, "unlink") /\ sock[thr[t].s].lock = None
  /\ slock' = None /\ UNCHANGED table
  /\ Set(t, [socket_wr_acquire(sock[thr[t].s], t) EXCEPT !.live = FALSE])
  /\ Goto(t, "wakeup")

\* list_del, then inet_free: the sock is gone.
FreeUnlinks(t) ==
  /\ At(t, "unlink") /\ sock[thr[t].s].lock = None
  /\ table' = table \ {thr[t].s} /\ slock' = None
  /\ Set(t, [socket_wr_acquire(sock[thr[t].s], t) EXCEPT !.live = FALSE])
  /\ Goto(t, "wakeup")

\* pthread_cond_wait may return unasked.
MayAwake == IF "spurious" \in Env THEN {"receiving", "connecting"} ELSE {"receiving"}

SpuriousWakeup(t) ==
  /\ thr[t].pc \in MayAwake
  /\ Goto(t, IF At(t, "receiving") THEN "found" ELSE "woken")
  /\ UNCHANGED <<table, slock, sock>>

------------------------------------------------------------------------------
Segments == {"synack", "rst", "ack", "fin"}

Goes(t) ==
  \/ Connect(t) \/ SleepEnds(t) \/ ConnectResumes(t)
  \/ Write(t) \/ Read(t) \/ Close(t) \/ Fcntl(t) \/ Query(t)
  \/ tcp_connect_rto(t) \/ tcp_retransmission_timeout(t) \/ tcp_linger(t)
  \/ Wakeup(t) \/ FreeLocksTable(t) \/ FreeUnlinks(t)

Expires(s) == RtoExpires(s) \/ LingerExpires(s) \/ socket_garbage_collect(s)

Next ==
  \/ \E a \in Apps, s \in Sockets : _socket(a, s) \/ get_socket(a, s)
  \/ \E s \in Sockets : inet_lookup(s)
  \/ \E seg \in Segments : Segment(seg)
  \/ \E s \in Sockets : Expires(s)
  \/ \E t \in Threads : Goes(t) \/ SpuriousWakeup(t)

\* A runnable thread runs, and one that waits for a lock gets it once the
\* lock stays free; tick by tick timers_tick reaches every timer.  Nothing is
\* asked of the network or the application.
Fairness ==
  /\ \A t \in Threads : WF_vars(Goes(t))
  /\ WF_vars(\E seg \in Segments : Segment(seg))
  /\ \A s \in Sockets : WF_vars(RtoExpires(s)) /\ WF_vars(socket_garbage_collect(s))

Spec == Init /\ [][Next]_vars

FairSpec == Spec /\ Fairness

------------------------------------------------------------------------------
\* The inductive invariant.

Holders == Threads \union {None}
ConnStates ==
  {"CLOSE", "SYN_SENT", "ESTABLISHED", "CLOSE_WAIT", "FIN_WAIT", "LAST_ACK", "CLOSING",
   "TIME_WAIT"}
Errors ==
  {"0", "EINPROGRESS", "EISCONN", "EALREADY", "EBADF"} \union Fatal

SockSet ==
  [state : {"UNCONNECTED", "CONNECTING", "CONNECTED", "DISCONNECTING"},
   lock : Holders, refcnt : Nat, sleep : Holders,
   nonblock : BOOLEAN, collector : BOOLEAN, deleted : BOOLEAN, live : BOOLEAN,
   conn : ConnStates, err : Errors, queue : SUBSET {"syn", "data", "fin"}, rto : BOOLEAN,
   orphan : BOOLEAN, backoff : Nat, linger : {"none", "user", "time_wait"}]

CallSet ==
  [pc : {"idle", "found", "connecting", "woken", "relock", "receiving", "wakeup", "free",
         "unlink"},
   op : {"none", "call", "read", "segment", "connect_rto", "rto", "linger", "free"},
   s : Sockets \union {"none"}]

TypeOK ==
  /\ table \subseteq Sockets
  /\ slock \in Holders
  /\ sock \in [Sockets -> SockSet] /\ thr \in [Threads -> CallSet]
  /\ \A t \in Threads : thr[t].pc # "idle" => thr[t].s \in Sockets

\* A lock is held by the one thread that is where the code holds it.
LocksHeld ==
  /\ \A s \in Sockets, t \in Threads : sock[s].lock = t <=> thr[t].pc = "wakeup" /\ thr[t].s = s
  /\ \A s \in Sockets, t \in Threads : sock[s].sleep = t <=> thr[t].pc = "relock" /\ thr[t].s = s
  /\ \A t \in Threads : slock = t <=> thr[t].pc = "unlink"

\* A reference is left for the table's sake and one more for the thread that
\* holds the lock, so socket_release never frees a struct socket that a thread
\* holds or can still look up (socket.c, socket_wr_acquire and socket_release).
RefcountCovers ==
  \A s \in Sockets : sock[s].refcnt >= (IF sock[s].lock = None THEN 1 ELSE 2)

\* A socket in the table still has its sock: socket_lookup reads sock->sk of
\* every entry under slock, and socket_free unlinks before it frees.
ListedIsLive == \A s \in table : sock[s].live

\* What leads to socket_free.
Condemned(k) == k.state = "DISCONNECTING" \/ k.collector \/ k.err \in Fatal

DeletedFirst ==
  /\ \A s \in Sockets : Condemned(sock[s]) => sock[s].deleted
  /\ \A t \in Threads : thr[t].pc \in {"free", "unlink"} => sock[thr[t].s].deleted

\* The invariant of the socket table (socket.c), whatever the environment does.
LifeInv ==
  /\ TypeOK /\ LocksHeld /\ RefcountCovers /\ ListedIsLive
  /\ "bad_address" \notin Env => DeletedFirst

\* The sock of a connection is freed only after tcp_done has given the socket
\* to the collector: neither the collector nor a failing connect() takes the
\* sock from under a connection that is still open.
OpenConnectionKept ==
  [][\A s \in Sockets : sock[s].live /\ ~sock[s].live' => sock[s].deleted]_vars

\* A blocking connect() returns, and so does a thread that wakes it or frees the
\* socket: it is woken by the SYN/ACK, the refusal, the close or the end of the
\* retries, and the locks it and its waker need are not held against each other
\* (inet.c:116-123, wait.h).
ConnectReturns ==
  \A a \in Apps : []<>(thr[App(a)].pc \in {"idle", "found", "receiving"})

\* A socket that tcp_done has given up leaves the table for good (socket_delete,
\* socket_garbage_collect), whatever the threads on it are doing.
Collected == \A s \in Sockets : <>[](sock[s].deleted => s \notin table)

\* Not so: a thread that has looked up a socket, or was woken on it, finds its
\* sock still there.
NoUseAfterFree ==
  \A t \in Threads :
    thr[t].pc \in {"found", "relock", "free", "unlink"} => sock[thr[t].s].live

\* Not so: no timer of a socket runs once its sock is freed.
TimersStopped ==
  \A s \in Sockets : ~sock[s].live => ~(sock[s].rto \/ sock[s].orphan \/ sock[s].linger # "none")
====
