---------------------------------- MODULE Ipc ---------------------------------
(***************************************************************************)
(* The control protocol between an application and the stack, for one      *)
(* socket: liblevelip turns a system call into a request on an AF_UNIX     *)
(* stream and reads one answer; a thread of the stack (socket_ipc_open)    *)
(* reads the request, makes the call and answers.                          *)
(*                                                                         *)
(* The stream has no message boundaries.  It carries cells: the header of  *)
(* a request or of an answer is one cell, and so is each unit of payload.  *)
(* A sender's data reaches the stream in pieces of at most Piece cells (the *)
(* buffers of the kernel), and a read takes what is there, up to what it   *)
(* asked for.                                                              *)
(***************************************************************************)
EXTENDS Integers, Sequences

CONSTANTS
  Callers,            \* threads of the application that use the socket
  Sizes,              \* sizes of write() and read()
  MaxBytes,           \* bound: units written, and units read
  IPC_BUFLEN,         \* cells the stack's thread reads at a time
  RCBUF_LEN,          \* cells transmit_lvlip reads of an answer
  Piece               \* cells that reach the stream at once

ASSUME IpcAssumption ==
  /\ Sizes \subseteq Nat \ {0} /\ MaxBytes \in Nat
  /\ {IPC_BUFLEN, RCBUF_LEN, Piece} \subseteq Nat \ {0}

VARIABLES
  req, resp,     \* the two directions of the stream
  cl,            \* each thread of the application
  srv,           \* the thread of the stack
  app            \* the process, and what it has written and read

vars == <<req, resp, cl, srv, app>>

\* A header of type "write" or "read" has the length in n.  tag tells one call
\* from the next and is not in the code.
Cell(type, n, tag) == [type |-> type, n |-> n, tag |-> tag]
Unit(v) == Cell("unit", v, 0)
Zero == Unit(0)

\* Units are numbered as they are written or delivered.
Units(first, n) == [i \in 1..n |-> Unit(first + i - 1)]

Idle == [pc |-> "idle", type |-> "none", n |-> 0, tag |-> 0, out |-> <<>>]

Init ==
  /\ req = <<>> /\ resp = <<>>
  /\ cl = [c \in Callers |-> Idle]
  /\ srv = [pc |-> "none", buf |-> [i \in 1..IPC_BUFLEN |-> Zero], out |-> <<>>, listed |-> FALSE,
            written |-> <<>>, delivered |-> 0, open |-> FALSE]
  /\ app = [lvlfd |-> "none", sent |-> 0, got |-> <<>>, tag |-> 0, wrong |-> FALSE]

------------------------------------------------------------------------------
\* The stream (external): write() and send() copy their data in pieces.

Pieces(out) == IF Len(out) > Piece THEN Piece ELSE Len(out)

CallerSends(c) ==
  LET n == Pieces(cl[c].out)
  IN  /\ cl[c].pc = "sending"
      /\ req' = req \o SubSeq(cl[c].out, 1, n)
      /\ cl' = [cl EXCEPT ![c].out = SubSeq(@, n + 1, Len(@)),
                          ![c].pc = IF n = Len(cl[c].out) THEN "waiting" ELSE "sending"]
      /\ UNCHANGED <<resp, srv, app>>

ServerSends ==
  LET n == Pieces(srv.out)
  IN  /\ srv.pc = "sending"
      /\ resp' = resp \o SubSeq(srv.out, 1, n)
      /\ srv' = [srv EXCEPT !.out = SubSeq(@, n + 1, Len(@)),
                            !.pc = IF n = Len(srv.out) THEN "reading" ELSE "sending"]
      /\ UNCHANGED <<req, cl, app>>

\* read(fd, buf, n) takes up to n cells of the stream s.
Taken(s, n) == SubSeq(s, 1, IF Len(s) < n THEN Len(s) ELSE n)
Left(s, n) == SubSeq(s, Len(Taken(s, n)) + 1, Len(s))

------------------------------------------------------------------------------
\* liblevelip: the calls of the application.

Request(c, type, n, payload) ==
  /\ cl' = [cl EXCEPT ![c] = [pc |-> "sending", type |-> type, n |-> n, tag |-> app.tag,
                              out |-> <<Cell(type, n, app.tag)>> \o payload]]
  /\ UNCHANGED <<req, resp>>

\* Two calls at a time are told apart by their tags, and so is the next one.
NextTag == (app.tag + 1) % 3

\* socket: a stream of its own for each socket.  accept and ipc_alloc_thread
\* are the listener's part.
socket(c) ==
  /\ cl[c].pc = "idle" /\ app.lvlfd = "none"
  /\ Request(c, "socket", 0, <<>>)
  /\ app' = [app EXCEPT !.lvlfd = "opening", !.tag = NextTag]
  /\ srv' = [srv EXCEPT !.pc = "reading", !.listed = TRUE]

\* connect, poll, fcntl, getsockopt, getpeername and getsockname: the request
\* and the answer have a size known to both sides.
FixedCall(c) ==
  /\ cl[c].pc = "idle" /\ app.lvlfd = "open"
  /\ Request(c, "call", 0, <<>>)
  /\ app' = [app EXCEPT !.tag = NextTag] /\ UNCHANGED srv

write(c, n) ==
  /\ cl[c].pc = "idle" /\ app.lvlfd = "open" /\ app.sent + n <= MaxBytes
  /\ Request(c, "write", n, Units(app.sent + 1, n))
  /\ app' = [app EXCEPT !.sent = @ + n, !.tag = NextTag] /\ UNCHANGED srv

read(c, n) ==
  /\ cl[c].pc = "idle" /\ app.lvlfd = "open"
  /\ Request(c, "read", n, <<>>)
  /\ app' = [app EXCEPT !.tag = NextTag] /\ UNCHANGED srv

close(c) ==
  /\ cl[c].pc = "idle" /\ app.lvlfd = "open"
  /\ Request(c, "close", 0, <<>>)
  /\ app' = [app EXCEPT !.tag = NextTag] /\ UNCHANGED srv

\* Mutant: read() asks for its payload and forgets the header.
AnswerSize_NoHeader(k) == IF k.type = "read" THEN k.n ELSE RCBUF_LEN

\* How much of the answer the caller's one read() asks for.
AnswerSize(k) == IF k.type = "read" THEN 1 + k.n ELSE RCBUF_LEN

\* What a read() that got the cells a has from the answer: len units, with
\* zeros where the buffer was not filled.
Received(a, len) == [i \in 1..len |-> IF i + 1 <= Len(a) THEN a[i + 1] ELSE Zero]

\* The caller reads once and looks at the header.  After close() it closes its
\* end of the stream, whatever the answer.
Answered(c) ==
  /\ cl[c].pc = "waiting" /\ resp # <<>>
  /\ LET k == cl[c]
         a == Taken(resp, AnswerSize(k))
         fits == a[1].type = k.type
     IN  /\ resp' = Left(resp, AnswerSize(k))
         /\ app' = [app EXCEPT
              !.wrong = @ \/ ~fits \/ a[1].tag # k.tag,
              !.got = IF fits /\ k.type = "read" /\ a[1].n <= k.n
                      THEN @ \o Received(a, a[1].n) ELSE @,
              !.lvlfd = IF k.type = "close" THEN "closed" ELSE IF k.type = "socket" THEN "open"
                        ELSE @]
  /\ cl' = [cl EXCEPT ![c] = Idle]
  /\ UNCHANGED <<req, srv>>

\* The process ends, in the middle of a call or not.
Exits ==
  /\ app.lvlfd \in {"opening", "open"}
  /\ app' = [app EXCEPT !.lvlfd = "closed"]
  /\ cl' = [c \in Callers |-> Idle]
  /\ UNCHANGED <<req, resp, srv>>

------------------------------------------------------------------------------
\* The stack: socket_ipc_open and demux_ipc_socket_call.

\* Mutant: an ipc_read that got nothing has nothing to send.
Answer_SilentWhenEmpty(s, type, tag, payload) ==
  IF app.lvlfd = "closed" \/ (type = "read" /\ payload = <<>>) THEN [s EXCEPT !.pc = "reading"]
  ELSE [s EXCEPT !.pc = "sending", !.out = <<Cell(type, Len(payload), tag)>> \o payload]

\* Mutant: the thread returns when it cannot send, without ipc_free_thread.
Answer_ReturnsOnError(s, type, tag, payload) ==
  IF app.lvlfd = "closed" THEN [s EXCEPT !.pc = "none"]
  ELSE [s EXCEPT !.pc = "sending", !.out = <<Cell(type, Len(payload), tag)>> \o payload]

\* ipc_write_rc and the answers of the other calls.  Sending to a process that
\* has gone fails, and the thread reads on.
Answer(s, type, tag, payload) ==
  IF app.lvlfd = "closed" THEN [s EXCEPT !.pc = "reading"]
  ELSE [s EXCEPT !.pc = "sending", !.out = <<Cell(type, Len(payload), tag)>> \o payload]

head == IPC_BUFLEN - 1

\* ipc_write: the payload is what follows the header in the buffer, and, when
\* it is longer than that, what a second read fetches; what the second read
\* does not fill is zero.
Payload(buf, n, tail) ==
  [i \in 1..n |-> IF i <= head THEN buf[i + 1]
                  ELSE IF i - head <= Len(tail) THEN tail[i - head] ELSE Zero]

ipc_write(s, tail) ==
  LET h == s.buf[1]
  IN  Answer([s EXCEPT !.written = @ \o Payload(s.buf, h.n, tail)], "write", h.tag, <<>>)

\* A read that is short leaves the rest of the buffer as it was.
Filled(buf, cells) == cells \o SubSeq(buf, Len(cells) + 1, IPC_BUFLEN)

\* Mutant: no payload guard, the write is taken from the buffer alone.
demux_ipc_socket_call_NoGuard(s) ==
  LET h == s.buf[1]
  IN  CASE h.type = "write" -> ipc_write(s, <<>>)
        [] h.type = "read" -> [s EXCEPT !.pc = "receiving"]
        [] h.type = "socket" -> Answer([s EXCEPT !.open = TRUE], "socket", h.tag, <<>>)
        [] h.type = "close" -> Answer([s EXCEPT !.open = FALSE], "close", h.tag, <<>>)
        [] h.type = "call" -> Answer(s, "call", h.tag, <<>>)
        [] OTHER -> s

\* A unit of payload where a header should be is a type nobody knows: demux
\* prints it and does not answer.
demux_ipc_socket_call(s) ==
  LET h == s.buf[1]
  IN  CASE h.type = "write" /\ h.n > head -> [s EXCEPT !.pc = "tail"]
        [] h.type = "write" /\ h.n <= head -> ipc_write(s, <<>>)
        [] h.type = "read" -> [s EXCEPT !.pc = "receiving"]
        [] h.type = "socket" -> Answer([s EXCEPT !.open = TRUE], "socket", h.tag, <<>>)
        [] h.type = "close" -> Answer([s EXCEPT !.open = FALSE], "close", h.tag, <<>>)
        [] h.type = "call" -> Answer(s, "call", h.tag, <<>>)
        [] OTHER -> s

socket_ipc_open ==
  /\ srv.pc = "reading" /\ req # <<>>
  /\ req' = Left(req, IPC_BUFLEN)
  /\ srv' = demux_ipc_socket_call([srv EXCEPT !.buf = Filled(@, Taken(req, IPC_BUFLEN))])
  /\ UNCHANGED <<resp, cl, app>>

\* The payload guard of ipc_write.  At the end of the stream the read gives
\* nothing.
ReadsTail ==
  LET tail == srv.buf[1].n - head
  IN  /\ srv.pc = "tail" /\ (req # <<>> \/ app.lvlfd = "closed")
      /\ req' = Left(req, tail)
      /\ srv' = ipc_write(srv, Taken(req, tail))
      /\ UNCHANGED <<resp, cl, app>>

\* ipc_read, once _read has returned some units, the end or an error.
ipc_read ==
  /\ srv.pc = "receiving"
  /\ \E rlen \in 0..srv.buf[1].n :
       /\ srv.delivered + rlen <= MaxBytes
       /\ srv' = Answer([srv EXCEPT !.delivered = @ + rlen], "read", srv.buf[1].tag,
                        Units(srv.delivered + 1, rlen))
  /\ UNCHANGED <<req, resp, cl, app>>

\* The end of the stream: ipc_free_thread.
EndOfStream ==
  /\ srv.pc = "reading" /\ req = <<>> /\ app.lvlfd = "closed"
  /\ srv' = [srv EXCEPT !.pc = "none", !.listed = FALSE]
  /\ UNCHANGED <<req, resp, cl, app>>

------------------------------------------------------------------------------
Caller(c) ==
  \/ socket(c) \/ FixedCall(c) \/ close(c) \/ Answered(c) \/ CallerSends(c)
  \/ \E n \in Sizes : write(c, n) \/ read(c, n)

Server == socket_ipc_open \/ ReadsTail \/ ipc_read \/ ServerSends \/ EndOfStream

Next == (\E c \in Callers : Caller(c)) \/ Server \/ Exits

\* Threads run, and the calls that the stack's thread makes return.
Fairness ==
  /\ WF_vars(Server)
  /\ \A c \in Callers : WF_vars(CallerSends(c)) /\ WF_vars(Answered(c))

Spec == Init /\ [][Next]_vars /\ Fairness

------------------------------------------------------------------------------
\* The answer that a call takes from the stream is the answer to that call
\* (transmit_lvlip, read, poll and the others compare the type and the pid).
AnswersItsRequest == ~app.wrong

InOrder(s) == \A i \in 1..Len(s) : s[i] = Unit(i)

\* What the application writes reaches the stack unchanged and in order, also
\* when it is longer than IPC_BUFLEN (ipc.c:140); what it has read is what the
\* stack delivered; and a call that has returned leaves nothing in the stream
\* for the next one to trip over.
BytesIntact ==
  /\ InOrder(srv.written) /\ InOrder(app.got)
  /\ (app.lvlfd = "open" /\ \A c \in Callers : cl[c].pc = "idle") =>
       /\ req = <<>> /\ resp = <<>>
       /\ Len(srv.written) = app.sent /\ Len(app.got) = srv.delivered

\* Every call returns, again and again: neither side waits for cells the other will
\* not send.
CallReturns == \A c \in Callers : []<>(cl[c].pc = "idle")

\* The thread of the stack ends with the process, however it ends, and takes
\* itself off the list (ipc_free_thread).
ThreadFreed == []<>(app.lvlfd = "closed" => ~srv.listed)

\* Not so: a socket is closed when the process that owns it has gone.
SocketClosed == []<>(app.lvlfd = "closed" => ~srv.open)
====
