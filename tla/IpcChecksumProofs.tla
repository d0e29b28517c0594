-------------------------- MODULE IpcChecksumProofs --------------------------
(***************************************************************************)
(* One thread of the application on the control socket, for every size of  *)
(* its calls and of the buffers on both sides: the call and its answer go  *)
(* through phases that leave nothing in the stream.  And the checksum, for *)
(* every size of a word: folding the carries keeps the residue of a sum.   *)
(***************************************************************************)
EXTENDS Ipc, Checksum, WellFoundedInduction, TLAPS

------------------------------------------------------------------------------
\* The control socket.

Kinds == {"socket", "call", "write", "read", "close"}
CellType == [type: Kinds \union {"unit"}, n: Nat, tag: Nat]
Cells == Seq(CellType)

\* The units after f, m of them; and a header with such a payload.
Run(s, f, m) == s \in Cells /\ Len(s) = m /\ \A i \in 1..m : s[i] = Unit(f + i)
Message(s, h, f, m) ==
  s \in Cells /\ Len(s) = m + 1 /\ s[1] = h /\ \A i \in 1..m : s[i + 1] = Unit(f + i)

\* An empty stream.
LEMMA NoCells == <<>> \in Cells
BY DEF Cells

\* Units are cells.
LEMMA UnitIsCell == \A v \in Nat : Unit(v) \in CellType
BY Zenon DEF Unit, Cell, CellType

\* Headers are cells.
LEMMA HeaderIsCell == \A t \in Kinds, n \in Nat, g \in Nat : Cell(t, n, g) \in CellType
BY Zenon DEF Cell, CellType

\* Units numbers its cells one after the other.
LEMMA UnitsRun ==
  ASSUME NEW f \in Nat, NEW m \in Nat
  PROVE  Run(Units(f + 1, m), f, m)
<1>1. \A i \in 1..m : f + 1 + i - 1 = f + i /\ f + i \in Nat
  OBVIOUS
<1>2. \A i \in 1..m : Unit(f + 1 + i - 1) = Unit(f + i) /\ Unit(f + i) \in CellType
  BY Zenon, <1>1, UnitIsCell
<1> DEFINE s == [i \in 1..m |-> Unit(f + 1 + i - 1)]
<1>3. s = Units(f + 1, m)
  BY Zenon DEF Units
<1>4. \A i \in 1..m : s[i] = Unit(f + i)
  BY Zenon, <1>2
<1>5. s \in Seq(CellType) /\ Len(s) = m
  BY <1>2
<1> HIDE DEF s
<1> QED
  BY Zenon, <1>3, <1>4, <1>5 DEF Run, Cells

\* A header and its payload.
LEMMA MessageOf ==
  ASSUME NEW h \in CellType, NEW p, NEW f \in Nat, NEW m \in Nat, Run(p, f, m)
  PROVE  Message(<<h>> \o p, h, f, m)
<1>1. p \in Seq(CellType) /\ Len(p) = m /\ \A i \in 1..m : p[i] = Unit(f + i)
  BY Zenon DEF Run, Cells
<1>2. <<h>> \in Seq(CellType) /\ Len(<<h>>) = 1 /\ <<h>>[1] = h
  OBVIOUS
<1> DEFINE q == <<h>>
<1> HIDE DEF q
<1>3. /\ q \o p \in Seq(CellType) /\ Len(q \o p) = m + 1 /\ (q \o p)[1] = h
      /\ \A i \in 1..m : (q \o p)[i + 1] = p[i]
  BY <1>1, <1>2 DEF q
<1> QED
  BY Zenon, <1>1, <1>3 DEF Message, Cells, q

\* A run that goes on where another ends.
LEMMA RunGoesOn ==
  ASSUME NEW w \in Cells, InOrder(w), NEW p, NEW m \in Nat, Run(p, Len(w), m)
  PROVE  w \o p \in Cells /\ InOrder(w \o p) /\ Len(w \o p) = Len(w) + m
<1>1. /\ p \in Seq(CellType) /\ Len(p) = m /\ (\A i \in 1..m : p[i] = Unit(Len(w) + i))
      /\ w \in Seq(CellType) /\ Len(w) \in Nat
  BY DEF Run, Cells
<1>2. w \o p \in Seq(CellType) /\ Len(w \o p) = Len(w) + m
  BY <1>1
<1>3. ASSUME NEW i \in 1..(Len(w) + m) PROVE (w \o p)[i] = Unit(i)
  <2>1. CASE i \in 1..Len(w)
    BY <1>1, <2>1 DEF InOrder
  <2>2. CASE i - Len(w) \in 1..m
    <3>1. (w \o p)[i] = p[i - Len(w)] /\ Len(w) + (i - Len(w)) = i
      BY <1>1, <2>2
    <3> QED
      BY Zenon, <1>1, <2>2, <3>1
  <2> QED
    BY <1>1, <2>1, <2>2
<1> QED
  BY Zenon, <1>2, <1>3 DEF InOrder, Cells

\* A stream that is taken whole.
LEMMA TakenWhole ==
  ASSUME NEW s \in Cells, NEW n \in Nat, Len(s) <= n
  PROVE  Taken(s, n) = s /\ Left(s, n) = <<>>
<1>0. s \in Seq(CellType) /\ Len(s) \in Nat
  BY DEF Cells
<1>1. SubSeq(s, 1, Len(s)) = s
  BY <1>0
<1>2. Taken(s, n) = s
  <2>1. (IF Len(s) < n THEN Len(s) ELSE n) = Len(s)
    BY <1>0
  <2> QED
    BY <1>1, <2>1, Zenon DEF Taken
<1>3. SubSeq(s, Len(s) + 1, Len(s)) = <<>>
  BY <1>0
<1> QED
  BY Zenon, <1>2, <1>3 DEF Left

\* A stream that is taken in part.
LEMMA TakenInPart ==
  ASSUME NEW s \in Cells, NEW n \in Nat, n < Len(s)
  PROVE  /\ Taken(s, n) \in Cells /\ Len(Taken(s, n)) = n /\ \A i \in 1..n : Taken(s, n)[i] = s[i]
         /\ Left(s, n) \in Cells /\ Len(Left(s, n)) = Len(s) - n
         /\ \A i \in 1..(Len(s) - n) : Left(s, n)[i] = s[n + i]
<1>0. s \in Seq(CellType) /\ Len(s) \in Nat
  BY DEF Cells
<1>1. Taken(s, n) = SubSeq(s, 1, n)
  BY <1>0 DEF Taken
<1>2. Len(SubSeq(s, 1, n)) = n /\ SubSeq(s, 1, n) \in Seq(CellType) /\ \A i \in 1..n : SubSeq(s, 1, n)[i] = s[i]
  BY <1>0
<1>3. Left(s, n) = SubSeq(s, n + 1, Len(s))
  BY Zenon, <1>1, <1>2 DEF Left
<1>4. /\ Len(SubSeq(s, n + 1, Len(s))) = Len(s) - n /\ SubSeq(s, n + 1, Len(s)) \in Seq(CellType)
      /\ \A i \in 1..(Len(s) - n) : SubSeq(s, n + 1, Len(s))[i] = s[n + i]
  BY <1>0
<1> QED
  BY Zenon, <1>1, <1>2, <1>3, <1>4 DEF Cells

\* What a read puts into the buffer.
LEMMA FilledBuffer ==
  ASSUME NEW b \in Cells, Len(b) = IPC_BUFLEN, NEW s \in Cells, Len(s) <= IPC_BUFLEN
  PROVE  /\ Filled(b, s) \in Cells /\ Len(Filled(b, s)) = IPC_BUFLEN
         /\ \A i \in 1..Len(s) : Filled(b, s)[i] = s[i]
<1>0. b \in Seq(CellType) /\ s \in Seq(CellType) /\ Len(b) \in Nat /\ Len(s) \in Nat
  BY DEF Cells
<1> DEFINE r == SubSeq(b, Len(s) + 1, Len(b))
<1>1. r \in Seq(CellType) /\ Len(r) = Len(b) - Len(s)
  BY <1>0
<1>2. Filled(b, s) = s \o r
  BY Zenon DEF Filled
<1> HIDE DEF r
<1>3. s \o r \in Seq(CellType) /\ Len(s \o r) = Len(b) /\ \A i \in 1..Len(s) : (s \o r)[i] = s[i]
  BY SMTT(40), <1>0, <1>1
<1> QED
  BY Zenon, <1>2, <1>3 DEF Cells

\* ipc_write finds its payload: in the buffer, and the rest in what a second read fetched.
LEMMA PayloadRun ==
  ASSUME NEW b \in Cells, NEW f \in Nat, NEW n \in Nat, NEW t,
         \A i \in 1..n : i <= head => b[i + 1] = Unit(f + i),
         n > head => Run(t, f + head, n - head)
  PROVE  Run(Payload(b, n, t), f, n)
<1>0. head \in Nat
  BY IpcAssumption DEF IpcAssumption, head
<1> DEFINE P == [i \in 1..n |-> IF i <= head THEN b[i + 1]
                                ELSE IF i - head <= Len(t) THEN t[i - head] ELSE Zero]
<1>1. P = Payload(b, n, t)
  BY Zenon DEF Payload
<1>2. ASSUME NEW i \in 1..n PROVE P[i] = Unit(f + i) /\ P[i] \in CellType
  <2>1. f + i \in Nat
    OBVIOUS
  <2>2. CASE i <= head
    BY Zenon, <2>1, <2>2, UnitIsCell
  <2>3. CASE ~(i <= head)
    <3>1. n > head /\ i - head \in 1..(n - head) /\ (f + head) + (i - head) = f + i
      BY <1>0, <2>3
    <3>2. Len(t) = n - head /\ t[i - head] = Unit((f + head) + (i - head))
      BY Zenon, <3>1 DEF Run
    <3>3. P[i] = t[i - head]
      BY <1>0, <2>3, <3>1, <3>2
    <3> QED
      BY Zenon, <2>1, <3>1, <3>2, <3>3, UnitIsCell
  <2> QED
    BY Zenon, <2>2, <2>3
<1>3. DOMAIN P = 1..n /\ P = [i \in 1..n |-> P[i]]
  BY Zenon
<1> HIDE DEF P
<1>4. P \in Seq(CellType) /\ Len(P) = n
  BY <1>2, <1>3
<1> QED
  BY Zenon, <1>1, <1>2, <1>4 DEF Run, Cells

\* What a call takes from its answer is the payload.
LEMMA ReceivedRun ==
  ASSUME NEW a, NEW h, NEW f \in Nat, NEW m \in Nat, Message(a, h, f, m)
  PROVE  Run(Received(a, m), f, m)
<1>0. Len(a) = m + 1 /\ \A i \in 1..m : a[i + 1] = Unit(f + i) /\ f + i \in Nat /\ i + 1 <= m + 1
  BY DEF Message
<1> DEFINE P == [i \in 1..m |-> IF i + 1 <= Len(a) THEN a[i + 1] ELSE Zero]
<1>1. P = Received(a, m)
  BY Zenon DEF Received
<1>2. \A i \in 1..m : P[i] = Unit(f + i) /\ P[i] \in CellType
  BY Zenon, <1>0, UnitIsCell
<1>3. DOMAIN P = 1..m /\ P = [i \in 1..m |-> P[i]]
  BY Zenon
<1> HIDE DEF P
<1>4. P \in Seq(CellType) /\ Len(P) = m
  BY <1>2, <1>3
<1> QED
  BY Zenon, <1>1, <1>2, <1>4 DEF Run, Cells

------------------------------------------------------------------------------
\* The phases of a call.

SrvType == [pc: {"none", "reading", "tail", "receiving", "sending"}, buf: Cells, out: Cells,
            listed: BOOLEAN, written: Cells, delivered: Nat, open: BOOLEAN]
AppType == [lvlfd: {"none", "opening", "open", "closed"}, sent: Nat, got: Cells, tag: Nat, wrong: BOOLEAN]
CallType == [pc: {"idle", "sending", "waiting"}, type: Kinds \union {"none"}, n: Nat, tag: Nat, out: Cells]

\* The units that follow the header of a request, the request and the answer.
Extra(k) == IF k.type = "write" THEN k.n ELSE 0
Header(k) == Cell(k.type, k.n, k.tag)
Requested(s, k, w) == Message(s, Header(k), w, Extra(k))
Reply(s, k, g, m) == Message(s, Cell(k.type, m, k.tag), g, m) /\ (m = 0 \/ (k.type = "read" /\ m <= k.n))

\* A call that has been made, each message of which goes in one piece.
Proper(k) == k \in CallType /\ k.type \in Kinds /\ (k.type \in {"read", "write"} => k.n + 1 <= Piece)

\* ipc_write has the beginning of the payload and the stream r has the rest.
HalfRead(k, s, r) ==
  /\ s.pc = "tail" /\ k.type = "write" /\ k.n > head /\ s.buf[1] = Header(k)
  /\ \A i \in 1..k.n : i <= head => s.buf[i + 1] = Unit(Len(s.written) + i)
  /\ Run(r, Len(s.written) + head, k.n - head)

\* What the thread of the stack has is in order.
SrvInv(s) == s \in SrvType /\ Len(s.buf) = IPC_BUFLEN /\ InOrder(s.written)

Quiet(k) ==
  /\ k.pc = "idle" /\ app.lvlfd \in {"none", "open"} /\ srv.pc \in {"none", "reading"}
  /\ req = <<>> /\ resp = <<>> /\ Len(srv.written) = app.sent /\ Len(app.got) = srv.delivered
  /\ app.lvlfd = "open" => srv.pc = "reading"

\* Before the answer nothing has come back.
Before(k) == resp = <<>> /\ Len(srv.written) + Extra(k) = app.sent /\ Len(app.got) = srv.delivered

Sending(k) == k.pc = "sending" /\ srv.pc = "reading" /\ req = <<>> /\ Requested(k.out, k, Len(srv.written)) /\ Before(k)
InStream(k) == k.pc = "waiting" /\ srv.pc = "reading" /\ Requested(req, k, Len(srv.written)) /\ Before(k)
InTail(k) == k.pc = "waiting" /\ HalfRead(k, srv, req) /\ Before(k)
Receiving(k) ==
  /\ k.pc = "waiting" /\ k.type = "read" /\ srv.pc = "receiving" /\ srv.buf[1] = Header(k)
  /\ req = <<>> /\ Before(k)
Answering(k) ==
  /\ k.pc = "waiting" /\ srv.pc = "sending" /\ req = <<>> /\ resp = <<>> /\ Len(srv.written) = app.sent
  /\ \E m \in Nat : Reply(srv.out, k, Len(app.got), m) /\ Len(app.got) + m = srv.delivered
Returned(k) ==
  /\ k.pc = "waiting" /\ srv.pc = "reading" /\ req = <<>> /\ Len(srv.written) = app.sent
  /\ \E m \in Nat : Reply(resp, k, Len(app.got), m) /\ Len(app.got) + m = srv.delivered

Calling(k) ==
  /\ Proper(k) /\ app.lvlfd = (IF k.type = "socket" THEN "opening" ELSE "open")
  /\ Sending(k) \/ InStream(k) \/ InTail(k) \/ Receiving(k) \/ Answering(k) \/ Returned(k)

\* The process has gone; a request of it may be left.
Gone(k) ==
  /\ app.lvlfd = "closed" /\ k.pc = "idle"
  /\ \/ req = <<>> /\ srv.pc # "tail"
     \/ \E q \in CallType : /\ Proper(q)
                            /\ \/ srv.pc = "reading" /\ Requested(req, q, Len(srv.written))
                               \/ HalfRead(q, srv, req)

IpcInv(c) ==
  /\ SrvInv(srv) /\ app \in AppType /\ InOrder(app.got) /\ ~app.wrong /\ resp \in Cells
  /\ cl \in [Callers -> CallType]
  /\ Quiet(cl[c]) \/ Calling(cl[c]) \/ Gone(cl[c])

\* The control socket starts without a stream.
LEMMA InitIpc == ASSUME NEW c \in Callers PROVE Init => IpcInv(c)
<1> SUFFICES ASSUME Init PROVE IpcInv(c)
  BY Zenon
<1>1. <<>> \in Cells /\ Len(<<>>) = 0 /\ InOrder(<<>>)
  BY DEF Cells, InOrder
<1> DEFINE b == [i \in 1..IPC_BUFLEN |-> Zero]
<1>2. b \in Cells /\ Len(b) = IPC_BUFLEN
  <2>1. Zero \in CellType
    BY Zenon, UnitIsCell DEF Zero
  <2> QED
    BY <2>1, IpcAssumption DEF Cells, IpcAssumption
<1>3. srv = [pc |-> "none", buf |-> b, out |-> <<>>, listed |-> FALSE, written |-> <<>>, delivered |-> 0, open |-> FALSE]
      /\ app = [lvlfd |-> "none", sent |-> 0, got |-> <<>>, tag |-> 0, wrong |-> FALSE]
      /\ cl = [x \in Callers |-> Idle] /\ req = <<>> /\ resp = <<>>
  BY Zenon DEF Init
<1> HIDE DEF b
<1>4. Idle \in CallType /\ Idle.pc = "idle"
  BY Zenon, <1>1 DEF Idle, CallType
<1>5. SrvInv(srv) /\ srv.pc = "none" /\ srv.written = <<>> /\ srv.delivered = 0
  BY Zenon, <1>1, <1>2, <1>3 DEF SrvInv, SrvType
<1>6. app \in AppType /\ app.got = <<>> /\ ~app.wrong /\ app.lvlfd = "none" /\ app.sent = 0
  BY Zenon, <1>1, <1>3 DEF AppType
<1>7. cl[c] = Idle /\ cl \in [Callers -> CallType]
  BY Zenon, <1>3, <1>4
<1> QED
  BY Zenon, <1>1, <1>3, <1>4, <1>5, <1>6, <1>7 DEF IpcInv, Quiet

\* Answer sends to a process that is there and reads on when it has gone.
LEMMA AnswerIs ==
  ASSUME NEW s \in SrvType, NEW type \in Kinds, NEW tag \in Nat, NEW p, NEW f \in Nat, NEW m \in Nat, Run(p, f, m),
         NEW a, a = Answer(s, type, tag, p)
  PROVE  /\ a \in SrvType /\ a.buf = s.buf /\ a.written = s.written /\ a.delivered = s.delivered
         /\ app.lvlfd = "closed" => a.pc = "reading"
         /\ app.lvlfd # "closed" => a.pc = "sending" /\ Message(a.out, Cell(type, m, tag), f, m)
<1>1. Len(p) = m
  BY Zenon DEF Run
<1>2. Cell(type, m, tag) \in CellType
  BY Zenon, HeaderIsCell
<1> DEFINE o == <<Cell(type, m, tag)>> \o p
<1>3. Message(o, Cell(type, m, tag), f, m)
  BY Zenon, <1>2, MessageOf
<1>4. o \in Cells
  BY Zenon, <1>3 DEF Message
<1>5. a = IF app.lvlfd = "closed" THEN [s EXCEPT !.pc = "reading"] ELSE [s EXCEPT !.pc = "sending", !.out = o]
  BY Zenon, <1>1 DEF Answer
<1> HIDE DEF o
<1>6. CASE app.lvlfd = "closed"
  BY <1>4, <1>5, <1>6 DEF SrvType
<1>7. CASE app.lvlfd # "closed"
  <2>1. a = [s EXCEPT !.pc = "sending", !.out = o]
    BY Zenon, <1>5, <1>7
  <2>2. a \in SrvType /\ a.buf = s.buf /\ a.written = s.written /\ a.delivered = s.delivered
        /\ a.pc = "sending" /\ a.out = o
    BY Zenon, <1>4, <2>1 DEF SrvType
  <2> QED
    BY Zenon, <1>3, <1>7, <2>2
<1> QED
  BY Zenon, <1>6, <1>7

\* An empty payload.
LEMMA NoPayload == \A f \in Nat : Run(<<>>, f, 0)
BY DEF Run, Cells

\* The thread answered q, or the process had gone.
Handled(q, s, w) ==
  /\ Len(s.written) = w + Extra(q)
  /\ app.lvlfd = "closed" => s.pc = "reading"
  /\ app.lvlfd # "closed" => s.pc = "sending" /\ \A g \in Nat : Message(s.out, Cell(q.type, 0, q.tag), g, 0)

\* ipc_write hands the payload on and answers.
LEMMA WriteHandled ==
  ASSUME NEW s, SrvInv(s), NEW q, Proper(q), q.type = "write", s.buf[1] = Header(q),
         NEW t, NEW a, a = ipc_write(s, t),
         \A i \in 1..q.n : i <= head => s.buf[i + 1] = Unit(Len(s.written) + i),
         q.n > head => Run(t, Len(s.written) + head, q.n - head)
  PROVE  SrvInv(a) /\ a.delivered = s.delivered /\ Handled(q, a, Len(s.written))
<1>0. s \in SrvType /\ s.buf \in Cells /\ s.written \in Cells /\ Len(s.written) \in Nat /\ InOrder(s.written)
      /\ q.n \in Nat /\ q.tag \in Nat /\ q.type \in Kinds /\ Len(s.buf) = IPC_BUFLEN
  BY DEF SrvInv, SrvType, Proper, CallType, Cells
<1> DEFINE p == Payload(s.buf, q.n, t)
           w == s.written \o p
           x == [s EXCEPT !.written = w]
<1>1. Run(p, Len(s.written), q.n)
  BY Zenon, <1>0, PayloadRun
<1> HIDE DEF p
<1>2. w \in Cells /\ InOrder(w) /\ Len(w) = Len(s.written) + q.n
  BY Zenon, <1>0, <1>1, RunGoesOn
<1>3. s.buf[1].n = q.n /\ s.buf[1].tag = q.tag
  BY DEF Header, Cell
<1>4. a = Answer(x, "write", q.tag, <<>>)
  BY Zenon, <1>0, <1>3 DEF ipc_write, p, SrvType
<1> HIDE DEF w
<1>5. x \in SrvType /\ x.buf = s.buf /\ x.written = w /\ x.delivered = s.delivered
  BY Zenon, <1>0, <1>2 DEF SrvType
<1> HIDE DEF x
<1>6. ASSUME NEW f \in Nat
      PROVE  /\ a \in SrvType /\ a.buf = s.buf /\ a.written = w /\ a.delivered = s.delivered
             /\ app.lvlfd = "closed" => a.pc = "reading"
             /\ app.lvlfd # "closed" => a.pc = "sending" /\ Message(a.out, Cell(q.type, 0, q.tag), f, 0)
  BY <1>0, <1>4, <1>5, NoPayload, AnswerIs
<1> QED
  BY Zenon, <1>0, <1>2, <1>6 DEF SrvInv, Handled, Extra

\* The first read of a request has the header and what the buffer has room for.
LEMMA FirstRead ==
  ASSUME SrvInv(srv), NEW q, Proper(q), Requested(req, q, Len(srv.written)),
         NEW b, b = Filled(srv.buf, Taken(req, IPC_BUFLEN))
  PROVE  /\ b \in Cells /\ Len(b) = IPC_BUFLEN /\ b[1] = Header(q)
         /\ \A i \in 1..Extra(q) : i <= head => b[i + 1] = Unit(Len(srv.written) + i)
         /\ Extra(q) > head => Run(Left(req, IPC_BUFLEN), Len(srv.written) + head, Extra(q) - head)
         /\ ~(Extra(q) > head) => Left(req, IPC_BUFLEN) = <<>>
<1> DEFINE w == Len(srv.written)
           e == Extra(q)
           t == Taken(req, IPC_BUFLEN)
           r == Left(req, IPC_BUFLEN)
<1>0. w \in Nat /\ e \in Nat /\ srv.buf \in Cells /\ Len(srv.buf) = IPC_BUFLEN
      /\ IPC_BUFLEN \in Nat /\ IPC_BUFLEN >= 1 /\ head = IPC_BUFLEN - 1
  BY IpcAssumption DEF SrvInv, SrvType, Proper, CallType, Extra, IpcAssumption, head, Cells
<1>1. req \in Cells /\ Len(req) = e + 1 /\ req[1] = Header(q) /\ \A i \in 1..e : req[i + 1] = Unit(w + i)
  BY Zenon DEF Requested, Message
<1> HIDE DEF w, e
<1>2. /\ t \in Cells /\ Len(t) \in 1..IPC_BUFLEN /\ t[1] = Header(q)
      /\ \A i \in 1..e : i <= head => i + 1 \in 1..Len(t) /\ t[i + 1] = Unit(w + i)
      /\ e > head => Run(r, w + head, e - head)
      /\ ~(e > head) => r = <<>>
  <2>1. CASE ~(e > head)
    <3>1. t = req /\ r = <<>>
      BY <1>0, <1>1, <2>1, TakenWhole
    <3> HIDE DEF t, r
    <3> QED
      BY <1>0, <1>1, <2>1, <3>1
  <2>2. CASE e > head
    <3>1. IPC_BUFLEN < Len(req)
      BY <1>0, <1>1, <2>2
    <3>2. /\ t \in Cells /\ Len(t) = IPC_BUFLEN /\ \A i \in 1..IPC_BUFLEN : t[i] = req[i]
          /\ r \in Cells /\ Len(r) = Len(req) - IPC_BUFLEN
          /\ \A i \in 1..(Len(req) - IPC_BUFLEN) : r[i] = req[IPC_BUFLEN + i]
      BY Zenon, <1>0, <1>1, <3>1, TakenInPart
    <3> HIDE DEF t, r
    <3>3. \A i \in 1..e : i <= head => i + 1 \in 1..Len(t) /\ t[i + 1] = Unit(w + i)
      BY <1>0, <1>1, <3>2
    <3>4. ASSUME NEW i \in 1..(e - head) PROVE r[i] = Unit(w + head + i)
      <4>1. IPC_BUFLEN + i = (head + i) + 1 /\ head + i \in 1..e /\ w + (head + i) = w + head + i
            /\ i \in 1..(Len(req) - IPC_BUFLEN)
        BY <1>0, <1>1, <2>2
      <4>2. r[i] = req[(head + i) + 1]
        BY Zenon, <3>2, <4>1
      <4> QED
        BY Zenon, <1>1, <4>1, <4>2
    <3>5. Len(r) = e - head
      BY <1>0, <1>1, <3>2
    <3>6. t[1] = Header(q) /\ Len(t) \in 1..IPC_BUFLEN
      BY <1>0, <1>1, <3>2
    <3> QED
      BY Zenon, <2>2, <3>2, <3>3, <3>4, <3>5, <3>6 DEF Run
  <2> QED
    BY Zenon, <2>1, <2>2
<1> HIDE DEF t, r
<1>3. Filled(srv.buf, t) \in Cells /\ Len(Filled(srv.buf, t)) = IPC_BUFLEN
      /\ \A i \in 1..Len(t) : Filled(srv.buf, t)[i] = t[i]
  <2>1. Len(t) <= IPC_BUFLEN
    BY <1>0, <1>2
  <2> QED
    BY Zenon, <1>0, <1>2, <2>1, FilledBuffer
<1>4. b = Filled(srv.buf, t)
  BY Zenon DEF t
<1>5. 1 \in 1..Len(t)
  BY <1>0, <1>2
<1> QED
  BY Zenon, <1>2, <1>3, <1>4, <1>5 DEF t, r, w, e

\* socket_ipc_open and demux_ipc_socket_call on a request that is in the stream.
LEMMA Demuxed ==
  ASSUME SrvInv(srv), NEW q, Proper(q), Requested(req, q, Len(srv.written)), srv.pc = "reading", socket_ipc_open
  PROVE  /\ SrvInv(srv') /\ srv'.delivered = srv.delivered
         /\ \/ HalfRead(q, srv', req') /\ Len(srv'.written) = Len(srv.written)
            \/ /\ q.type = "read" /\ srv'.pc = "receiving" /\ srv'.buf[1] = Header(q) /\ req' = <<>>
               /\ Len(srv'.written) = Len(srv.written)
            \/ q.type # "read" /\ req' = <<>> /\ Handled(q, srv', Len(srv.written))
<1> DEFINE b == Filled(srv.buf, Taken(req, IPC_BUFLEN))
           s == [srv EXCEPT !.buf = b]
           w == Len(srv.written)
<1>0. srv \in SrvType /\ InOrder(srv.written) /\ w \in Nat /\ head \in Nat
      /\ q.type \in Kinds /\ q.n \in Nat /\ q.tag \in Nat
  BY IpcAssumption DEF SrvInv, SrvType, Proper, CallType, IpcAssumption, head, Cells
<1>1. /\ b \in Cells /\ Len(b) = IPC_BUFLEN /\ b[1] = Header(q)
      /\ \A i \in 1..Extra(q) : i <= head => b[i + 1] = Unit(w + i)
      /\ Extra(q) > head => Run(Left(req, IPC_BUFLEN), w + head, Extra(q) - head)
      /\ ~(Extra(q) > head) => Left(req, IPC_BUFLEN) = <<>>
  BY Zenon, FirstRead
<1>2. req' = Left(req, IPC_BUFLEN) /\ srv' = demux_ipc_socket_call(s)
  BY Zenon, <1>0 DEF socket_ipc_open, SrvType
<1> HIDE DEF b
<1>3. s \in SrvType /\ s.buf = b /\ s.written = srv.written /\ s.delivered = srv.delivered
  BY Zenon, <1>0, <1>1 DEF SrvType
<1> HIDE DEF s
<1>4. SrvInv(s)
  BY Zenon, <1>0, <1>1, <1>3 DEF SrvInv
<1>5. s.buf[1] = Header(q) /\ s.buf[1].type = q.type /\ s.buf[1].n = q.n /\ s.buf[1].tag = q.tag
  BY <1>1, <1>3 DEF Header, Cell
<1>6. CASE q.type = "write" /\ q.n > head
  <2>0. ~(q.n <= head)
    BY <1>0, <1>6
  <2>1. srv' = [s EXCEPT !.pc = "tail"]
    BY Zenon, <1>2, <1>5, <1>6, <2>0 DEF demux_ipc_socket_call
  <2>2. srv' \in SrvType /\ srv'.buf = s.buf /\ srv'.written = s.written /\ srv'.delivered = s.delivered
        /\ srv'.pc = "tail"
    BY Zenon, <1>3, <2>1 DEF SrvType
  <2> QED
    BY Zenon, <1>1, <1>2, <1>3, <1>4, <1>5, <1>6, <2>2 DEF SrvInv, HalfRead, Extra
<1>7. CASE q.type = "write" /\ ~(q.n > head)
  <2>1. q.n <= head
    BY <1>0, <1>7
  <2>2. srv' = ipc_write(s, <<>>)
    BY Zenon, <1>2, <1>5, <1>7, <2>1 DEF demux_ipc_socket_call
  <2>3. Extra(q) = q.n
    BY Zenon, <1>7 DEF Extra
  <2>4. SrvInv(srv') /\ srv'.delivered = s.delivered /\ Handled(q, srv', Len(s.written))
    BY SMTT(40), <1>1, <1>3, <1>4, <1>5, <1>7, <2>2, <2>3, WriteHandled
  <2> QED
    BY Zenon, <1>1, <1>2, <1>3, <1>7, <2>3, <2>4
<1>8. CASE q.type = "read"
  <2>1. srv' = [s EXCEPT !.pc = "receiving"]
    BY Zenon, <1>2, <1>5, <1>8 DEF demux_ipc_socket_call
  <2>2. srv' \in SrvType /\ srv'.buf = s.buf /\ srv'.written = s.written /\ srv'.delivered = s.delivered
        /\ srv'.pc = "receiving"
    BY Zenon, <1>3, <2>1 DEF SrvType
  <2>3. ~(Extra(q) > head)
    BY <1>0, <1>8 DEF Extra
  <2> QED
    BY Zenon, <1>1, <1>2, <1>3, <1>4, <1>5, <1>8, <2>2, <2>3 DEF SrvInv
<1>9. CASE q.type \notin {"read", "write"}
  <2>0. ASSUME NEW x \in SrvType, x.buf = s.buf, x.written = s.written, x.delivered = s.delivered,
               srv' = Answer(x, q.type, q.tag, <<>>)
        PROVE  SrvInv(srv') /\ srv'.delivered = srv.delivered /\ Handled(q, srv', w)
    <3>1. ASSUME NEW f \in Nat
          PROVE  /\ srv' \in SrvType /\ srv'.buf = s.buf /\ srv'.written = s.written
                 /\ srv'.delivered = s.delivered
                 /\ app.lvlfd = "closed" => srv'.pc = "reading"
                 /\ app.lvlfd # "closed" => srv'.pc = "sending" /\ Message(srv'.out, Cell(q.type, 0, q.tag), f, 0)
      BY <1>0, <2>0, NoPayload, AnswerIs
    <3>2. w + Extra(q) = w
      BY <1>0, <1>9 DEF Extra
    <3> QED
      BY Zenon, <1>0, <1>3, <1>4, <3>1, <3>2 DEF SrvInv, Handled
  <2>1. ASSUME NEW t \in BOOLEAN
        PROVE  LET x == [s EXCEPT !.open = t]
               IN  x \in SrvType /\ x.buf = s.buf /\ x.written = s.written /\ x.delivered = s.delivered
    BY Zenon, <1>3 DEF SrvType
  <2>2. TRUE \in BOOLEAN /\ FALSE \in BOOLEAN
    BY Zenon
  <2>3. ASSUME q.type = "socket" PROVE SrvInv(srv') /\ srv'.delivered = srv.delivered /\ Handled(q, srv', w)
    <3>1. srv' = Answer([s EXCEPT !.open = TRUE], q.type, q.tag, <<>>)
      BY Zenon, <1>2, <1>5, <2>3 DEF demux_ipc_socket_call
    <3> QED
      BY Zenon, <2>0, <2>1, <2>2, <3>1
  <2>4. ASSUME q.type = "close" PROVE SrvInv(srv') /\ srv'.delivered = srv.delivered /\ Handled(q, srv', w)
    <3>1. srv' = Answer([s EXCEPT !.open = FALSE], q.type, q.tag, <<>>)
      BY Zenon, <1>2, <1>5, <2>4 DEF demux_ipc_socket_call
    <3> QED
      BY Zenon, <2>0, <2>1, <2>2, <3>1
  <2>5. ASSUME q.type = "call" PROVE SrvInv(srv') /\ srv'.delivered = srv.delivered /\ Handled(q, srv', w)
    <3>1. srv' = Answer(s, q.type, q.tag, <<>>)
      BY Zenon, <1>2, <1>5, <2>5 DEF demux_ipc_socket_call
    <3> QED
      BY Zenon, <1>3, <2>0, <3>1
  <2>6. SrvInv(srv') /\ srv'.delivered = srv.delivered /\ Handled(q, srv', w)
    BY Zenon, <1>0, <1>9, <2>3, <2>4, <2>5 DEF Kinds
  <2>7. ~(Extra(q) > head)
    BY <1>0, <1>9 DEF Extra
  <2> QED
    BY Zenon, <1>1, <1>2, <1>9, <2>6, <2>7
<1> QED
  BY Zenon, <1>6, <1>7, <1>8, <1>9

\* The second read of ipc_write.
LEMMA TailRead ==
  ASSUME SrvInv(srv), NEW q, Proper(q), HalfRead(q, srv, req), ReadsTail
  PROVE  SrvInv(srv') /\ srv'.delivered = srv.delivered /\ req' = <<>> /\ Handled(q, srv', Len(srv.written))
<1> DEFINE n == q.n - head
<1>0. q.n \in Nat /\ head \in Nat /\ n \in Nat /\ q.n > head /\ q.type = "write"
  BY IpcAssumption DEF Proper, CallType, HalfRead, IpcAssumption, head
<1>1. req \in Cells /\ Len(req) = n /\ Run(req, Len(srv.written) + head, n)
  BY Zenon DEF HalfRead, Run
<1>2. srv.buf[1] = Header(q) /\ srv.buf[1].n = q.n
  BY DEF HalfRead, Header, Cell
<1>3. req' = Left(req, n) /\ srv' = ipc_write(srv, Taken(req, n))
  BY Zenon, <1>2 DEF ReadsTail
<1> HIDE DEF n
<1>4. Taken(req, n) = req /\ Left(req, n) = <<>>
  BY <1>0, <1>1, TakenWhole
<1>5. srv' = ipc_write(srv, req)
  BY Zenon, <1>3, <1>4
<1>6. Run(req, Len(srv.written) + head, q.n - head)
  BY Zenon, <1>1 DEF n
<1>7. SrvInv(srv') /\ srv'.delivered = srv.delivered /\ Handled(q, srv', Len(srv.written))
  BY Zenon, <1>0, <1>2, <1>5, <1>6, WriteHandled DEF HalfRead
<1> QED
  BY Zenon, <1>3, <1>4, <1>7

\* A call that is made.
LEMMA CallMade ==
  ASSUME NEW c, Callers = {c}, IpcInv(c), cl[c].pc = "idle", app.lvlfd \in {"none", "open"},
         NEW type \in Kinds, NEW n \in Nat, NEW e \in Nat, e = (IF type = "write" THEN n ELSE 0),
         type \in {"read", "write"} => n + 1 <= Piece,
         NEW p, Run(p, Len(srv.written), e), Request(c, type, n, p),
         app' \in AppType, app'.lvlfd = (IF type = "socket" THEN "opening" ELSE "open"),
         app'.got = app.got, app'.wrong = app.wrong, app'.sent = app.sent + e,
         srv' \in SrvType, srv'.pc = "reading", srv'.buf = srv.buf, srv'.written = srv.written,
         srv'.delivered = srv.delivered
  PROVE  IpcInv(c)'
<1>1. Quiet(cl[c])
  BY Zenon DEF IpcInv, Calling, Gone, Sending, InStream, InTail, Receiving, Answering, Returned
<1>2. Len(srv.written) \in Nat /\ app.tag \in Nat /\ srv.written \in Cells /\ app.sent \in Nat
  BY DEF IpcInv, SrvInv, SrvType, AppType, Cells
<1> DEFINE o == <<Cell(type, n, app.tag)>> \o p
<1>3. Message(o, Cell(type, n, app.tag), Len(srv.written), e)
  BY Zenon, <1>2, HeaderIsCell, MessageOf
<1>4. o \in Cells
  BY Zenon, <1>3 DEF Message
<1>5. PICK k : /\ cl' = [cl EXCEPT ![c] = k] /\ req' = req /\ resp' = resp
               /\ k = [pc |-> "sending", type |-> type, n |-> n, tag |-> app.tag, out |-> o]
  BY Zenon DEF Request
<1> HIDE DEF o
<1>6. k \in CallType /\ k.pc = "sending" /\ k.type = type /\ k.n = n /\ k.tag = app.tag /\ k.out = o
  BY Zenon, <1>2, <1>4, <1>5 DEF CallType
<1>7. cl' \in [Callers -> CallType] /\ cl'[c] = k
  BY Zenon, <1>5, <1>6 DEF IpcInv
<1>8. Extra(k) = e /\ Requested(k.out, k, Len(srv.written)) /\ Proper(k)
  BY Zenon, <1>3, <1>6 DEF Extra, Requested, Header, Proper
<1>9. Sending(k)'
  BY Zenon, <1>1, <1>2, <1>5, <1>6, <1>8 DEF Quiet, Sending, Before
<1>10. Calling(k)'
  BY Zenon, <1>6, <1>8, <1>9 DEF Calling
<1> QED
  BY Zenon, <1>1, <1>5, <1>7, <1>10 DEF IpcInv, SrvInv, Quiet

\* liblevelip's calls.
LEMMA CallsMade ==
  ASSUME NEW c, Callers = {c}, \A n \in Sizes : n + 1 <= Piece, IpcInv(c),
         socket(c) \/ FixedCall(c) \/ close(c) \/ \E n \in Sizes : write(c, n) \/ read(c, n)
  PROVE  IpcInv(c)'
<1>0. app \in AppType /\ srv \in SrvType /\ Len(srv.written) \in Nat /\ app.sent \in Nat /\ app.tag \in Nat
      /\ cl[c].pc = "idle" /\ Sizes \subseteq Nat
  <2>1. cl[c].pc = "idle"
    BY Zenon DEF socket, FixedCall, close, write, read
  <2>2. app \in AppType /\ srv \in SrvType
    BY Zenon DEF IpcInv, SrvInv
  <2> QED
    BY SMTT(40), <2>1, <2>2, IpcAssumption DEF SrvType, AppType, Cells, IpcAssumption
<1>1. NextTag \in Nat
  BY <1>0 DEF NextTag
<1>2. app.lvlfd = "open" => srv.pc = "reading" /\ Len(srv.written) = app.sent
  BY Zenon, <1>0 DEF IpcInv, Quiet, Calling, Gone, Sending, InStream, InTail, Receiving, Answering, Returned
<1>3. 0 \in Nat /\ Run(<<>>, Len(srv.written), 0)
  BY Zenon, <1>0, NoPayload
<1>4. ASSUME NEW t \in Nat
      PROVE  /\ [app EXCEPT !.tag = t] \in AppType /\ [app EXCEPT !.tag = t].lvlfd = app.lvlfd
             /\ [app EXCEPT !.tag = t].got = app.got /\ [app EXCEPT !.tag = t].wrong = app.wrong
             /\ [app EXCEPT !.tag = t].sent = app.sent
  BY Zenon, <1>0 DEF AppType
<1>5. CASE socket(c)
  <2>1. app' = [app EXCEPT !.lvlfd = "opening", !.tag = NextTag] /\ srv' = [srv EXCEPT !.pc = "reading", !.listed = TRUE]
        /\ Request(c, "socket", 0, <<>>) /\ app.lvlfd = "none"
    BY Zenon, <1>5 DEF socket
  <2>2. app' \in AppType /\ app'.lvlfd = "opening" /\ app'.got = app.got /\ app'.wrong = app.wrong /\ app'.sent = app.sent
    BY Zenon, <1>0, <1>1, <2>1 DEF AppType
  <2>3. srv' \in SrvType /\ srv'.pc = "reading" /\ srv'.buf = srv.buf /\ srv'.written = srv.written
        /\ srv'.delivered = srv.delivered
    BY Zenon, <1>0, <2>1 DEF SrvType
  <2>4. "socket" \in Kinds /\ app.sent + 0 = app.sent
    BY <1>0 DEF Kinds
  <2> QED
    BY Zenon, <1>0, <1>3, <2>1, <2>2, <2>3, <2>4, CallMade
<1>6. ASSUME NEW n \in Nat, NEW type \in {"call", "close", "read"}, type = "read" => n + 1 <= Piece,
             Request(c, type, n, <<>>), app.lvlfd = "open", app' = [app EXCEPT !.tag = NextTag], srv' = srv
      PROVE  IpcInv(c)'
  <2>1. app' \in AppType /\ app'.lvlfd = "open" /\ app'.got = app.got /\ app'.wrong = app.wrong /\ app'.sent = app.sent
    BY Zenon, <1>1, <1>4, <1>6
  <2>2. type \in Kinds /\ app.sent + 0 = app.sent /\ type # "write" /\ type # "socket"
    BY <1>0, <1>6 DEF Kinds
  <2> QED
    BY Zenon, <1>0, <1>2, <1>3, <1>6, <2>1, <2>2, CallMade
<1>7. ASSUME NEW n \in Sizes, write(c, n) PROVE IpcInv(c)'
  <2> DEFINE p == Units(app.sent + 1, n)
  <2>1. /\ app' = [app EXCEPT !.sent = app.sent + n, !.tag = NextTag] /\ srv' = srv
        /\ Request(c, "write", n, p) /\ app.lvlfd = "open"
    BY Zenon, <1>0, <1>7 DEF write, AppType
  <2>2. app' \in AppType /\ app'.lvlfd = "open" /\ app'.got = app.got /\ app'.wrong = app.wrong
        /\ app'.sent = app.sent + n
    <3>1. app.sent + n \in Nat
      BY <1>0
    <3> QED
      BY Zenon, <1>0, <1>1, <2>1, <3>1 DEF AppType
  <2>3. Run(p, Len(srv.written), n)
    BY Zenon, <1>0, <1>2, <2>1, UnitsRun
  <2>4. "write" \in Kinds /\ n \in Nat /\ n + 1 <= Piece
    BY Zenon, <1>0 DEF Kinds
  <2> HIDE DEF p
  <2> QED
    BY Zenon, <1>0, <1>2, <2>1, <2>2, <2>3, <2>4, CallMade
<1>8. ASSUME NEW n \in Sizes, read(c, n) PROVE IpcInv(c)'
  BY Zenon, <1>0, <1>6, <1>8 DEF read
<1>9. CASE FixedCall(c) \/ close(c)
  BY Zenon, <1>3, <1>6, <1>9 DEF FixedCall, close
<1> QED
  BY Zenon, <1>5, <1>7, <1>8, <1>9

\* A message that is copied whole.
LEMMA PieceWhole ==
  ASSUME NEW s \in Cells, Len(s) <= Piece
  PROVE  /\ Pieces(s) = Len(s) /\ SubSeq(s, 1, Len(s)) = s /\ SubSeq(s, Len(s) + 1, Len(s)) = <<>>
         /\ <<>> \o s = s
<1>1. s \in Seq(CellType) /\ Len(s) \in Nat /\ Piece \in Nat
  BY IpcAssumption DEF Cells, IpcAssumption
<1>2. ~(Len(s) > Piece)
  BY <1>1
<1> QED
  BY <1>1, <1>2 DEF Pieces

\* write() copies a request into the stream.
LEMMA RequestSent ==
  ASSUME NEW c, Callers = {c}, IpcInv(c), CallerSends(c)
  PROVE  IpcInv(c)'
<1>1. cl[c].pc = "sending" /\ cl[c] \in CallType
  BY Zenon DEF CallerSends, IpcInv
<1>2. Calling(cl[c]) /\ Sending(cl[c]) /\ Proper(cl[c])
  BY Zenon, <1>1 DEF IpcInv, Quiet, Gone, Calling, InStream, InTail, Receiving, Answering, Returned
<1>3. cl[c].out \in Cells /\ Len(cl[c].out) = Extra(cl[c]) + 1 /\ cl[c].n \in Nat
  BY Zenon, <1>1, <1>2 DEF Sending, Requested, Message, CallType
<1>4. Len(cl[c].out) <= Piece
  BY <1>2, <1>3, IpcAssumption DEF Proper, Extra, IpcAssumption
<1>5. PICK k : k = [cl[c] EXCEPT !.out = <<>>, !.pc = "waiting"]
  BY Zenon
<1>6. req' = cl[c].out /\ cl' = [cl EXCEPT ![c] = k] /\ resp' = resp /\ srv' = srv /\ app' = app
  <2>1. req = <<>>
    BY Zenon, <1>2 DEF Sending
  <2>2. cl' = [cl EXCEPT ![c].out = <<>>, ![c].pc = "waiting"] /\ req' = cl[c].out
    BY Zenon, <1>3, <1>4, <2>1, PieceWhole DEF CallerSends, IpcInv
  <2> QED
    BY Zenon, <1>5, <2>2 DEF CallerSends, IpcInv
<1>7. k \in CallType /\ k.pc = "waiting" /\ k.type = cl[c].type /\ k.n = cl[c].n /\ k.tag = cl[c].tag
  BY Zenon, <1>1, <1>5, NoCells DEF CallType
<1>8. cl' \in [Callers -> CallType] /\ cl'[c] = k
  BY Zenon, <1>6, <1>7 DEF IpcInv
<1>9. Proper(k) /\ Extra(k) = Extra(cl[c]) /\ Header(k) = Header(cl[c])
  BY Zenon, <1>2, <1>7 DEF Proper, Extra, Header
<1>10. InStream(k)'
  BY Zenon, <1>2, <1>6, <1>7, <1>9 DEF Sending, InStream, Requested, Before
<1>11. Calling(k)'
  BY Zenon, <1>2, <1>6, <1>7, <1>9, <1>10 DEF Calling
<1> QED
  BY Zenon, <1>6, <1>8, <1>11 DEF IpcInv

\* write() copies an answer into the stream.
LEMMA AnswerSent ==
  ASSUME NEW c, Callers = {c}, IpcInv(c), ServerSends
  PROVE  IpcInv(c)'
<1>0. srv.pc = "sending" /\ srv \in SrvType /\ srv.out \in Cells /\ resp \in Cells
  BY Zenon DEF ServerSends, IpcInv, SrvInv, SrvType
<1>1. (Calling(cl[c]) /\ Answering(cl[c])) \/ (Gone(cl[c]) /\ req = <<>>)
  BY Zenon, <1>0 DEF IpcInv, Quiet, Gone, Calling, Sending, InStream, InTail, Receiving, Returned, HalfRead
<1>2. CASE Calling(cl[c]) /\ Answering(cl[c])
  <2>1. PICK m \in Nat : Reply(srv.out, cl[c], Len(app.got), m) /\ Len(app.got) + m = srv.delivered
    BY Zenon, <1>2 DEF Answering
  <2>2. Len(srv.out) = m + 1 /\ cl[c].n \in Nat /\ Proper(cl[c]) /\ resp = <<>>
    BY Zenon, <1>2, <2>1 DEF Reply, Message, Calling, Proper, CallType, Answering
  <2>3. Len(srv.out) <= Piece
    BY SMTT(40), <2>1, <2>2, IpcAssumption DEF Reply, Proper, IpcAssumption
  <2>4. resp' = srv.out /\ srv' = [srv EXCEPT !.out = <<>>, !.pc = "reading"] /\ UNCHANGED <<req, cl, app>>
    BY Zenon, <1>0, <2>2, <2>3, PieceWhole DEF ServerSends, SrvType
  <2>5. srv' \in SrvType /\ srv'.pc = "reading" /\ srv'.buf = srv.buf /\ srv'.written = srv.written
        /\ srv'.delivered = srv.delivered
    BY Zenon, <1>0, <2>4, NoCells DEF SrvType
  <2>6. Reply(resp', cl[c], Len(app.got), m)
    BY Zenon, <2>1, <2>4
  <2>7. Returned(cl[c])'
    BY Zenon, <1>2, <2>1, <2>4, <2>5, <2>6 DEF Answering, Returned
  <2>8. Calling(cl[c])'
    BY Zenon, <1>2, <2>4, <2>7 DEF Calling
  <2> QED
    BY Zenon, <1>0, <2>4, <2>5, <2>8 DEF IpcInv, SrvInv
<1>3. CASE Gone(cl[c]) /\ req = <<>>
  <2> DEFINE n == Pieces(srv.out)
             o == SubSeq(srv.out, n + 1, Len(srv.out))
             p == IF n = Len(srv.out) THEN "reading" ELSE "sending"
  <2>1. n \in Nat /\ n <= Len(srv.out) /\ Len(srv.out) \in Nat
    BY <1>0, IpcAssumption DEF Pieces, Cells, IpcAssumption
  <2>2. o \in Cells /\ resp \o SubSeq(srv.out, 1, n) \in Cells
    <3> HIDE DEF n
    <3> QED
      BY <1>0, <2>1 DEF Cells
  <2>3. srv' = [srv EXCEPT !.out = o, !.pc = p] /\ resp' \in Cells /\ UNCHANGED <<req, cl, app>>
    BY Zenon, <1>0, <2>2 DEF ServerSends, SrvType
  <2>4. p \in {"reading", "sending"}
    BY Zenon
  <2> HIDE DEF o, p, n
  <2>5. srv' \in SrvType /\ srv'.pc = p /\ srv'.buf = srv.buf /\ srv'.written = srv.written
    BY Zenon, <1>0, <2>2, <2>3, <2>4 DEF SrvType
  <2>6. srv'.pc # "tail"
    BY Zenon, <2>4, <2>5
  <2>7. Gone(cl[c])'
    BY Zenon, <1>3, <2>3, <2>6 DEF Gone
  <2> QED
    BY Zenon, <2>3, <2>5, <2>7 DEF IpcInv, SrvInv
<1> QED
  BY Zenon, <1>1, <1>2, <1>3

\* The process ends: what it asked for last may be left in the stream.
LEMMA ProcessExits ==
  ASSUME NEW c, Callers = {c}, IpcInv(c), Exits
  PROVE  IpcInv(c)'
<1>1. app' = [app EXCEPT !.lvlfd = "closed"] /\ cl' = [x \in Callers |-> Idle] /\ UNCHANGED <<req, resp, srv>>
      /\ app.lvlfd # "closed"
  BY Zenon DEF Exits
<1>2. app' \in AppType /\ app'.lvlfd = "closed" /\ app'.got = app.got /\ app'.wrong = app.wrong
  BY Zenon, <1>1 DEF AppType, IpcInv
<1>3. Idle \in CallType /\ Idle.pc = "idle"
  BY DEF Idle, CallType, Cells
<1>4. cl' \in [Callers -> CallType] /\ cl'[c].pc = "idle"
  BY Zenon, <1>1, <1>3
<1>5. Gone(cl[c])'
  <2>1. CASE Quiet(cl[c])
    BY Zenon, <1>1, <1>2, <1>4, <2>1 DEF Quiet, Gone
  <2>2. CASE Calling(cl[c])
    <3>1. PICK q \in CallType : q = cl[c] /\ Proper(q)
      BY Zenon, <2>2 DEF Calling, Proper
    <3>2. \/ req = <<>> /\ srv.pc # "tail"
          \/ srv.pc = "reading" /\ Requested(req, q, Len(srv.written))
          \/ HalfRead(q, srv, req)
      BY Zenon, <2>2, <3>1 DEF Calling, Sending, InStream, InTail, Receiving, Answering, Returned
    <3>3. \/ (req = <<>> /\ srv.pc # "tail")'
          \/ (srv.pc = "reading" /\ Requested(req, q, Len(srv.written)))'
          \/ HalfRead(q, srv, req)'
      BY Zenon, <1>1, <3>2
    <3> QED
      BY Zenon, <1>2, <1>4, <3>1, <3>3 DEF Gone
  <2> QED
    BY Zenon, <1>1, <2>1, <2>2 DEF IpcInv, Gone
<1> QED
  BY Zenon, <1>1, <1>2, <1>4, <1>5 DEF IpcInv

\* A call reads its answer, all of it and nothing else.
LEMMA AnswerRead ==
  ASSUME NEW c, Callers = {c}, IpcInv(c), Answered(c)
  PROVE  IpcInv(c)'
<1> DEFINE k == cl[c]
           a == Taken(resp, AnswerSize(k))
           fits == a[1].type = k.type
           x == app.wrong \/ ~fits \/ a[1].tag # k.tag
           g == IF fits /\ k.type = "read" /\ a[1].n <= k.n THEN app.got \o Received(a, a[1].n) ELSE app.got
           z == IF k.type = "close" THEN "closed" ELSE IF k.type = "socket" THEN "open" ELSE app.lvlfd
<1>0. app \in AppType /\ app.got \in Cells /\ InOrder(app.got) /\ Len(app.got) \in Nat /\ ~app.wrong
  BY DEF IpcInv, AppType, Cells
<1>1. k.pc = "waiting" /\ resp # <<>>
  BY Zenon DEF Answered
<1>2. Calling(k) /\ Returned(k) /\ Proper(k) /\ k.n \in Nat
  BY Zenon, <1>1 DEF IpcInv, Quiet, Gone, Calling, Sending, InStream, InTail, Receiving, Answering, Before, Proper, CallType
<1>3. PICK m \in Nat : Reply(resp, k, Len(app.got), m) /\ Len(app.got) + m = srv.delivered
  BY Zenon, <1>2 DEF Returned
<1>4. resp \in Cells /\ Len(resp) = m + 1 /\ Message(resp, Cell(k.type, m, k.tag), Len(app.got), m)
      /\ resp[1].type = k.type /\ resp[1].n = m /\ resp[1].tag = k.tag
  BY SMTT(40), <1>3 DEF Reply, Message, Cell
<1>5. AnswerSize(k) \in Nat /\ Len(resp) <= AnswerSize(k)
  BY SMTT(40), <1>2, <1>3, <1>4, IpcAssumption DEF AnswerSize, Reply, IpcAssumption
<1>6. a = resp /\ Left(resp, AnswerSize(k)) = <<>>
  BY Zenon, <1>4, <1>5, TakenWhole
<1>7. /\ resp' = <<>> /\ cl' = [cl EXCEPT ![c] = Idle] /\ req' = req /\ srv' = srv
      /\ app' = [app EXCEPT !.wrong = x, !.got = g, !.lvlfd = z]
  BY Zenon, <1>0, <1>6 DEF Answered, AppType
<1>8. ~x /\ x \in BOOLEAN
  BY Zenon, <1>0, <1>4, <1>6
<1>9. g \in Cells /\ InOrder(g) /\ Len(g) = Len(app.got) + m
  <2>1. CASE k.type = "read"
    <3>1. m <= k.n
      BY <1>2, <1>3 DEF Reply
    <3>2. g = app.got \o Received(resp, m)
      BY Zenon, <1>4, <1>6, <2>1, <3>1
    <3>3. Run(Received(resp, m), Len(app.got), m)
      BY Zenon, <1>0, <1>4, ReceivedRun
    <3> HIDE DEF g
    <3> QED
      BY Zenon, <1>0, <3>2, <3>3, RunGoesOn
  <2>2. CASE k.type # "read"
    <3>1. m = 0 /\ g = app.got
      BY Zenon, <1>3, <2>2 DEF Reply
    <3> HIDE DEF g
    <3> QED
      BY <1>0, <3>1
  <2> QED
    BY Zenon, <2>1, <2>2
<1>10. z \in {"open", "closed"}
  BY Zenon, <1>2 DEF Calling
<1> HIDE DEF x, g, z, a
<1>11. app' \in AppType /\ app'.lvlfd = z /\ app'.got = g /\ ~app'.wrong /\ app'.sent = app.sent
  BY Zenon, <1>0, <1>7, <1>8, <1>9, <1>10 DEF AppType
<1>12. Idle \in CallType /\ Idle.pc = "idle"
  BY DEF Idle, CallType, Cells
<1>13. cl' \in [Callers -> CallType] /\ cl'[c].pc = "idle"
  BY Zenon, <1>7, <1>12 DEF IpcInv
<1>14. Quiet(cl[c])' \/ Gone(cl[c])'
  BY Zenon, <1>2, <1>3, <1>7, <1>9, <1>10, <1>11, <1>13 DEF Quiet, Gone, Returned
<1>15. SrvInv(srv)' /\ resp' \in Cells
  BY Zenon, <1>7, NoCells DEF IpcInv
<1> QED
  BY Zenon, <1>9, <1>11, <1>13, <1>14, <1>15 DEF IpcInv

\* The steps of the stack's thread that leave the application alone.
LEMMA ServerStep ==
  ASSUME NEW c, IpcInv(c), SrvInv(srv'), UNCHANGED <<resp, cl, app>>,
         Quiet(cl[c])' \/ Calling(cl[c])' \/ Gone(cl[c])'
  PROVE  IpcInv(c)'
BY Zenon DEF IpcInv

\* A request that has been handled is being answered, or its process has gone.
LEMMA HandledStep ==
  ASSUME NEW c, IpcInv(c), UNCHANGED <<resp, cl, app>>, NEW q, q = cl[c],
         (Calling(q) /\ q.pc = "waiting" /\ Before(q)) \/ Gone(q),
         SrvInv(srv'), srv'.delivered = srv.delivered, req' = <<>>,
         NEW r, r = cl[c] \/ Gone(q), Handled(r, srv', Len(srv.written))
  PROVE  IpcInv(c)'
<1>1. CASE Gone(q)
  <2>1. srv'.pc = "reading"
    BY Zenon, <1>1 DEF Gone, Handled
  <2>2. Gone(cl[c])'
    BY Zenon, <1>1, <2>1 DEF Gone
  <2> QED
    BY Zenon, <2>2, ServerStep
<1>2. CASE Calling(q) /\ q.pc = "waiting" /\ Before(q) /\ ~Gone(q)
  <2>1. app.lvlfd # "closed" /\ r = q
    BY Zenon, <1>2 DEF Calling
  <2>2. Len(app.got) \in Nat /\ 0 \in Nat /\ Len(app.got) + 0 = Len(app.got)
    BY DEF IpcInv, AppType, Cells
  <2>3. srv'.pc = "sending" /\ Reply(srv'.out, q, Len(app.got), 0)
    BY Zenon, <2>1, <2>2 DEF Handled, Reply
  <2>4. Len(srv'.written) = app.sent
    BY Zenon, <1>2, <2>1 DEF Handled, Before
  <2>5. Answering(cl[c])'
    BY Zenon, <1>2, <2>2, <2>3, <2>4 DEF Answering, Before
  <2>6. Calling(cl[c])'
    BY Zenon, <1>2, <2>5 DEF Calling
  <2> QED
    BY Zenon, <2>6, ServerStep
<1> QED
  BY Zenon, <1>1, <1>2

\* The stack's thread reads a request.
LEMMA RequestRead ==
  ASSUME NEW c, Callers = {c}, IpcInv(c), socket_ipc_open
  PROVE  IpcInv(c)'
<1>0. srv.pc = "reading" /\ req # <<>> /\ SrvInv(srv) /\ UNCHANGED <<resp, cl, app>>
  BY Zenon DEF socket_ipc_open, IpcInv
<1>1. \/ Calling(cl[c]) /\ InStream(cl[c])
      \/ Gone(cl[c]) /\ \E q \in CallType : Proper(q) /\ Requested(req, q, Len(srv.written))
  BY Zenon, <1>0 DEF IpcInv, Quiet, Gone, Calling, Sending, InTail, Receiving, Answering, Returned, HalfRead
<1>2. CASE Calling(cl[c]) /\ InStream(cl[c])
  <2>1. PICK q : q = cl[c]
    BY Zenon
  <2>2. Proper(q) /\ Requested(req, q, Len(srv.written)) /\ Before(q) /\ q.pc = "waiting" /\ Calling(q)
    BY Zenon, <1>2, <2>1 DEF Calling, InStream
  <2>3. /\ SrvInv(srv') /\ srv'.delivered = srv.delivered
        /\ \/ HalfRead(q, srv', req') /\ Len(srv'.written) = Len(srv.written)
           \/ /\ q.type = "read" /\ srv'.pc = "receiving" /\ srv'.buf[1] = Header(q) /\ req' = <<>>
              /\ Len(srv'.written) = Len(srv.written)
           \/ q.type # "read" /\ req' = <<>> /\ Handled(q, srv', Len(srv.written))
    BY Zenon, <1>0, <2>2, Demuxed
  <2>4. CASE HalfRead(q, srv', req') /\ Len(srv'.written) = Len(srv.written)
    <3>1. InTail(q)'
      BY Zenon, <1>0, <2>2, <2>3, <2>4 DEF InTail, Before
    <3>2. Calling(cl[c])'
      BY Zenon, <1>0, <2>1, <2>2, <3>1 DEF Calling
    <3> QED
      BY Zenon, <1>0, <2>3, <3>2, ServerStep
  <2>5. CASE q.type = "read" /\ srv'.pc = "receiving" /\ srv'.buf[1] = Header(q) /\ req' = <<>>
             /\ Len(srv'.written) = Len(srv.written)
    <3>1. Receiving(q)'
      BY Zenon, <1>0, <2>2, <2>3, <2>5 DEF Receiving, Before
    <3>2. Calling(cl[c])'
      BY Zenon, <1>0, <2>1, <2>2, <3>1 DEF Calling
    <3> QED
      BY Zenon, <1>0, <2>3, <3>2, ServerStep
  <2>6. CASE req' = <<>> /\ Handled(q, srv', Len(srv.written))
    BY Zenon, <1>0, <2>1, <2>2, <2>3, <2>6, HandledStep
  <2> QED
    BY Zenon, <2>3, <2>4, <2>5, <2>6
<1>3. CASE Gone(cl[c]) /\ \E q \in CallType : Proper(q) /\ Requested(req, q, Len(srv.written))
  <2>1. PICK q \in CallType : Proper(q) /\ Requested(req, q, Len(srv.written))
    BY Zenon, <1>3
  <2>2. /\ SrvInv(srv') /\ srv'.delivered = srv.delivered
        /\ \/ HalfRead(q, srv', req')
           \/ srv'.pc = "receiving" /\ req' = <<>>
           \/ req' = <<>> /\ Handled(q, srv', Len(srv.written))
    BY Zenon, <1>0, <2>1, Demuxed
  <2>3. HalfRead(q, srv', req') \/ (req' = <<>> /\ srv'.pc # "tail")
    BY Zenon, <1>3, <2>2 DEF Gone, Handled
  <2>4. Gone(cl[c])'
    BY Zenon, <1>0, <1>3, <2>1, <2>3 DEF Gone
  <2> QED
    BY Zenon, <1>0, <2>2, <2>4, ServerStep
<1> QED
  BY Zenon, <1>1, <1>2, <1>3

\* The stack's thread reads the rest of a long write.
LEMMA RestRead ==
  ASSUME NEW c, Callers = {c}, IpcInv(c), ReadsTail
  PROVE  IpcInv(c)'
<1>0. srv.pc = "tail" /\ SrvInv(srv) /\ UNCHANGED <<resp, cl, app>>
  BY Zenon DEF ReadsTail, IpcInv
<1>1. PICK k : k = cl[c]
  BY Zenon
<1>2. PICK q : /\ Proper(q) /\ HalfRead(q, srv, req)
               /\ (q = k /\ Calling(k) /\ k.pc = "waiting" /\ Before(k)) \/ Gone(k)
  BY Zenon, <1>0, <1>1 DEF IpcInv, Quiet, Gone, Calling, Sending, InStream, InTail, Receiving, Answering, Returned
<1>3. SrvInv(srv') /\ srv'.delivered = srv.delivered /\ req' = <<>> /\ Handled(q, srv', Len(srv.written))
  BY Zenon, <1>0, <1>2, TailRead
<1> QED
  BY Zenon, <1>0, <1>1, <1>2, <1>3, HandledStep

\* ipc_read answers with what _read returned.
LEMMA ReadAnswered ==
  ASSUME NEW c, Callers = {c}, IpcInv(c), ipc_read
  PROVE  IpcInv(c)'
<1>0. srv.pc = "receiving" /\ SrvInv(srv) /\ srv \in SrvType /\ UNCHANGED <<req, resp, cl, app>>
      /\ srv.delivered \in Nat /\ srv.buf \in Cells /\ Len(srv.buf) = IPC_BUFLEN
  BY Zenon DEF ipc_read, IpcInv, SrvInv, SrvType
<1>1. srv.buf[1] \in CellType
  BY <1>0, IpcAssumption DEF Cells, IpcAssumption
<1>2. srv.buf[1].n \in Nat /\ srv.buf[1].tag \in Nat /\ "read" \in Kinds
  BY Zenon, <1>1 DEF CellType, Kinds
<1>3. PICK m \in 0..srv.buf[1].n :
        srv' = Answer([srv EXCEPT !.delivered = srv.delivered + m], "read", srv.buf[1].tag,
                      Units(srv.delivered + 1, m))
  BY Zenon, <1>0 DEF ipc_read, SrvType
<1> DEFINE d == srv.delivered + m
           x == [srv EXCEPT !.delivered = d]
<1>4. d \in Nat /\ m \in Nat
  BY SMTT(40), <1>0, <1>2
<1>5. Run(Units(srv.delivered + 1, m), srv.delivered, m)
  BY Zenon, <1>0, <1>4, UnitsRun
<1> HIDE DEF d
<1>6. x \in SrvType /\ x.buf = srv.buf /\ x.written = srv.written /\ x.delivered = d
  BY Zenon, <1>0, <1>4 DEF SrvType
<1>7. srv' = Answer(x, "read", srv.buf[1].tag, Units(srv.delivered + 1, m))
  BY Zenon, <1>3 DEF d
<1> HIDE DEF x
<1>8. /\ srv' \in SrvType /\ srv'.buf = srv.buf /\ srv'.written = srv.written /\ srv'.delivered = d
      /\ app.lvlfd = "closed" => srv'.pc = "reading"
      /\ app.lvlfd # "closed" => /\ srv'.pc = "sending"
                                 /\ Message(srv'.out, Cell("read", m, srv.buf[1].tag), srv.delivered, m)
  BY SMTT(40), <1>0, <1>2, <1>4, <1>5, <1>6, <1>7, AnswerIs
<1>9. SrvInv(srv')
  BY Zenon, <1>0, <1>8 DEF SrvInv
<1>10. (Calling(cl[c]) /\ Receiving(cl[c])) \/ (Gone(cl[c]) /\ req = <<>>)
  BY Zenon, <1>0 DEF IpcInv, Quiet, Gone, Calling, Sending, InStream, InTail, Answering, Returned, HalfRead
<1>11. CASE Calling(cl[c]) /\ Receiving(cl[c])
  <2>1. cl[c].type = "read" /\ srv.buf[1].n = cl[c].n /\ srv.buf[1].tag = cl[c].tag /\ app.lvlfd # "closed"
        /\ Len(app.got) = srv.delivered
    BY <1>11 DEF Calling, Receiving, Header, Cell, Before
  <2>2. m <= cl[c].n /\ Len(app.got) + m = d
    BY <1>2, <1>3, <2>1 DEF d
  <2>3. Reply(srv'.out, cl[c], Len(app.got), m)
    BY Zenon, <1>8, <2>1, <2>2 DEF Reply
  <2>4. Len(srv.written) = app.sent
    <3>1. Len(srv.written) \in Nat
      BY <1>0 DEF SrvType, Cells
    <3> QED
      BY <1>11, <2>1, <3>1 DEF Receiving, Before, Extra
  <2>5. Answering(cl[c])'
    BY Zenon, <1>0, <1>4, <1>8, <1>11, <2>1, <2>2, <2>3, <2>4 DEF Answering, Receiving, Before
  <2>6. Calling(cl[c])'
    BY Zenon, <1>0, <1>11, <2>5 DEF Calling
  <2> QED
    BY Zenon, <1>0, <1>9, <2>6, ServerStep
<1>12. CASE Gone(cl[c]) /\ req = <<>>
  <2>1. srv'.pc = "reading"
    BY Zenon, <1>8, <1>12 DEF Gone
  <2>2. Gone(cl[c])'
    BY Zenon, <1>0, <1>12, <2>1 DEF Gone
  <2> QED
    BY Zenon, <1>0, <1>9, <2>2, ServerStep
<1> QED
  BY Zenon, <1>10, <1>11, <1>12

\* ipc_free_thread at the end of the stream.
LEMMA ThreadEnds ==
  ASSUME NEW c, Callers = {c}, IpcInv(c), EndOfStream
  PROVE  IpcInv(c)'
<1>1. srv \in SrvType /\ srv' = [srv EXCEPT !.pc = "none", !.listed = FALSE] /\ UNCHANGED <<req, resp, cl, app>>
      /\ req = <<>> /\ app.lvlfd = "closed"
  BY Zenon DEF EndOfStream, IpcInv, SrvInv
<1>2. srv' \in SrvType /\ srv'.pc = "none" /\ srv'.buf = srv.buf /\ srv'.written = srv.written
  BY Zenon, <1>1 DEF SrvType
<1>3. Gone(cl[c])'
  BY Zenon, <1>1, <1>2 DEF IpcInv, Quiet, Calling, Gone
<1>4. SrvInv(srv')
  BY Zenon, <1>2 DEF IpcInv, SrvInv
<1> QED
  BY Zenon, <1>1, <1>3, <1>4, ServerStep

\* Every step keeps the phases of the call.
LEMMA NextIpc ==
  ASSUME NEW c, Callers = {c}, \A n \in Sizes : n + 1 <= Piece
  PROVE  IpcInv(c) /\ [Next]_vars => IpcInv(c)'
<1> SUFFICES ASSUME IpcInv(c), [Next]_vars PROVE IpcInv(c)'
  BY Zenon
<1>1. CASE UNCHANGED <<req, resp, cl, srv, app>>
  BY Zenon, <1>1 DEF IpcInv, Quiet, Calling, Gone, Sending, InStream, InTail, Receiving, Answering, Returned, Before
<1>2. CASE Next
  <2>1. CASE Caller(c)
    BY Zenon, <2>1, CallsMade, AnswerRead, RequestSent DEF Caller
  <2>2. CASE Server
    BY Zenon, <2>2, RequestRead, RestRead, ReadAnswered, AnswerSent, ThreadEnds DEF Server
  <2>3. CASE Exits
    BY Zenon, <2>3, ProcessExits
  <2> QED
    BY Zenon, <1>2, <2>1, <2>2, <2>3 DEF Next
<1> QED
  BY Zenon, <1>1, <1>2 DEF vars

\* With one caller, whose requests and answers reach the stream whole, the answer that
\* transmit_lvlip takes is the answer to its call.
THEOREM IpcAnswers ==
  ASSUME NEW c, Callers = {c}, \A n \in Sizes : n + 1 <= Piece
  PROVE  Spec => []AnswersItsRequest
<1>1. IpcInv(c) => AnswersItsRequest
  BY Zenon DEF IpcInv, AnswersItsRequest
<1>2. Spec => Init /\ [][Next]_vars
  BY Zenon DEF Spec
<1>3. Init => IpcInv(c)
  BY Zenon, InitIpc
<1>4. IpcInv(c) /\ [Next]_vars => IpcInv(c)'
  BY Zenon, NextIpc
<1> QED
  BY <1>1, <1>2, <1>3, <1>4, PTL

\* So the bytes that are written and read are intact, in order and complete, whatever the
\* sizes of the calls, of IPC_BUFLEN and of RCBUF_LEN (ipc_write, ipc_read, liblevelip's read).
THEOREM IpcBytesIntact ==
  ASSUME NEW c, Callers = {c}, \A n \in Sizes : n + 1 <= Piece
  PROVE  Spec => []BytesIntact
<1>1. IpcInv(c) => BytesIntact
  BY Zenon DEF IpcInv, SrvInv, BytesIntact, Quiet, Calling, Gone, Sending, InStream, InTail, Receiving,
         Answering, Returned
<1>2. Spec => Init /\ [][Next]_vars
  BY Zenon DEF Spec
<1>3. Init => IpcInv(c)
  BY Zenon, InitIpc
<1>4. IpcInv(c) /\ [Next]_vars => IpcInv(c)'
  BY Zenon, NextIpc
<1> QED
  BY <1>1, <1>2, <1>3, <1>4, PTL

------------------------------------------------------------------------------
\* The Internet checksum.

\* A non-empty set of naturals has a least element, as in TcpEndProofs, whose state is another:
\* the first place where two sums differ.
LEMMA LeastNat ==
  ASSUME NEW T, T \subseteq Nat, T # {}
  PROVE  \E n \in T : \A m \in T : n <= m
<1> DEFINE Below == OpToRel(<, Nat)
<1>1. \A m, n \in Nat : m < n => <<m, n>> \in Below
  BY Zenon DEF OpToRel
<1>2. IsWellFoundedOn(Below, Nat)
  BY Zenon, NatLessThanWellFounded
<1> HIDE DEF Below
<1>3. PICK n \in T : \A m \in T : ~(<<m, n>> \in Below)
  BY Zenon, <1>2, WFMin
<1>4. ASSUME NEW m \in T PROVE n <= m
  <2>1. m \in Nat /\ n \in Nat
    BY Zenon
  <2>2. ~(m < n)
    BY Zenon, <1>1, <1>3, <2>1
  <2> QED BY <2>1, <2>2
<1> QED BY Zenon, <1>4

\* The elements of a sequence.
LEMMA ElementsOf ==
  ASSUME NEW S, NEW s \in Seq(S)
  PROVE  \A i \in 1..Len(s) : s[i] \in S
OBVIOUS

\* Numbers with the same remainder modulo W - 1.
Cong(a, b) == \E k \in Int : a = b + k * (W - 1)

\* The residue of n in 1..W-1, or 0 for 0: what folding the carries comes to.
Canon(n) == IF n = 0 THEN 0 ELSE ((n - 1) % (W - 1)) + 1

\* a is that residue.
Folded(a, n) == a \in 0..W-1 /\ Cong(a, n) /\ (a = 0 <=> n = 0)

\* Division with remainder.
LEMMA DivMod ==
  ASSUME NEW n \in Nat, NEW d \in Nat, d > 0
  PROVE  /\ n \div d \in Nat /\ n % d \in 0..d-1
         /\ n = d * (n \div d) + (n % d)
OBVIOUS

\* Congruence is an equivalence, and sums keep it.
LEMMA CongSym ==
  ASSUME NEW a \in Int, NEW b \in Int, Cong(a, b)
  PROVE  Cong(b, a)
<1>1. PICK k \in Int : a = b + k * (W - 1)
  BY Zenon DEF Cong
<1>2. -k \in Int /\ b = a + (-k) * (W - 1)
  BY <1>1, ChecksumAssumption
<1> QED
  BY Zenon, <1>2 DEF Cong

LEMMA CongTrans ==
  ASSUME NEW a \in Int, NEW b \in Int, NEW c \in Int, Cong(a, b), Cong(b, c)
  PROVE  Cong(a, c)
<1>1. PICK k \in Int : a = b + k * (W - 1)
  BY Zenon DEF Cong
<1>2. PICK l \in Int : b = c + l * (W - 1)
  BY Zenon DEF Cong
<1>3. k + l \in Int /\ a = c + (k + l) * (W - 1)
  BY <1>1, <1>2, ChecksumAssumption
<1> QED
  BY Zenon, <1>3 DEF Cong

LEMMA CongAdd ==
  ASSUME NEW a \in Int, NEW b \in Int, NEW c \in Int, NEW d \in Int, Cong(a, b), Cong(c, d)
  PROVE  Cong(a + c, b + d) /\ Cong(a - c, b - d)
<1>1. PICK k \in Int : a = b + k * (W - 1)
  BY Zenon DEF Cong
<1>2. PICK l \in Int : c = d + l * (W - 1)
  BY Zenon DEF Cong
<1>3. k + l \in Int /\ a + c = b + d + (k + l) * (W - 1)
  BY <1>1, <1>2, ChecksumAssumption
<1>4. k - l \in Int /\ a - c = b - d + (k - l) * (W - 1)
  BY <1>1, <1>2, ChecksumAssumption
<1> QED
  BY Zenon, <1>3, <1>4 DEF Cong

LEMMA CongSelf ==
  ASSUME NEW a \in Int
  PROVE  Cong(a, a) /\ Cong(a + (W - 1), a) /\ Cong(a - (W - 1), a)
<1>1. a = a + 0 * (W - 1) /\ a + (W - 1) = a + 1 * (W - 1) /\ a - (W - 1) = a + (-1) * (W - 1)
  BY ChecksumAssumption
<1> QED
  BY <1>1 DEF Cong

\* There is one residue.
LEMMA FoldedUnique ==
  ASSUME NEW n \in Nat, NEW a, NEW b, Folded(a, n), Folded(b, n)
  PROVE  a = b
<1>1. /\ a \in 0..W-1 /\ b \in 0..W-1 /\ Cong(a, n) /\ Cong(b, n)
      /\ a \in Int /\ b \in Int /\ n \in Int
  BY ChecksumAssumption DEF Folded
<1>2. Cong(a, b)
  BY Zenon, <1>1, CongSym, CongTrans
<1>3. PICK k \in Int : a = b + k * (W - 1)
  BY Zenon, <1>2 DEF Cong
<1>4. CASE k = 0
  BY <1>1, <1>3, <1>4, ChecksumAssumption
<1>5. CASE k >= 1
  <2>1. k * (W - 1) >= W - 1
    BY <1>5, ChecksumAssumption
  <2>2. b = 0 /\ a = W - 1
    BY SMTT(40), <1>1, <1>3, <2>1, ChecksumAssumption
  <2> QED
    BY Zenon, <2>2, ChecksumAssumption DEF Folded
<1>6. CASE k <= -1
  <2>1. k * (W - 1) <= -(W - 1)
    BY <1>6, ChecksumAssumption
  <2>2. a = 0 /\ b = W - 1
    BY SMTT(40), <1>1, <1>3, <2>1, ChecksumAssumption
  <2> QED
    BY Zenon, <2>2, ChecksumAssumption DEF Folded
<1> QED
  BY <1>4, <1>5, <1>6

\* Canon(n) is the residue of n.
LEMMA CanonFolded ==
  ASSUME NEW n \in Nat
  PROVE  Folded(Canon(n), n) /\ Canon(n) \in 0..W-1
<1>1. CASE n = 0
  <2>1. Cong(0, 0)
    BY CongSelf
  <2> QED
    BY <1>1, <2>1, ChecksumAssumption DEF Canon, Folded
<1>2. CASE n # 0
  <2>1. PICK r : r = (n - 1) % (W - 1)
    BY Zenon
  <2>2. PICK q : q = (n - 1) \div (W - 1)
    BY Zenon
  <2>3. n - 1 \in Nat /\ W - 1 \in Nat /\ W - 1 > 0
    BY <1>2, ChecksumAssumption
  <2>4. q \in Nat /\ r \in 0..(W - 1) - 1 /\ n - 1 = (W - 1) * q + r
    BY Zenon, <2>1, <2>2, <2>3, DivMod
  <2>5. -q \in Int /\ r + 1 = n + (-q) * (W - 1) /\ r + 1 \in 0..W-1 /\ r + 1 # 0
    BY <2>4, ChecksumAssumption
  <2>6. Canon(n) = r + 1
    BY Zenon, <1>2, <2>1 DEF Canon
  <2> QED
    BY Zenon, <1>2, <2>5, <2>6 DEF Folded, Cong
<1> QED
  BY Zenon, <1>1, <1>2

\* The residue of a number is known by its range, class and whether it is zero.
LEMMA CanonIs ==
  ASSUME NEW n \in Nat, NEW a, Folded(a, n)
  PROVE  Canon(n) = a
BY Zenon, CanonFolded, FoldedUnique

------------------------------------------------------------------------------
\* One round of the loop in checksum keeps the residue.
LEMMA OnceFolds ==
  ASSUME NEW m \in Nat, m >= W
  PROVE  LET o == (m % W) + (m \div W)
         IN  o \in Nat /\ o < m /\ Canon(o) = Canon(m)
<1>1. PICK r : r = m % W
  BY Zenon
<1>2. PICK q : q = m \div W
  BY Zenon
<1>3. W \in Nat /\ W > 0
  BY ChecksumAssumption
<1>4. q \in Nat /\ r \in 0..W-1 /\ m = W * q + r
  BY Zenon, <1>1, <1>2, <1>3, DivMod
<1>5. q >= 1
  <2>1. q = 0 => W * q = 0
    BY <1>3
  <2> QED
    BY <1>3, <1>4, <2>1
<1>6. q * (W - 1) >= W - 1 /\ W * q = q * (W - 1) + q
  BY <1>4, <1>5, ChecksumAssumption
<1>7. r + q \in Nat /\ r + q < m /\ r + q # 0 /\ m # 0
  BY <1>3, <1>4, <1>5, <1>6, ChecksumAssumption
<1>8. Cong(m, r + q)
  <2>1. m = (r + q) + q * (W - 1) /\ q \in Int
    BY <1>3, <1>4, <1>6
  <2> QED
    BY Zenon, <2>1 DEF Cong
<1>9. Folded(Canon(m), r + q)
  <2>1. Folded(Canon(m), m) /\ Canon(m) \in 0..W-1
    BY Zenon, CanonFolded
  <2>2. Canon(m) \in Int /\ m \in Int /\ r + q \in Int
    BY <1>7, <2>1, ChecksumAssumption
  <2> QED
    BY Zenon, <1>7, <1>8, <2>1, <2>2, CongTrans DEF Folded
<1>10. Canon(r + q) = Canon(m)
  BY Zenon, <1>7, <1>9, CanonIs
<1> QED
  BY Zenon, <1>1, <1>2, <1>7, <1>10

\* A number below W is its own residue.
LEMMA CanonSmall ==
  ASSUME NEW m \in 0..W-1
  PROVE  Canon(m) = m
<1>1. m \in Nat /\ m \in Int
  BY ChecksumAssumption
<1>2. Folded(m, m)
  BY Zenon, <1>1, CongSelf DEF Folded
<1> QED
  BY Zenon, <1>1, <1>2, CanonIs

\* The loop of checksum leaves the residue of the accumulator, however often it runs.
LEMMA FoldIs ==
  ASSUME NEW n \in 0..(W * W)
  PROVE  Fold(n) = Canon(n)
<1> DEFINE Is(f, A) == f = [m \in 0..A |-> IF m < W THEN m ELSE f[(m % W) + (m \div W)]]
<1>1. PICK A : A = W * W
  BY Zenon
<1>2. A \in Nat /\ W \in Nat
  BY <1>1, ChecksumAssumption
<1>3. \E f : Is(f, A)
  <2>1. PICK f : f = [m \in 0..A |-> Canon(m)]
    BY Zenon
  <2>2. ASSUME NEW m \in 0..A
        PROVE  Canon(m) = IF m < W THEN m ELSE f[(m % W) + (m \div W)]
    <3>1. CASE m < W
      <4>1. m \in 0..W-1
        BY <1>2, <3>1
      <4> QED
        BY Zenon, <3>1, <4>1, CanonSmall
    <3>2. CASE ~(m < W)
      <4>1. m \in Nat /\ m >= W
        BY <1>2, <3>2
      <4>2. PICK o : o = (m % W) + (m \div W)
        BY Zenon
      <4>3. o \in Nat /\ o < m /\ Canon(o) = Canon(m)
        BY Zenon, <4>1, <4>2, OnceFolds
      <4>4. o \in 0..A
        BY <1>2, <4>3
      <4>5. f[o] = Canon(o)
        BY Zenon, <2>1, <4>4
      <4> QED
        BY Zenon, <3>2, <4>2, <4>3, <4>5
    <3> QED
      BY Zenon, <3>1, <3>2
  <2>3. Is(f, A)
    BY Zenon, <2>1, <2>2
  <2> QED
    BY Zenon, <2>3
<1>4. PICK f : f = CHOOSE g : Is(g, A)
  BY Zenon
<1>5. Is(f, A)
  BY Zenon, <1>3, <1>4
<1>6. Fold(n) = f[n]
  BY Zenon, <1>1, <1>4 DEF Fold
<1>7. \A m \in 0..A : f[m] = IF m < W THEN m ELSE f[(m % W) + (m \div W)]
  BY Zenon, <1>5
<1> HIDE DEF Is
<1>8. ASSUME NEW m \in 0..A, f[m] # Canon(m) PROVE FALSE
  <2> DEFINE T == {i \in 0..A : f[i] # Canon(i)}
  <2>1. T \subseteq Nat /\ T # {}
    BY <1>2, <1>8
  <2> HIDE DEF T
  <2>2. PICK i \in T : \A j \in T : i <= j
    BY Zenon, <2>1, LeastNat
  <2> USE DEF T
  <2>3. i \in 0..A /\ f[i] # Canon(i) /\ \A j \in 0..A : j < i => f[j] = Canon(j)
    BY <1>2, <2>2
  <2>4. CASE i < W
    <3>1. i \in 0..W-1
      BY <1>2, <2>3, <2>4
    <3> QED
      BY Zenon, <1>7, <2>3, <2>4, <3>1, CanonSmall
  <2>5. CASE ~(i < W)
    <3>1. i \in Nat /\ i >= W
      BY <1>2, <2>3, <2>5
    <3>2. PICK o : o = (i % W) + (i \div W)
      BY Zenon
    <3>3. o \in Nat /\ o < i /\ Canon(o) = Canon(i)
      BY Zenon, <3>1, <3>2, OnceFolds
    <3>4. o \in 0..A
      BY <1>2, <2>3, <3>3
    <3>5. f[i] = f[o]
      BY Zenon, <1>7, <2>3, <2>5, <3>2
    <3> QED
      BY Zenon, <2>3, <3>3, <3>4, <3>5
  <2> QED
    BY Zenon, <2>4, <2>5
<1> QED
  BY Zenon, <1>1, <1>6, <1>8


\* u[i] is the sum of the first i words.
Sums(u, ws) == u = [i \in 0..Len(ws) |-> IF i = 0 THEN 0 ELSE u[i - 1] + ws[i]]

\* What that says, and that n words of at most W - 1 come to no more than n times that.
LEMMA SumsAre ==
  ASSUME NEW ws \in Seq(0..W-1), NEW u, Sums(u, ws)
  PROVE  /\ Len(ws) \in Nat /\ u[0] = 0
         /\ \A i \in 1..Len(ws) : u[i] = u[i - 1] + ws[i] /\ ws[i] \in 0..W-1
         /\ \A i \in 0..Len(ws) : u[i] \in Nat /\ u[i] <= i * (W - 1)
<1>1. PICK n : n = Len(ws)
  BY Zenon
<1>2. n \in Nat /\ \A i \in 1..n : ws[i] \in 0..W-1
  <2>1. Len(ws) \in Nat
    OBVIOUS
  <2> QED
    BY Zenon, <1>1, <2>1, ElementsOf
<1>3. u = [i \in 0..n |-> IF i = 0 THEN 0 ELSE u[i - 1] + ws[i]]
  BY Zenon, <1>1 DEF Sums
<1>4. u[0] = 0 /\ \A i \in 1..n : u[i] = u[i - 1] + ws[i]
  BY <1>2, <1>3
<1>5. ASSUME NEW m \in 0..n, ~(u[m] \in Nat /\ u[m] <= m * (W - 1)) PROVE FALSE
  <2> DEFINE T == {i \in 0..n : ~(u[i] \in Nat /\ u[i] <= i * (W - 1))}
  <2>1. T \subseteq Nat /\ T # {}
    BY <1>2, <1>5
  <2> HIDE DEF T
  <2>2. PICK i \in T : \A j \in T : i <= j
    BY Zenon, <2>1, LeastNat
  <2>3. i \in 0..n /\ ~(u[i] \in Nat /\ u[i] <= i * (W - 1))
    BY Zenon, <2>2 DEF T
  <2>4. 0 * (W - 1) = 0
    BY ChecksumAssumption
  <2>5. i # 0
    BY <1>4, <2>3, <2>4
  <2>6. i - 1 \in 0..n /\ i - 1 \notin T /\ i \in 1..n
    BY <1>2, <2>2, <2>3, <2>5
  <2>7. u[i - 1] \in Nat /\ u[i - 1] <= (i - 1) * (W - 1)
    BY Zenon, <2>6 DEF T
  <2>8. ws[i] \in Nat /\ ws[i] <= W - 1 /\ u[i] = u[i - 1] + ws[i]
    BY SMTT(40), <1>2, <1>4, <2>6, ChecksumAssumption
  <2>9. (i - 1) * (W - 1) + (W - 1) = i * (W - 1) /\ (i - 1) * (W - 1) \in Int
    BY <1>2, <2>6, ChecksumAssumption
  <2> QED
    BY SMTT(40), <2>3, <2>7, <2>8, <2>9, ChecksumAssumption
<1> QED
  BY Zenon, <1>1, <1>2, <1>4, <1>5

\* A small number is its own remainder.
LEMMA ModSmall ==
  ASSUME NEW n \in Nat, NEW d \in Nat, n < d
  PROVE  n % d = n
<1>1. PICK q : q = n \div d
  BY Zenon
<1>2. PICK r : r = n % d
  BY Zenon
<1>3. q \in Nat /\ r \in 0..d-1 /\ n = d * q + r
  BY <1>1, <1>2, DivMod
<1>4. q >= 1 => d * q >= d
  BY <1>3
<1>5. q = 0 /\ d * q = 0
  BY <1>3, <1>4
<1> QED
  BY <1>2, <1>3, <1>5

\* The accumulator has room for W words.
LEMMA Fits ==
  ASSUME NEW i \in 0..W
  PROVE  i * (W - 1) < W * W /\ i * (W - 1) \in Nat /\ W * W \in Nat
<1>1. i * (W - 1) <= W * (W - 1)
  BY ChecksumAssumption
<1>2. W * (W - 1) < W * W /\ i * (W - 1) \in Nat /\ W * (W - 1) \in Nat /\ W * W \in Nat
  BY ChecksumAssumption
<1> QED
  BY <1>1, <1>2

\* sum_every_16bits adds up to W words exactly.
LEMMA SumIs ==
  ASSUME NEW ws \in Seq(0..W-1), Len(ws) <= W, NEW u, Sums(u, ws)
  PROVE  sum_every_16bits(ws) = u[Len(ws)]
<1> DEFINE Is(f, n, A) == f = [i \in 0..n |-> IF i = 0 THEN 0 ELSE (f[i - 1] + ws[i]) % A]
<1>1. PICK A : A = W * W
  BY Zenon
<1>2. PICK n : n = Len(ws)
  BY Zenon
<1>3. /\ n \in Nat /\ u[0] = 0
      /\ \A i \in 1..n : u[i] = u[i - 1] + ws[i]
      /\ \A i \in 0..n : u[i] \in Nat /\ u[i] <= i * (W - 1)
  BY Zenon, <1>2, SumsAre
<1>4. \A i \in 0..n : u[i] < A
  <2> SUFFICES ASSUME NEW i \in 0..n PROVE u[i] < A
    BY Zenon
  <2>1. i \in 0..W
    BY <1>2, <1>3, ChecksumAssumption
  <2>2. i * (W - 1) < A /\ i * (W - 1) \in Nat /\ A \in Nat
    BY Zenon, <1>1, <2>1, Fits
  <2> QED
    BY <1>3, <2>2
<1>5. A \in Nat
  BY <1>1, ChecksumAssumption
<1>6. \A i \in 1..n : u[i] = (u[i - 1] + ws[i]) % A
  <2> SUFFICES ASSUME NEW i \in 1..n PROVE u[i] = (u[i - 1] + ws[i]) % A
    BY Zenon
  <2>1. i \in 0..n
    BY <1>3
  <2>2. u[i] \in Nat /\ u[i] < A /\ u[i] = u[i - 1] + ws[i]
    BY Zenon, <1>3, <1>4, <2>1
  <2> QED
    BY Zenon, <1>5, <2>2, ModSmall
<1>7. Is(u, n, A)
  <2>1. u = [i \in 0..n |-> IF i = 0 THEN 0 ELSE u[i - 1] + ws[i]]
    BY Zenon, <1>2 DEF Sums
  <2>2. \A i \in 0..n : i # 0 => i \in 1..n
    BY <1>3
  <2>3. \A i \in 0..n : u[i] = IF i = 0 THEN 0 ELSE (u[i - 1] + ws[i]) % A
    BY Zenon, <1>3, <1>6, <2>2
  <2> QED
    BY Zenon, <2>1, <2>3
<1>8. PICK f : f = CHOOSE g : Is(g, n, A)
  BY Zenon
<1>9. Is(f, n, A)
  BY Zenon, <1>7, <1>8
<1>10. sum_every_16bits(ws) = f[n]
  BY Zenon, <1>1, <1>2, <1>8 DEF sum_every_16bits
<1>11. f[0] = 0 /\ \A i \in 1..n : f[i] = (f[i - 1] + ws[i]) % A
  BY <1>3, <1>9
<1> HIDE DEF Is
<1>12. ASSUME NEW m \in 0..n, f[m] # u[m] PROVE FALSE
  <2> DEFINE T == {i \in 0..n : f[i] # u[i]}
  <2>1. T \subseteq Nat /\ T # {}
    BY SMTT(40), <1>3, <1>12
  <2> HIDE DEF T
  <2>2. PICK i \in T : \A j \in T : i <= j
    BY Zenon, <2>1, LeastNat
  <2>3. i \in 0..n /\ f[i] # u[i]
    BY Zenon, <2>2 DEF T
  <2>4. i # 0
    BY Zenon, <1>3, <1>11, <2>3
  <2>5. i - 1 \in 0..n /\ i - 1 \notin T /\ i \in 1..n
    BY <1>3, <2>2, <2>3, <2>4
  <2>6. f[i - 1] = u[i - 1]
    BY Zenon, <2>5 DEF T
  <2> QED
    BY Zenon, <1>6, <1>11, <2>3, <2>5, <2>6
<1>13. n \in 0..n
  BY <1>3
<1> QED
  BY Zenon, <1>2, <1>10, <1>12, <1>13


\* The carry added at once keeps the residue.
LEMMA CarryFolds ==
  ASSUME NEW n \in Nat, NEW x \in 0..W-1
  PROVE  LET m == Canon(n) + x
         IN  Canon(n + x) = IF m >= W THEN m - W + 1 ELSE m
<1>1. PICK a : a = Canon(n)
  BY Zenon
<1>2. Folded(a, n) /\ a \in 0..W-1
  BY Zenon, <1>1, CanonFolded
<1>3. PICK c : c = LET m == a + x IN IF m >= W THEN m - W + 1 ELSE m
  BY Zenon
<1>4. a \in Int /\ x \in Int /\ n \in Int /\ n + x \in Int /\ a + x \in Int /\ n + x \in Nat
  BY <1>2, ChecksumAssumption
<1>5. Cong(a + x, n + x)
  BY Zenon, <1>2, <1>4, CongSelf, CongAdd DEF Folded
<1>6. c \in 0..W-1 /\ (c = a + x \/ c = (a + x) - (W - 1)) /\ (c = 0 <=> a = 0 /\ x = 0) /\ c \in Int
  BY <1>2, <1>3, ChecksumAssumption
<1>7. Cong(c, a + x)
  BY Zenon, <1>4, <1>6, CongSelf
<1>8. Cong(c, n + x)
  BY Zenon, <1>4, <1>5, <1>6, <1>7, CongTrans
<1>9. n + x = 0 <=> n = 0 /\ x = 0
  BY ChecksumAssumption
<1>10. Folded(c, n + x)
  BY Zenon, <1>2, <1>6, <1>8, <1>9 DEF Folded
<1> QED
  <2>1. Canon(n + x) = c
    BY Zenon, <1>4, <1>10, CanonIs
  <2> QED
    BY Zenon, <1>1, <1>3, <2>1

\* So the sum in one's complement is the residue of the sum.
LEMMA OnesSumIs ==
  ASSUME NEW ws \in Seq(0..W-1), NEW u, Sums(u, ws)
  PROVE  OnesSum(ws) = Canon(u[Len(ws)])
<1> DEFINE Carry(m) == IF m >= W THEN m - W + 1 ELSE m
           Is(f, n) == f = [i \in 0..n |-> IF i = 0 THEN 0 ELSE Carry(f[i - 1] + ws[i])]
<1>1. PICK n : n = Len(ws)
  BY Zenon
<1>2. /\ n \in Nat /\ u[0] = 0
      /\ \A i \in 1..n : u[i] = u[i - 1] + ws[i] /\ ws[i] \in 0..W-1
      /\ \A i \in 0..n : u[i] \in Nat
  BY Zenon, <1>1, SumsAre
<1>3. ASSUME NEW i \in 1..n PROVE Canon(u[i]) = Carry(Canon(u[i - 1]) + ws[i])
  <2>1. i - 1 \in 0..n
    BY <1>2
  <2> QED
    BY Zenon, <1>2, <2>1, CarryFolds
<1>4. Canon(u[0]) = 0
  BY Zenon, <1>2 DEF Canon
<1> HIDE DEF Carry
<1>5. \E f : Is(f, n)
  <2>1. PICK f : f = [i \in 0..n |-> Canon(u[i])]
    BY Zenon
  <2>2. ASSUME NEW i \in 0..n PROVE Canon(u[i]) = IF i = 0 THEN 0 ELSE Carry(f[i - 1] + ws[i])
    <3>1. CASE i = 0
      BY Zenon, <1>4, <3>1
    <3>2. CASE i # 0
      <4>1. i \in 1..n /\ i - 1 \in 0..n
        BY <1>2, <3>2
      <4>2. f[i - 1] = Canon(u[i - 1])
        BY Zenon, <2>1, <4>1
      <4> QED
        BY Zenon, <1>3, <3>2, <4>1, <4>2
    <3> QED
      BY Zenon, <3>1, <3>2
  <2>3. Is(f, n)
    BY Zenon, <2>1, <2>2
  <2> QED
    BY Zenon, <2>3
<1>6. PICK f : f = CHOOSE g : Is(g, n)
  BY Zenon
<1>7. Is(f, n)
  BY Zenon, <1>5, <1>6
<1>8. OnesSum(ws) = f[n]
  BY Zenon, <1>1, <1>6 DEF OnesSum, Carry
<1>9. f[0] = 0 /\ \A i \in 1..n : f[i] = Carry(f[i - 1] + ws[i])
  BY <1>2, <1>7
<1> HIDE DEF Is
<1>10. ASSUME NEW m \in 0..n, f[m] # Canon(u[m]) PROVE FALSE
  <2> DEFINE T == {i \in 0..n : f[i] # Canon(u[i])}
  <2>0. T \subseteq Nat
    BY <1>2
  <2>1. T \subseteq Nat /\ T # {}
    BY Zenon, <1>10, <2>0
  <2> HIDE DEF T
  <2>2. PICK i \in T : \A j \in T : i <= j
    BY Zenon, <2>1, LeastNat
  <2>3. i \in 0..n /\ f[i] # Canon(u[i])
    BY Zenon, <2>2 DEF T
  <2>4. i # 0
    BY Zenon, <1>4, <1>9, <2>3
  <2>5. i - 1 \in 0..n /\ i - 1 \notin T /\ i \in 1..n
    BY <1>2, <2>2, <2>3, <2>4
  <2>6. f[i - 1] = Canon(u[i - 1])
    BY Zenon, <2>5 DEF T
  <2> QED
    BY Zenon, <1>3, <1>9, <2>3, <2>5, <2>6
<1>11. n \in 0..n
  BY <1>2
<1> QED
  BY Zenon, <1>1, <1>8, <1>10, <1>11

------------------------------------------------------------------------------
\* The sums of any words.
LEMMA SumsExist ==
  ASSUME NEW ws \in Seq(0..W-1)
  PROVE  \E u : Sums(u, ws)
<1> DEFINE Is(u, k) == u = [i \in 0..k |-> IF i = 0 THEN 0 ELSE u[i - 1] + ws[i]]
           T == {k \in 0..Len(ws) : ~\E u : Is(u, k)}
<1>0. Len(ws) \in Nat
  OBVIOUS
<1>1. T # {} => FALSE
  <2> SUFFICES ASSUME T # {} PROVE FALSE
    BY Zenon
  <2>1. T \subseteq Nat
    BY <1>0
  <2>2. PICK k \in T : \A j \in T : k <= j
    <3> HIDE DEF T
    <3> QED
      BY Zenon, <2>1, LeastNat
  <2>3. k \in 0..Len(ws) /\ ~\E u : Is(u, k)
    BY Zenon, <2>2
  <2>4. k # 0
    <3>1. PICK z : z = [i \in 0..0 |-> 0]
      BY Zenon
    <3>2. Is(z, 0)
      <4>1. \A i \in 0..0 : i = 0
        OBVIOUS
      <4> QED
        BY Zenon, <3>1, <4>1
    <3> HIDE DEF Is
    <3> QED
      BY Zenon, <2>3, <3>2
  <2>5. k - 1 \in 0..Len(ws) /\ k - 1 \notin T /\ k \in Nat \ {0}
    <3> HIDE DEF T
    <3> QED
      BY <1>0, <2>2, <2>3, <2>4
  <2>6. PICK u : Is(u, k - 1)
    BY Zenon, <2>5
  <2>7. PICK v : v = [i \in 0..k |-> IF i = k THEN u[k - 1] + ws[k] ELSE u[i]]
    BY Zenon
  <2>8. ASSUME NEW i \in 0..k
        PROVE  (IF i = k THEN u[k - 1] + ws[k] ELSE u[i]) = IF i = 0 THEN 0 ELSE v[i - 1] + ws[i]
    <3>1. CASE i = k
      <4>1. k - 1 \in 0..k /\ k - 1 # k
        BY <2>5
      <4>2. v[k - 1] = u[k - 1]
        BY Zenon, <2>7, <4>1
      <4> QED
        BY Zenon, <2>4, <3>1, <4>2
    <3>2. CASE i # k /\ i # 0
      <4>1. i \in 0..(k - 1) /\ i - 1 \in 0..k /\ i - 1 # k
        BY <2>5, <3>2
      <4>2. u[i] = u[i - 1] + ws[i]
        BY Zenon, <2>6, <3>2, <4>1
      <4>3. v[i - 1] = u[i - 1]
        BY Zenon, <2>7, <4>1
      <4> QED
        BY Zenon, <3>2, <4>2, <4>3
    <3>3. CASE i # k /\ i = 0
      <4>1. 0 \in 0..(k - 1)
        BY <2>5
      <4>2. u[0] = 0
        BY Zenon, <2>6, <4>1
      <4> QED
        BY Zenon, <3>3, <4>2
    <3> QED
      BY Zenon, <3>1, <3>2, <3>3
  <2>9. Is(v, k)
    BY Zenon, <2>7, <2>8
  <2> HIDE DEF Is
  <2> QED
    BY Zenon, <2>3, <2>9
<1>2. Len(ws) \in 0..Len(ws)
  BY <1>0
<1>3. \E u : Is(u, Len(ws))
  BY Zenon, <1>1, <1>2
<1> QED
  BY Zenon, <1>3 DEF Sums


\* The m words of p behind a, with the sums u, are the m words of q behind b, with the sums v.
Stretch(p, u, a, q, v, b, m) ==
  /\ p \in Seq(0..W-1) /\ Sums(u, p) /\ a \in Nat /\ a + m <= Len(p)
  /\ q \in Seq(0..W-1) /\ Sums(v, q) /\ b \in Nat /\ b + m <= Len(q)
  /\ m \in Nat /\ \A j \in 1..m : p[a + j] = q[b + j]

\* Equal stretches of two texts add the same to their sums.
LEMMA StretchSums ==
  ASSUME NEW p, NEW u, NEW a, NEW q, NEW v, NEW b, NEW m, Stretch(p, u, a, q, v, b, m)
  PROVE  u[a + m] - u[a] = v[b + m] - v[b]
<1> USE DEF Stretch
<1>1. PICK k, l : k = Len(p) /\ l = Len(q)
  BY Zenon
<1>2. /\ k \in Nat /\ \A i \in 1..k : u[i] = u[i - 1] + p[i] /\ p[i] \in 0..W-1
      /\ \A i \in 0..k : u[i] \in Nat
  BY Zenon, <1>1, SumsAre
<1>3. /\ l \in Nat /\ \A i \in 1..l : v[i] = v[i - 1] + q[i] /\ q[i] \in 0..W-1
      /\ \A i \in 0..l : v[i] \in Nat
  BY Zenon, <1>1, SumsAre
<1>4. a + m <= k /\ b + m <= l
  BY Zenon, <1>1
<1> DEFINE Same(j) == u[a + j] - u[a] = v[b + j] - v[b]
           T == {j \in 0..m : ~Same(j)}
<1>5. ASSUME NEW j \in 1..m, Same(j - 1) PROVE Same(j)
  <2>1. a + j \in 1..k /\ b + j \in 1..l /\ (a + j) - 1 = a + (j - 1) /\ (b + j) - 1 = b + (j - 1)
    BY <1>2, <1>3, <1>4
  <2>2. u[a + j] = u[a + (j - 1)] + p[a + j] /\ v[b + j] = v[b + (j - 1)] + p[a + j] /\ p[a + j] \in 0..W-1
    BY Zenon, <1>2, <1>3, <2>1
  <2>3. a + (j - 1) \in 0..k /\ b + (j - 1) \in 0..l /\ a \in 0..k /\ b \in 0..l
    BY <1>2, <1>3, <1>4
  <2>4. u[a + (j - 1)] \in Nat /\ v[b + (j - 1)] \in Nat /\ u[a] \in Nat /\ v[b] \in Nat
    BY Zenon, <1>2, <1>3, <2>3
  <2>5. PICK x, y, z : x = u[a + (j - 1)] /\ y = v[b + (j - 1)] /\ z = p[a + j]
    BY Zenon
  <2>6. x \in Nat /\ y \in Nat /\ z \in Int
    BY SMTT(40), <2>2, <2>4, <2>5, ChecksumAssumption
  <2>7. x - u[a] = y - v[b] /\ u[a + j] = x + z /\ v[b + j] = y + z
    BY Zenon, <1>5, <2>2, <2>5
  <2>8. \A f, g \in Nat : x - f = y - g => (x + z) - f = (y + z) - g
    BY <2>6
  <2> QED
    <3>1. (x + z) - u[a] = (y + z) - v[b]
      BY Zenon, <2>4, <2>7, <2>8
    <3> QED
      BY Zenon, <2>7, <3>1
<1>6. Same(0)
  <2>1. a + 0 = a /\ b + 0 = b /\ a \in 0..k /\ b \in 0..l
    BY <1>2, <1>3, <1>4
  <2>2. u[a] \in Nat /\ v[b] \in Nat
    BY Zenon, <1>2, <1>3, <2>1
  <2> QED
    BY <2>1, <2>2
<1> HIDE DEF Same
<1>7. ASSUME T # {} PROVE FALSE
  <2>1. T \subseteq Nat
    OBVIOUS
  <2>2. PICK j \in T : \A i \in T : j <= i
    <3> HIDE DEF T
    <3> QED
      BY Zenon, <1>7, <2>1, LeastNat
  <2>3. j \in 0..m /\ ~Same(j)
    BY Zenon, <2>2
  <2>4. j # 0
    BY Zenon, <1>6, <2>3
  <2>5. j \in 1..m /\ j - 1 \in 0..m /\ ~(j <= j - 1)
    BY <2>3, <2>4
  <2>6. Same(j - 1)
    BY Zenon, <2>2, <2>5
  <2> QED
    BY Zenon, <1>5, <2>3, <2>5, <2>6
<1>8. m \in 0..m
  OBVIOUS
<1>9. Same(m)
  BY Zenon, <1>7, <1>8
<1> QED
  BY Zenon, <1>9 DEF Same

\* The complement of a sum completes any sum of the same residue to all ones.
LEMMA Complement ==
  ASSUME NEW n \in Nat, NEW m \in Nat, Cong(m, n), m = 0 <=> n = 0
  PROVE  /\ W - 1 - Canon(n) \in 0..W-1
         /\ Canon(m + (W - 1 - Canon(n))) = W - 1
<1>1. PICK a : a = Canon(n)
  BY Zenon
<1>2. Folded(a, n)
  BY Zenon, <1>1, CanonFolded
<1>3. a \in 0..W-1 /\ Cong(a, n) /\ (a = 0 <=> n = 0)
  BY Zenon, <1>2 DEF Folded
<1>4. PICK k \in Int : m = n + k * (W - 1)
  BY Zenon DEF Cong
<1>5. PICK l \in Int : a = n + l * (W - 1)
  BY Zenon, <1>3 DEF Cong
<1>6. PICK t : t = m + (W - 1 - a)
  BY Zenon
<1>7. t \in Nat /\ t # 0 /\ W - 1 - a \in 0..W-1
  BY <1>3, <1>6, ChecksumAssumption
<1>8. (l - k) \in Int /\ W - 1 = t + (l - k) * (W - 1)
  BY <1>3, <1>4, <1>5, <1>6, ChecksumAssumption
<1>9. Cong(W - 1, t)
  BY Zenon, <1>8 DEF Cong
<1>10. W - 1 \in 0..W-1 /\ W - 1 # 0
  BY ChecksumAssumption
<1>11. Folded(W - 1, t)
  BY Zenon, <1>7, <1>9, <1>10 DEF Folded
<1> QED
  BY Zenon, <1>1, <1>6, <1>7, <1>11, CanonIs

\* A multiple of W - 1 leaves no remainder.
LEMMA NoRemainder ==
  ASSUME NEW d \in Int, Cong(d, 0)
  PROVE  d % (W - 1) = 0
<1>1. PICK k \in Int : d = 0 + k * (W - 1)
  BY Zenon DEF Cong
<1>2. PICK e : e = W - 1
  BY Zenon
<1>3. e \in Nat /\ e > 0
  BY <1>2, ChecksumAssumption
<1>4. PICK q, r : q = d \div e /\ r = d % e
  BY Zenon
<1>5. q \in Int /\ r \in 0..e-1 /\ d = e * q + r
  BY <1>3, <1>4
<1>6. (k - q) * e = r /\ k - q \in Int
  <2>1. d = 0 + k * e
    BY Zenon, <1>1, <1>2
  <2>2. k * e = e * q + r
    BY <1>3, <1>5, <2>1
  <2> QED
    BY <1>3, <1>5, <2>2
<1>7. r = 0
  <2>1. PICK z : z = k - q
    BY Zenon
  <2>2. z \in Int /\ z * e = r
    BY Zenon, <1>6, <2>1
  <2>3. z > 0 => z * e >= e
    BY <1>3, <2>2
  <2>4. z < 0 => z * e < 0
    BY <1>3, <2>2
  <2> QED
    BY <1>3, <1>5, <2>2, <2>3, <2>4
<1> QED
  BY Zenon, <1>2, <1>4, <1>7


\* What ip_rcv accepts: a text whose sum folds to all ones.
LEMMA AcceptsAllOnes ==
  ASSUME NEW ws \in Seq(0..W-1), Len(ws) <= W, NEW u, Sums(u, ws)
  PROVE  ip_rcv_accepts(ws) <=> Canon(u[Len(ws)]) = W - 1
<1>1. PICK n, s : n = Len(ws) /\ s = u[n]
  BY Zenon
<1>2. n \in 0..W /\ n \in 0..n
  <2>1. Len(ws) \in Nat
    OBVIOUS
  <2> QED
    BY <1>1, <2>1, ChecksumAssumption
<1>3. s \in Nat /\ s <= n * (W - 1)
  BY Zenon, <1>1, <1>2, SumsAre
<1>4. n * (W - 1) < W * W /\ n * (W - 1) \in Nat /\ W * W \in Nat
  BY Zenon, <1>2, Fits
<1>5. s < W * W /\ s \in 0..(W * W) /\ 0 + s = s
  BY <1>3, <1>4
<1>6. (0 + s) % (W * W) = s
  BY Zenon, <1>3, <1>4, <1>5, ModSmall
<1>7. checksum(ws, 0) = W - 1 - Canon(s)
  BY Zenon, <1>1, <1>5, <1>6, SumIs, FoldIs DEF checksum
<1>8. PICK c : c = Canon(s)
  BY Zenon
<1>9. c \in 0..W-1
  BY Zenon, <1>3, <1>8, CanonFolded
<1>10. W - 1 - c = 0 <=> c = W - 1
  BY <1>9, ChecksumAssumption
<1> QED
  BY Zenon, <1>1, <1>7, <1>8, <1>10 DEF ip_rcv_accepts

\* The checksum of words, from their sum.
LEMMA ChecksumIs ==
  ASSUME NEW ws \in Seq(0..W-1), Len(ws) <= W, NEW u, Sums(u, ws),
         NEW start \in Nat, start + u[Len(ws)] < W * W
  PROVE  /\ checksum(ws, start) = W - 1 - Canon(start + u[Len(ws)])
         /\ start % (W * W) = start
<1>1. PICK s : s = u[Len(ws)]
  BY Zenon
<1>2. Len(ws) \in 0..Len(ws)
  OBVIOUS
<1>3. s \in Nat
  BY Zenon, <1>1, <1>2, SumsAre
<1>4. W * W \in Nat
  BY ChecksumAssumption
<1>5. start + s < W * W
  BY Zenon, <1>1
<1>6. start + s \in Nat /\ start + s \in 0..(W * W) /\ start < W * W
  BY <1>3, <1>4, <1>5
<1>7. (start + s) % (W * W) = start + s /\ start % (W * W) = start
  BY Zenon, <1>4, <1>5, <1>6, ModSmall
<1> QED
  BY Zenon, <1>1, <1>6, <1>7, SumIs, FoldIs DEF checksum

\* A text with one word more.
LEMMA OneMore ==
  ASSUME NEW S, NEW ws \in Seq(S), NEW c \in S, NEW t, t = ws \o <<c>>
  PROVE  /\ t \in Seq(S) /\ Len(t) = Len(ws) + 1 /\ t[Len(ws) + 1] = c
         /\ \A i \in 1..Len(ws) : t[i] = ws[i]
OBVIOUS

\* One word of a text replaced.
LEMMA OneOther ==
  ASSUME NEW S, NEW t \in Seq(S), NEW i \in 1..Len(t), NEW w \in S, NEW d, d = [t EXCEPT ![i] = w]
  PROVE  /\ d \in Seq(S) /\ Len(d) = Len(t) /\ d[i] = w
         /\ \A j \in 1..Len(t) : j # i => d[j] = t[j]
OBVIOUS

\* Replacing a word changes the sum by the difference.
LEMMA OtherSum ==
  ASSUME NEW t \in Seq(0..W-1), NEW d \in Seq(0..W-1), NEW x, NEW y, Sums(x, t), Sums(y, d),
         Len(d) = Len(t), NEW i \in 1..Len(t), \A j \in 1..Len(t) : j # i => d[j] = t[j]
  PROVE  y[Len(t)] - x[Len(t)] = d[i] - t[i]
<1>1. PICK n : n = Len(t)
  BY Zenon
<1>2. /\ n \in Nat /\ x[0] = 0
      /\ \A j \in 1..n : x[j] = x[j - 1] + t[j] /\ t[j] \in 0..W-1
      /\ \A j \in 0..n : x[j] \in Nat
  BY Zenon, <1>1, SumsAre
<1>3. /\ y[0] = 0
      /\ \A j \in 1..n : y[j] = y[j - 1] + d[j] /\ d[j] \in 0..W-1
      /\ \A j \in 0..n : y[j] \in Nat
  BY Zenon, <1>1, SumsAre
<1>4. i \in 1..n /\ \A j \in 1..n : j # i => d[j] = t[j]
  BY Zenon, <1>1
<1>5. /\ i - 1 \in Nat /\ n - i \in Nat /\ i \in Nat /\ 0 \in Nat
      /\ 0 + (i - 1) = i - 1 /\ i - 1 <= n /\ i + (n - i) = n /\ n <= n
      /\ \A j \in 1..(i - 1) : 0 + j = j /\ j \in 1..n /\ j # i
      /\ \A j \in 1..(n - i) : i + j \in 1..n /\ i + j # i
      /\ i - 1 \in 0..n /\ n \in 0..n /\ i \in 0..n
  BY <1>2, <1>4
<1>6. x[i - 1] - x[0] = y[i - 1] - y[0]
  <2>1. \A j \in 1..(i - 1) : t[0 + j] = d[0 + j]
    BY Zenon, <1>4, <1>5
  <2>2. 0 + (i - 1) <= Len(t) /\ 0 + (i - 1) <= Len(d)
    BY Zenon, <1>1, <1>5
  <2>4. Stretch(t, x, 0, d, y, 0, i - 1)
    BY Zenon, <1>5, <2>1, <2>2 DEF Stretch
  <2>3. x[0 + (i - 1)] - x[0] = y[0 + (i - 1)] - y[0]
    BY <2>4, StretchSums
  <2> QED
    BY Zenon, <1>5, <2>3
<1>7. x[n] - x[i] = y[n] - y[i]
  <2>1. \A j \in 1..(n - i) : t[i + j] = d[i + j]
    BY Zenon, <1>4, <1>5
  <2>2. i + (n - i) <= Len(t) /\ i + (n - i) <= Len(d)
    BY Zenon, <1>1, <1>5
  <2>4. Stretch(t, x, i, d, y, i, n - i)
    BY Zenon, <1>5, <2>1, <2>2 DEF Stretch
  <2>3. x[i + (n - i)] - x[i] = y[i + (n - i)] - y[i]
    BY <2>4, StretchSums
  <2> QED
    BY Zenon, <1>5, <2>3
<1>8. PICK a, b, e, f, g, h, v, w : /\ a = x[i - 1] /\ b = y[i - 1] /\ e = x[i] /\ f = y[i]
                                    /\ g = x[n] /\ h = y[n] /\ v = t[i] /\ w = d[i]
  BY Zenon
<1>9. a \in Nat /\ b \in Nat /\ e \in Nat /\ f \in Nat /\ g \in Nat /\ h \in Nat /\ v \in 0..W-1 /\ w \in 0..W-1
  BY Zenon, <1>2, <1>3, <1>4, <1>5, <1>8
<1>10. a - 0 = b - 0 /\ g - e = h - f /\ e = a + v /\ f = b + w
  BY Zenon, <1>2, <1>3, <1>4, <1>6, <1>7, <1>8
<1>11. h - g = w - v
  BY <1>9, <1>10, ChecksumAssumption
<1> QED
  BY Zenon, <1>1, <1>8, <1>11


\* The states of the checksum: a text of words within the bound, and two addresses.
CheckInv ==
  /\ words \in Seq(Words) /\ Len(words) <= MaxWords
  /\ saddr \in Addresses \union {0} /\ daddr \in Addresses \union {0}

\* A sequence over a subset.
LEMMA SequenceOver ==
  ASSUME NEW S, NEW T, S \subseteq T, NEW s \in Seq(S)
  PROVE  s \in Seq(T)
OBVIOUS

\* The text of a state is one of words.
LEMMA TextOfWords ==
  ASSUME CheckInv
  PROVE  words \in Seq(0..W-1) /\ Len(words) \in 0..W-1
<1>1. words \in Seq(Words) /\ Words \subseteq 0..W-1 /\ MaxWords \in 0..W-1 /\ Len(words) <= MaxWords
  BY Zenon, ChecksumAssumption DEF CheckInv
<1>2. Len(words) \in Nat
  BY <1>1
<1>3. Len(words) \in 0..W-1
  BY <1>1, <1>2, ChecksumAssumption
<1> QED
  BY Zenon, <1>1, <1>3, SequenceOver

\* The header of ip_output is accepted, and a damaged one is not.
LEMMA HeaderAccepted ==
  ASSUME CheckInv
  PROVE  HeaderVerifies
<1>1. PICK n : n = Len(words)
  BY Zenon
<1>2. words \in Seq(0..W-1) /\ n \in 0..W-1 /\ n \in Nat /\ n + 1 <= W /\ n <= W /\ n \in 0..n /\ W * W \in Nat
  <2>1. words \in Seq(0..W-1) /\ n \in 0..W-1
    BY Zenon, <1>1, TextOfWords
  <2> QED
    BY <2>1, ChecksumAssumption
<1>3. PICK u : Sums(u, words)
  BY Zenon, <1>2, SumsExist
<1>4. u[n] \in Nat /\ u[n] <= n * (W - 1) /\ n * (W - 1) < W * W /\ n * (W - 1) \in Nat
  <2>1. n \in 0..W
    BY <1>2, ChecksumAssumption
  <2> QED
    BY Zenon, <1>1, <1>2, <1>3, <2>1, SumsAre, Fits
<1>5. PICK c : c = ip_send_check(words)
  BY Zenon
<1>6. c = W - 1 - Canon(u[n])
  <2>1. 0 + u[Len(words)] < W * W /\ 0 + u[n] = u[n] /\ 0 \in Nat
    BY <1>1, <1>2, <1>4
  <2>2. Len(words) <= W
    BY Zenon, <1>1, <1>2
  <2>3. checksum(words, 0) = W - 1 - Canon(0 + u[Len(words)])
    BY Zenon, <1>2, <1>3, <2>1, <2>2, ChecksumIs
  <2> QED
    BY Zenon, <1>1, <1>5, <2>1, <2>3 DEF ip_send_check
<1>7. c \in 0..W-1 /\ Canon(u[n] + c) = W - 1
  <2>1. Cong(u[n], u[n])
    <3>1. u[n] \in Int
      BY <1>4
    <3> QED
      BY Zenon, <3>1, CongSelf
  <2> QED
    BY Zenon, <1>4, <1>6, <2>1, Complement
<1>8. PICK h : h = words \o <<c>>
  BY Zenon
<1>9. h \in Seq(0..W-1) /\ Len(h) = n + 1 /\ h[n + 1] = c /\ \A i \in 1..n : h[i] = words[i]
  BY <1>1, <1>2, <1>7, <1>8, OneMore
<1>10. PICK x : Sums(x, h)
  BY Zenon, <1>9, SumsExist
<1>11. x[n + 1] = u[n] + c
  <2>1. Stretch(h, x, 0, words, u, 0, n)
    <3>1. \A j \in 1..n : 0 + j = j
      BY <1>2
    <3>2. 0 + n <= n + 1 /\ 0 + n <= n /\ 0 \in Nat
      BY <1>2
    <3> QED
      BY Zenon, <1>1, <1>2, <1>3, <1>9, <1>10, <3>1, <3>2 DEF Stretch
  <2>2. x[0 + n] - x[0] = u[0 + n] - u[0]
    BY <2>1, StretchSums
  <2>3. n + 1 \in 1..(n + 1) /\ n \in 0..(n + 1) /\ (n + 1) - 1 = n /\ 0 + n = n
    BY <1>2
  <2>4. x[0] = 0 /\ x[n] \in Nat /\ x[n + 1] = x[n] + c
    <3>1. /\ x[0] = 0 /\ \A i \in 1..(n + 1) : x[i] = x[i - 1] + h[i]
          /\ \A i \in 0..(n + 1) : x[i] \in Nat
      BY SMTT(40), <1>9, <1>10, SumsAre
    <3> QED
      BY Zenon, <1>9, <2>3, <3>1
  <2>5. u[0] = 0
    BY Zenon, <1>2, <1>3, SumsAre
  <2>6. PICK a, b : a = x[n] /\ b = u[n]
    BY Zenon
  <2>7. a - 0 = b - 0
    BY Zenon, <2>2, <2>3, <2>4, <2>5, <2>6
  <2>8. a = b
    BY <1>4, <2>4, <2>6, <2>7
  <2> QED
    BY Zenon, <2>4, <2>6, <2>8
<1>12. ip_rcv_accepts(h)
  BY Zenon, <1>2, <1>7, <1>9, <1>10, <1>11, AcceptsAllOnes
<1>13. ASSUME NEW i \in DOMAIN h, NEW w \in Words, ip_rcv_accepts([h EXCEPT ![i] = w])
       PROVE  (w - h[i]) % (W - 1) = 0
  <2>1. i \in 1..Len(h) /\ w \in 0..W-1 /\ h[i] \in 0..W-1
    BY <1>9, ChecksumAssumption
  <2>2. PICK d : d = [h EXCEPT ![i] = w]
    BY Zenon
  <2>3. d \in Seq(0..W-1) /\ Len(d) = Len(h) /\ d[i] = w /\ \A j \in 1..Len(h) : j # i => d[j] = h[j]
    BY <1>9, <2>1, <2>2, OneOther
  <2>4. PICK y : Sums(y, d)
    BY Zenon, <2>3, SumsExist
  <2>5. y[Len(h)] - x[Len(h)] = d[i] - h[i]
    BY SMTT(40), <1>9, <1>10, <2>1, <2>3, <2>4, OtherSum
  <2>6. PICK a, b : a = x[n + 1] /\ b = y[n + 1]
    BY Zenon
  <2>7. a \in Nat /\ b \in Nat
    <3>1. n + 1 \in 0..(n + 1)
      BY <1>2
    <3> QED
      BY Zenon, <1>9, <1>10, <2>3, <2>4, <2>6, <3>1, SumsAre
  <2>8. Canon(a) = W - 1 /\ Canon(b) = W - 1
    <3>1. ip_rcv_accepts(d) /\ Len(d) <= W
      BY Zenon, <1>2, <1>9, <1>13, <2>2, <2>3
    <3>2. Canon(y[Len(d)]) = W - 1
      BY Zenon, <2>3, <2>4, <3>1, AcceptsAllOnes
    <3> QED
      BY Zenon, <1>7, <1>9, <1>11, <2>3, <2>6, <3>2
  <2>9. Cong(W - 1, a) /\ Cong(W - 1, b)
    BY Zenon, <2>7, <2>8, CanonFolded DEF Folded
  <2>10. PICK k \in Int : W - 1 = a + k * (W - 1)
    BY Zenon, <2>9 DEF Cong
  <2>11. PICK l \in Int : W - 1 = b + l * (W - 1)
    BY Zenon, <2>9 DEF Cong
  <2>12. k - l \in Int /\ b - a = 0 + (k - l) * (W - 1)
    BY <2>7, <2>10, <2>11, ChecksumAssumption
  <2>13. b - a = w - h[i]
    BY Zenon, <1>9, <2>3, <2>5, <2>6
  <2>14. Cong(w - h[i], 0)
    BY Zenon, <2>12, <2>13 DEF Cong
  <2>15. w - h[i] \in Int
    BY <2>1, ChecksumAssumption
  <2> QED
    BY Zenon, <2>14, <2>15, NoRemainder
<1> QED
  BY Zenon, <1>5, <1>8, <1>12, <1>13 DEF HeaderVerifies


\* The accumulator holds the sum of any addresses and text (tcp_udp_checksum, utils.c:93).
SumsFit ==
  \A s, d \in Addresses \union {0} : s + d + 6 + MaxWords * W < W * W

\* The two halves of an address are a sum of the same residue.
LEMMA HalvesOf ==
  ASSUME NEW a \in Nat, a < W * W
  PROVE  /\ a \div W \in 0..W-1 /\ a % W \in 0..W-1
         /\ a = ((a \div W) + (a % W)) + (a \div W) * (W - 1)
<1>1. PICK q, r : q = a \div W /\ r = a % W
  BY Zenon
<1>2. q \in Nat /\ r \in 0..W-1 /\ a = W * q + r
  BY <1>1, ChecksumAssumption
<1>3. q < W
  <2>1. q >= W => W * q >= W * W
    BY <1>2, ChecksumAssumption
  <2> QED
    BY <1>2, <2>1, ChecksumAssumption
<1>4. q \in 0..W-1 /\ a = (q + r) + q * (W - 1)
  BY <1>2, <1>3, ChecksumAssumption
<1> QED
  BY Zenon, <1>1, <1>2, <1>4

\* The checksum of a segment makes the sum all ones.
LEMMA SegmentAllOnes ==
  ASSUME CheckInv, SumsFit
  PROVE  SegmentVerifies
<1>1. PICK n, s, d : n = Len(words) /\ s = saddr /\ d = daddr
  BY Zenon
<1>2. words \in Seq(0..W-1) /\ n \in 0..W-1
  BY Zenon, <1>1, TextOfWords
<1>3. PICK u : Sums(u, words)
  BY Zenon, <1>2, SumsExist
<1>4. PICK b : b = u[n]
  BY Zenon
<1>5. u[0] = 0 /\ b \in Nat /\ b <= n * (W - 1) /\ n \in Nat
  <2>1. n \in 0..n
    BY <1>2
  <2> QED
    BY Zenon, <1>1, <1>2, <1>3, <1>4, <2>1, SumsAre
<1>6. s \in Nat /\ d \in Nat /\ s + d + 6 + MaxWords * W < W * W /\ n <= MaxWords /\ MaxWords \in Nat
  <2>1. s \in Addresses \union {0} /\ d \in Addresses \union {0} /\ n <= MaxWords
    BY Zenon, <1>1 DEF CheckInv
  <2> QED
    BY <2>1, ChecksumAssumption DEF SumsFit
<1>7. PICK a : a = s + d + 6 + n
  BY Zenon
<1>8. a \in Nat /\ a + b < W * W /\ s < W * W /\ d < W * W /\ a # 0 /\ W * W \in Nat
  <2>1. n * W <= MaxWords * W
    BY <1>5, <1>6, ChecksumAssumption
  <2>2. n + n * (W - 1) = n * W /\ n * W \in Nat /\ MaxWords * W \in Nat /\ W * W \in Nat /\ n * (W - 1) \in Nat
    BY <1>5, <1>6, ChecksumAssumption
  <2> QED
    BY SMTT(40), <1>5, <1>6, <1>7, <2>1, <2>2
<1>9. PICK c : c = tcp_udp_checksum(s, d, 6, n, words)
  BY Zenon
<1>10. c = W - 1 - Canon(a + b)
  <2>1. a + u[Len(words)] < W * W /\ Len(words) <= W
    BY SMTT(40), <1>1, <1>2, <1>4, <1>8, ChecksumAssumption
  <2>2. checksum(words, a) = W - 1 - Canon(a + u[Len(words)]) /\ a % (W * W) = a
    BY Zenon, <1>2, <1>3, <1>8, <2>1, ChecksumIs
  <2> QED
    BY Zenon, <1>1, <1>4, <1>7, <1>9, <2>2 DEF tcp_udp_checksum
<1>11. PICK p : p = [i \in 1..6 |-> CASE i = 1 -> s \div W [] i = 2 -> s % W [] i = 3 -> d \div W
                                      [] i = 4 -> d % W [] i = 5 -> 6 [] i = 6 -> n]
  BY Zenon
<1>12. p[1] = s \div W /\ p[2] = s % W /\ p[3] = d \div W /\ p[4] = d % W /\ p[5] = 6 /\ p[6] = n
  BY <1>11
<1>13. /\ p[1] \in 0..W-1 /\ p[2] \in 0..W-1 /\ s = (p[1] + p[2]) + p[1] * (W - 1)
       /\ p[3] \in 0..W-1 /\ p[4] \in 0..W-1 /\ d = (p[3] + p[4]) + p[3] * (W - 1)
  BY Zenon, <1>6, <1>8, <1>12, HalvesOf
<1>14. p \in [1..6 -> 0..W-1]
  <2>1. 6 \in 0..W-1
    BY ChecksumAssumption
  <2>2. ASSUME NEW i \in 1..6 PROVE p[i] \in 0..W-1
    <3>1. i = 1 \/ i = 2 \/ i = 3 \/ i = 4 \/ i = 5 \/ i = 6
      OBVIOUS
    <3> QED
      BY Zenon, <1>2, <1>12, <1>13, <2>1, <3>1
  <2>3. p = [i \in 1..6 |-> p[i]]
    BY <1>11
  <2> QED
    BY Zenon, <2>2, <2>3
<1>15. PICK f : f = p[1] + p[2] + p[3] + p[4] + 6 + n
  BY Zenon
<1>16. f \in Nat /\ f # 0
  BY SMTT(40), <1>5, <1>13, <1>15, ChecksumAssumption
<1>17. Cong(f + b, a + b) /\ f + b \in Nat /\ a + b \in Nat /\ f + b # 0 /\ a + b # 0
  <2>1. PICK k : k = -(p[1] + p[3])
    BY Zenon
  <2>2. k \in Int /\ a = f - k * (W - 1)
    BY SMTT(40), <1>5, <1>6, <1>7, <1>13, <1>15, <2>1, ChecksumAssumption
  <2>3. f + b = (a + b) + k * (W - 1)
    BY <1>5, <1>8, <1>16, <2>2, ChecksumAssumption
  <2>4. Cong(f + b, a + b)
    BY Zenon, <2>2, <2>3 DEF Cong
  <2> QED
    BY <1>5, <1>8, <1>16, <2>4
<1>18. c \in 0..W-1 /\ Canon((f + b) + c) = W - 1
  BY Zenon, <1>10, <1>17, Complement
<1>19. PICK h : h = <<p[1], p[2], p[3], p[4], p[5], p[6]>>
  BY Zenon
<1>19a. PICK q : q = h \o words
  BY Zenon
<1>19b. PICK t : t = q \o <<c>>
  BY Zenon
<1>20. /\ t \in Seq(0..W-1) /\ Len(t) = n + 7 /\ t[n + 7] = c
       /\ \A i \in 1..6 : t[i] = p[i]
       /\ \A i \in 1..n : t[6 + i] = words[i]
  <2>1. PICK S : S = 0..W-1
    BY Zenon
  <2>2. p \in [1..6 -> S] /\ words \in Seq(S) /\ c \in S
    BY Zenon, <1>2, <1>14, <1>18, <2>1
  <2>3. h \in Seq(S) /\ Len(h) = 6 /\ \A i \in 1..6 : h[i] = p[i]
    BY <1>19, <2>2
  <2>4. /\ h \o words \in Seq(S) /\ Len(h \o words) = 6 + Len(words)
        /\ \A i \in 1..6 : (h \o words)[i] = h[i]
        /\ \A i \in 1..Len(words) : (h \o words)[6 + i] = words[i]
    <3>1. /\ h \o words \in Seq(S) /\ Len(h \o words) = Len(h) + Len(words)
          /\ \A i \in 1..Len(h) : (h \o words)[i] = h[i]
          /\ \A i \in 1..Len(words) : (h \o words)[Len(h) + i] = words[i]
      <4>1. words \in Seq(S) /\ h \in Seq(S)
        BY Zenon, <2>2, <2>3
      <4>2. h \o words \in Seq(S) /\ Len(h \o words) = Len(h) + Len(words)
        BY <4>1
      <4>3. \A i \in 1..Len(h) : (h \o words)[i] = h[i]
        BY <4>1
      <4>4. \A i \in 1..Len(words) : (h \o words)[Len(h) + i] = words[i]
        BY <4>1
      <4> QED
        BY Zenon, <4>2, <4>3, <4>4
    <3> QED
      BY Zenon, <2>3, <3>1
  <2>5. /\ q \in Seq(S) /\ Len(q) = 6 + n
        /\ \A i \in 1..6 : q[i] = p[i]
        /\ \A i \in 1..n : q[6 + i] = words[i]
    BY Zenon, <1>1, <1>19a, <2>3, <2>4
  <2>6. t \in Seq(S) /\ Len(t) = Len(q) + 1 /\ t[Len(q) + 1] = c /\ \A i \in 1..Len(q) : t[i] = q[i]
    BY SMTT(40), <1>19b, <2>2, <2>5, OneMore
  <2>7. Len(t) = n + 7 /\ Len(q) + 1 = n + 7
    BY <1>5, <2>5, <2>6
  <2>8. ASSUME NEW i \in 1..6 PROVE t[i] = p[i]
    <3>1. i \in 1..Len(q)
      BY <1>5, <2>5
    <3> QED
      BY Zenon, <2>5, <2>6, <3>1
  <2>9. ASSUME NEW i \in 1..n PROVE t[6 + i] = words[i]
    <3>1. 6 + i \in 1..Len(q)
      BY <1>5, <2>5
    <3> QED
      BY Zenon, <2>5, <2>6, <3>1
  <2> QED
    BY Zenon, <2>1, <2>6, <2>7, <2>8, <2>9
<1>21. PICK z : Sums(z, t)
  BY Zenon, <1>20, SumsExist
<1>22. /\ z[0] = 0 /\ \A i \in 1..(n + 7) : z[i] = z[i - 1] + t[i]
       /\ \A i \in 0..(n + 7) : z[i] \in Nat
  BY SMTT(40), <1>20, <1>21, SumsAre
<1>23. z[6] = f
  <2>1. z[1] = z[0] + t[1] /\ z[2] = z[1] + t[2] /\ z[3] = z[2] + t[3]
    BY SMTT(40), <1>5, <1>22
  <2>2. z[4] = z[3] + t[4] /\ z[5] = z[4] + t[5] /\ z[6] = z[5] + t[6]
    BY <1>5, <1>22
  <2>3. t[1] = p[1] /\ t[2] = p[2] /\ t[3] = p[3] /\ t[4] = p[4] /\ t[5] = 6 /\ t[6] = n
    BY <1>12, <1>20
  <2>4. PICK p1, p2, p3, p4 : p1 = p[1] /\ p2 = p[2] /\ p3 = p[3] /\ p4 = p[4]
    BY Zenon
  <2>5. p1 \in Nat /\ p2 \in Nat /\ p3 \in Nat /\ p4 \in Nat
    BY SMTT(40), <1>13, <2>4, ChecksumAssumption
  <2>6. z[1] = 0 + p1 /\ 0 + p1 = p1
    BY SMTT(40), <1>22, <2>1, <2>3, <2>4, <2>5
  <2>7. z[2] = p1 + p2
    BY Zenon, <2>1, <2>3, <2>4, <2>6
  <2>8. z[3] = p1 + p2 + p3
    BY Zenon, <2>1, <2>3, <2>4, <2>7
  <2>9. z[4] = p1 + p2 + p3 + p4
    BY Zenon, <2>2, <2>3, <2>4, <2>8
  <2>10. z[6] = p1 + p2 + p3 + p4 + 6 + n
    BY Zenon, <2>2, <2>3, <2>9
  <2> QED
    BY Zenon, <1>15, <2>4, <2>10
<1>24. z[n + 7] = (f + b) + c
  <2>1. Stretch(t, z, 6, words, u, 0, n)
    <3>1. \A j \in 1..n : 0 + j = j
      BY <1>5
    <3>2. 6 + n <= n + 7 /\ 0 + n <= n /\ 0 \in Nat /\ 6 \in Nat
      BY <1>5
    <3> QED
      BY Zenon, <1>1, <1>2, <1>3, <1>5, <1>20, <1>21, <3>1, <3>2 DEF Stretch
  <2>2. z[6 + n] - z[6] = u[0 + n] - u[0]
    BY <2>1, StretchSums
  <2>3. n + 7 \in 1..(n + 7) /\ 6 + n \in 0..(n + 7) /\ (n + 7) - 1 = 6 + n /\ 0 + n = n
    BY <1>5
  <2>4. z[6 + n] \in Nat /\ z[n + 7] = z[6 + n] + c
    BY Zenon, <1>20, <1>22, <2>3
  <2>5. PICK y : y = z[6 + n]
    BY Zenon
  <2>6. y - f = b - 0
    BY Zenon, <1>4, <1>5, <1>23, <2>2, <2>3, <2>5
  <2>7. y = f + b
    BY SMTT(40), <1>5, <1>16, <2>4, <2>5, <2>6
  <2> QED
    BY Zenon, <2>4, <2>5, <2>7
<1>25. OnesSum(t) = W - 1
  <2>1. OnesSum(t) = Canon(z[Len(t)])
    BY Zenon, <1>20, <1>21, OnesSumIs
  <2> QED
    BY Zenon, <1>18, <1>20, <1>24, <2>1
<1>26. PseudoHeader = h
  BY Zenon, <1>1, <1>12, <1>19 DEF PseudoHeader
<1> QED
  BY Zenon, <1>1, <1>9, <1>19a, <1>19b, <1>25, <1>26 DEF SegmentVerifies

\* The text starts empty, on no connection.
LEMMA InitCheck == ChecksumInit => CheckInv
<1> SUFFICES ASSUME ChecksumInit PROVE CheckInv
  BY Zenon
<1>1. words = <<>> /\ saddr = 0 /\ daddr = 0
  BY Zenon DEF ChecksumInit
<1>2. words \in Seq(Words) /\ Len(words) <= MaxWords
  BY <1>1, ChecksumAssumption
<1> QED
  BY Zenon, <1>1, <1>2 DEF CheckInv

\* Every step keeps it within its bounds.
LEMMA NextCheck == CheckInv /\ [ChecksumNext]_checkvars => CheckInv'
<1> SUFFICES ASSUME CheckInv, [ChecksumNext]_checkvars PROVE CheckInv'
  BY Zenon
<1>1. CASE Connect
  BY Zenon, <1>1 DEF Connect, CheckInv
<1>2. CASE Extend
  <2>1. /\ saddr' = saddr /\ daddr' = daddr
        /\ words \in Seq(Words) /\ Len(words) < MaxWords
    BY Zenon, <1>2 DEF Extend, CheckInv
  <2>2. PICK w \in Words : words' = Append(words, w)
    BY Zenon, <1>2 DEF Extend
  <2>3. words' \in Seq(Words) /\ Len(words') <= MaxWords
    BY <2>1, <2>2, ChecksumAssumption
  <2> QED
    BY Zenon, <2>1, <2>3 DEF CheckInv
<1>3. CASE words' = words /\ saddr' = saddr /\ daddr' = daddr
  BY Zenon, <1>3 DEF CheckInv
<1> QED
  BY Zenon, <1>1, <1>2, <1>3 DEF ChecksumNext, checkvars

\* The header checksum of ip_output is the one ip_rcv accepts, and with any one word replaced
\* by one of another value it is rejected: for every text that ip_send_check can be given.
THEOREM HeaderChecked == ChecksumSpec => []HeaderVerifies
<1> QED
  BY InitCheck, NextCheck, HeaderAccepted, PTL DEF ChecksumSpec

\* The checksum of a segment is the one any peer computes too, as long as the addresses added
\* as whole numbers do not overflow the accumulator of tcp_udp_checksum.
THEOREM ChecksumChecked == SumsFit => (ChecksumSpec => []ChecksumVerifies)
<1> SUFFICES ASSUME SumsFit PROVE ChecksumSpec => []ChecksumVerifies
  BY Zenon
<1>1. CheckInv => ChecksumVerifies
  BY Zenon, HeaderAccepted, SegmentAllOnes DEF ChecksumVerifies
<1> QED
  BY <1>1, InitCheck, NextCheck, PTL DEF ChecksumSpec
===============================================================================
