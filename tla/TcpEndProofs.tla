----------------------------- MODULE TcpEndProofs -----------------------------
(***************************************************************************)
(* What the operations of one end keep.  The write queue stays a gapless   *)
(* piece of the stream, from snd_una to the last byte written; the receive *)
(* queue stays a prefix of the stream, and the out-of-order queue holds    *)
(* pieces of it.                                                           *)
(***************************************************************************)
EXTENDS TcpReassembly, StreamInv, WellFoundedInduction, TLAPS

------------------------------------------------------------------------------
\* The least-number principle in a form without operator parameters, and what it says
\* about the prefixes of a sequence.

\* A non-empty set of naturals has a least element.  The walks over skb queues stop at a
\* first buffer.
LEMMA LeastNat ==
  ASSUME NEW T, T \subseteq Nat, T # {}
  PROVE  \E n \in T : \A m \in T : n <= m
<1> DEFINE Below == OpToRel(<, Nat)
<1>1. \A m, n \in Nat : m < n => <<m, n>> \in Below
  BY Zenon DEF OpToRel
<1>2. IsWellFoundedOn(Below, Nat)
  BY Zenon, NatLessThanWellFounded
<1> HIDE DEF Below
<1>3. PICK n \in T : \A m \in T : ~(<<m, n>> \in Below)
  BY Zenon, <1>2, WFMin
<1>4. ASSUME NEW m \in T PROVE n <= m
  <2>1. m \in Nat /\ n \in Nat
    BY Zenon
  <2>2. ~(m < n)
    BY Zenon, <1>1, <1>3, <2>1
  <2> QED BY <2>1, <2>2
<1> QED BY Zenon, <1>4

\* Of a sequence of L elements there is a longest prefix with a property the empty
\* one has: where tcp_clean_rto_queue and tcp_consume_ofo_queue leave their loop.
LEMMA LongestPrefix ==
  ASSUME NEW L \in Nat, NEW S, 0 \in S
  PROVE  \E n \in 0..L : n \in S /\ (n < L => n + 1 \notin S)
<1> DEFINE T == {n \in 1..L : n \notin S}
<1>1. CASE T = {}
  <2>1. L \in S
    BY <1>1
  <2> QED BY <2>1
<1>2. CASE T # {}
  <2>1. T \subseteq Nat
    OBVIOUS
  <2>2. PICK n \in T : \A m \in T : n <= m
    <3> HIDE DEF T
    <3> QED BY Zenon, <1>2, <2>1, LeastNat
  <2>3. n - 1 \in 0..L /\ n - 1 < L /\ n - 1 + 1 = n
    OBVIOUS
  <2>4. n - 1 \in S
    BY <2>2, <2>3
  <2> QED BY Zenon, <2>3, <2>4
<1> QED BY Zenon, <1>1, <1>2

------------------------------------------------------------------------------
\* The types of a write queue and of its edges.
LEMMA QueueTypes ==
  ASSUME NEW q, NEW w, Contiguous(q, w)
  PROVE  /\ q \in Seq(SkbSet) /\ Len(q) \in Nat /\ w \in Nat
         /\ \A i \in 1..Len(q) : /\ q[i] \in SkbSet /\ q[i].run \in RunSet
                                 /\ q[i].run.pos \in Nat /\ q[i].run.len \in Nat
                                 /\ q[i].seq \in Nat /\ q[i].end_seq \in Nat
                                 /\ Edge(q, w, i) = q[i].run.pos
         /\ \A i \in 1..Len(q)+1 : Edge(q, w, i) \in Nat
<1>1. q \in Seq(SkbSet) /\ Len(q) \in Nat /\ w \in Nat
  BY DEF Contiguous
<1>2. \A i \in 1..Len(q) : q[i] \in SkbSet
  BY <1>1
<1>3. \A i \in 1..Len(q) : /\ q[i].run \in RunSet
                           /\ q[i].run.pos \in Nat /\ q[i].run.len \in Nat
                           /\ q[i].seq \in Nat /\ q[i].end_seq \in Nat
  BY Zenon, <1>2 DEF SkbSet, RunSet
<1>4. \A i \in 1..Len(q) : Edge(q, w, i) = q[i].run.pos
  BY <1>1 DEF Edge
<1>5. ASSUME NEW i \in 1..Len(q)+1 PROVE Edge(q, w, i) \in Nat
  <2>1. CASE i \in 1..Len(q)
    BY Zenon, <1>3, <1>4, <2>1
  <2>2. CASE i = Len(q) + 1
    BY <1>1, <2>2 DEF Edge
  <2> QED BY <1>1, <2>1, <2>2
<1> QED BY Zenon, <1>1, <1>2, <1>3, <1>4, <1>5

\* tcp_clean_rto_queue

\* The loop of tcp_clean_rto_queue ends after the longest acknowledged prefix.
LEMMA CleanedIsPrefix ==
  ASSUME NEW q, Len(q) \in Nat, NEW una
  PROVE  LET n == Cleaned(q, una)
         IN  /\ n \in 0..Len(q) /\ FullyAcked(q, una, n)
             /\ n < Len(q) => ~FullyAcked(q, una, n + 1)
<1> DEFINE S == {n \in Nat : FullyAcked(q, una, n)}
<1>1. 0 \in S
  BY DEF FullyAcked
<1>2. \E n \in 0..Len(q) : n \in S /\ (n < Len(q) => n + 1 \notin S)
  <2> HIDE DEF S
  <2> QED BY Zenon, <1>1, LongestPrefix
<1>3. \E n \in 0..Len(q) : /\ FullyAcked(q, una, n)
                           /\ n < Len(q) => ~FullyAcked(q, una, n + 1)
  BY <1>2
<1> QED BY Zenon, <1>3 DEF Cleaned

\* A new acknowledgment that splits no buffer removes exactly what lies before it.
LEMMA CleanedUpTo ==
  ASSUME NEW q, NEW w, NEW una, NEW nxt, NEW n, QueueInv(q, w, una, nxt, n),
         NEW ack, Cut(q, w, ack), una < ack, ack <= nxt
  PROVE  /\ Cleaned(q, ack) \in 0..n
         /\ Edge(q, w, Cleaned(q, ack) + 1) = ack
<1>0. Contiguous(q, w) /\ n \in Nat /\ n <= Len(q) /\ ack \in Nat
  BY Zenon DEF QueueInv, Cut
<1>t. /\ Len(q) \in Nat
      /\ \A i \in 1..Len(q) : /\ q[i].run.pos \in Nat /\ q[i].end_seq \in Nat
                              /\ Edge(q, w, i) = q[i].run.pos
      /\ \A i \in 1..Len(q)+1 : Edge(q, w, i) \in Nat
  BY Zenon, <1>0, QueueTypes
<1>1. PICK c \in 0..Len(q) : /\ c = Cleaned(q, ack) /\ FullyAcked(q, ack, c)
                             /\ c < Len(q) => ~FullyAcked(q, ack, c + 1)
  BY Zenon, <1>t, CleanedIsPrefix
<1>2. c <= n
  <2>1. SUFFICES ASSUME c > n PROVE FALSE
    BY <1>0, <1>1
  <2>2. c \in 1..Len(q) /\ q[c].seq > 0
    BY <1>0, <1>1, <2>1 DEF FullyAcked
  <2> QED BY <2>1, <2>2 DEF QueueInv
<1>3. Edge(q, w, c + 1) <= ack
  <2>1. CASE c = 0
    BY <2>1, <1>0 DEF QueueInv
  <2>2. CASE c > 0
    <3>1. c \in 1..n /\ c \in 1..Len(q)
      BY <1>0, <1>2, <2>2
    <3>2. q[c].end_seq <= ack
      BY <1>1, <3>1 DEF FullyAcked
    <3> QED BY Zenon, <3>1, <3>2 DEF QueueInv, Contiguous
  <2> QED BY <2>1, <2>2
<1>4. ack <= Edge(q, w, c + 1)
  <2>1. CASE c = n
    BY Zenon, <2>1 DEF QueueInv
  <2>2. CASE c < n
    <3>1. c + 1 \in 1..n /\ c + 1 \in 1..Len(q)
      BY <1>0, <1>t, <2>2
    <3>2. q[c+1].seq > 0
      <4>0. 1 \in 1..Len(q)+1 /\ c + 1 \in 1..Len(q)+1 /\ 1 <= c + 1
        BY <1>t, <3>1
      <4>1. Edge(q, w, 1) <= Edge(q, w, c + 1) /\ Edge(q, w, 1) >= 1
        BY Zenon, <1>0, <4>0 DEF QueueInv, Contiguous
      <4>2. q[c+1].seq = Edge(q, w, c + 1)
        BY Zenon, <3>1, <1>t DEF QueueInv
      <4> QED BY <1>t, <3>1, <4>1, <4>2
    <3>3. ~(q[c+1].end_seq <= ack)
      <4>1. PICK i \in 1..c+1 : ~(q[i].seq > 0 /\ q[i].end_seq <= ack)
        BY <1>1, <2>2, <3>1 DEF FullyAcked
      <4>2. i = c + 1
        BY <4>1, <1>1 DEF FullyAcked
      <4> QED BY Zenon, <4>1, <4>2, <3>2
    <3>4. q[c+1].end_seq = Edge(q, w, c + 2)
      BY <3>1 DEF QueueInv, Contiguous
    <3>5. ack <= Edge(q, w, c + 1) \/ Edge(q, w, c + 2) <= ack
      BY <3>1 DEF Cut
    <3> QED BY Zenon, <3>3, <3>4, <3>5
  <2> QED BY <2>1, <2>2, <1>0, <1>2
<1> QED BY <1>0, <1>t, <1>1, <1>2, <1>3, <1>4

\* Dropping the first c buffers shifts the edges.
LEMMA DropEdges ==
  ASSUME NEW q, NEW w, Contiguous(q, w), NEW c \in 0..Len(q)
  PROVE  LET d == SubSeq(q, c + 1, Len(q))
         IN  /\ d \in Seq(SkbSet) /\ Len(d) = Len(q) - c
             /\ \A i \in 1..Len(d) : d[i] = q[i + c]
             /\ \A i \in 1..Len(d)+1 : Edge(d, w, i) = Edge(q, w, i + c)
<1>1. q \in Seq(SkbSet) /\ Len(q) \in Nat /\ w \in Nat
  BY Zenon, QueueTypes
<1>2. PICK d : d = SubSeq(q, c + 1, Len(q))
  BY Zenon
<1>3. /\ d \in Seq(SkbSet) /\ Len(d) = Len(q) - c
      /\ \A i \in 1..Len(q) - c : d[i] = q[i + c]
  BY <1>1, <1>2
<1>4. ASSUME NEW i \in 1..Len(d)+1 PROVE Edge(d, w, i) = Edge(q, w, i + c)
  BY SMTT(40), <1>1, <1>3 DEF Edge
<1> QED BY Zenon, <1>2, <1>3, <1>4

\* So what tcp_clean_rto_queue leaves behind is again a queue from the acknowledged
\* byte on, and splits where it could be split before.
LEMMA DropKeeps ==
  ASSUME NEW q, NEW w, NEW una, NEW nxt, NEW n, QueueInv(q, w, una, nxt, n), NEW c \in 0..n
  PROVE  LET d == SubSeq(q, c + 1, Len(q))
         IN  /\ QueueInv(d, w, Edge(q, w, c + 1), nxt, n - c)
             /\ \A v : Cut(q, w, v) => Cut(d, w, v)
<1>0. Contiguous(q, w) /\ n \in Nat /\ n <= Len(q) /\ c \in 0..Len(q) /\ c \in Nat
  <2>1. Contiguous(q, w) /\ n \in Nat /\ n <= Len(q)
    BY Zenon DEF QueueInv
  <2>2. Len(q) \in Nat
    BY Zenon, <2>1, QueueTypes
  <2> QED BY <2>1, <2>2
<1>t. /\ Len(q) \in Nat /\ w \in Nat
      /\ \A i \in 1..Len(q)+1 : Edge(q, w, i) \in Nat
  BY Zenon, <1>0, QueueTypes
<1>1. PICK d : d = SubSeq(q, c + 1, Len(q))
  BY Zenon
<1>2. /\ d \in Seq(SkbSet) /\ Len(d) = Len(q) - c
      /\ \A i \in 1..Len(d) : d[i] = q[i + c]
      /\ \A i \in 1..Len(d)+1 : Edge(d, w, i) = Edge(q, w, i + c)
  BY SMTT(40), <1>0, <1>1, DropEdges
<1>3. Contiguous(d, w)
  <2>1. ASSUME NEW i \in 1..Len(d)
        PROVE  d[i].run.len >= 1 /\ Edge(d, w, i + 1) = d[i].run.pos + d[i].run.len
    <3>1. i + c \in 1..Len(q) /\ i + 1 \in 1..Len(d)+1 /\ (i + 1) + c = (i + c) + 1
      BY <1>0, <1>t, <1>2
    <3> QED BY Zenon, <1>0, <1>2, <3>1 DEF Contiguous
  <2>2. ASSUME NEW i \in 1..Len(d)+1, NEW j \in 1..Len(d)+1, i <= j
        PROVE  Edge(d, w, i) <= Edge(d, w, j)
    <3>1. i + c \in 1..Len(q)+1 /\ j + c \in 1..Len(q)+1 /\ i + c <= j + c
      BY <1>0, <1>t, <1>2, <2>2
    <3> QED BY Zenon, <1>0, <1>2, <3>1 DEF Contiguous
  <2> QED BY Zenon, <1>t, <1>2, <2>1, <2>2 DEF Contiguous
<1>4. Edge(q, w, c + 1) >= 1 /\ Edge(q, w, c + 1) \in Nat /\ Edge(q, w, c + 1) = Edge(d, w, 1)
  <2>1. 1 \in 1..Len(q)+1 /\ c + 1 \in 1..Len(q)+1 /\ 1 <= c + 1 /\ 1 + c = c + 1
        /\ 1 \in 1..Len(d)+1
    BY <1>0, <1>t, <1>2
  <2>2. Edge(q, w, 1) <= Edge(q, w, c + 1)
    BY Zenon, <1>0, <2>1 DEF Contiguous
  <2>3. Edge(q, w, 1) >= 1
    BY Zenon DEF QueueInv
  <2> QED BY <1>t, <1>2, <2>1, <2>2, <2>3
<1>5. /\ n - c \in Nat /\ n - c <= Len(d)
      /\ nxt \in Nat /\ nxt = Edge(d, w, n - c + 1)
  <2>1. n - c \in Nat /\ n - c <= Len(d) /\ n - c + 1 \in 1..Len(d)+1 /\ n - c + 1 + c = n + 1
    BY <1>0, <1>t, <1>2
  <2> QED BY Zenon, <1>2, <2>1 DEF QueueInv
<1>6. ASSUME NEW i \in 1..n-c
      PROVE  d[i].seq = d[i].run.pos /\ d[i].end_seq = d[i].run.pos + d[i].run.len
  <2>1. i + c \in 1..n /\ i \in 1..Len(d)
    BY <1>0, <1>t, <1>2
  <2> QED BY Zenon, <1>2, <2>1 DEF QueueInv
<1>7. ASSUME NEW i \in 1..Len(d), i > n - c PROVE d[i].seq = 0
  <2>1. i + c \in 1..Len(q) /\ i + c > n
    BY <1>0, <1>t, <1>2, <1>7
  <2> QED BY Zenon, <1>2, <2>1 DEF QueueInv
<1>8. ASSUME NEW v, Cut(q, w, v) PROVE Cut(d, w, v)
  <2>1. ASSUME NEW i \in 1..Len(d) PROVE v <= Edge(d, w, i) \/ Edge(d, w, i + 1) <= v
    <3>1. /\ i + c \in 1..Len(q) /\ i \in 1..Len(d)+1 /\ i + 1 \in 1..Len(d)+1
          /\ (i + 1) + c = (i + c) + 1
      BY <1>0, <1>t, <1>2
    <3> QED BY Zenon, <1>2, <1>8, <3>1 DEF Cut
  <2> QED BY Zenon, <1>8, <2>1 DEF Cut
<1>9. QueueInv(d, w, Edge(q, w, c + 1), nxt, n - c)
  BY Zenon, <1>3, <1>4, <1>5, <1>6, <1>7 DEF QueueInv
<1> QED BY Zenon, <1>1, <1>8, <1>9

------------------------------------------------------------------------------
\* Transmitting and appending

\* Stamping sequence numbers on buffers moves no edge (tcp_send_next).
LEMMA SameRuns ==
  ASSUME NEW q, NEW w, Contiguous(q, w), NEW r \in Seq(SkbSet), Len(r) = Len(q),
         \A i \in 1..Len(q) : r[i].run = q[i].run
  PROVE  /\ Contiguous(r, w)
         /\ \A i \in 1..Len(q)+1 : Edge(r, w, i) = Edge(q, w, i)
         /\ \A v : Cut(q, w, v) => Cut(r, w, v)
<1>t. Len(q) \in Nat /\ w \in Nat
  BY Zenon, QueueTypes
<1>1. ASSUME NEW i \in 1..Len(q)+1 PROVE Edge(r, w, i) = Edge(q, w, i)
  BY <1>t DEF Edge
<1>2. \A i \in 1..Len(q) : i \in 1..Len(q)+1 /\ i + 1 \in 1..Len(q)+1
  BY <1>t
<1>3. Contiguous(r, w)
  BY Zenon, <1>1, <1>2, <1>t DEF Contiguous
<1>4. ASSUME NEW v, Cut(q, w, v) PROVE Cut(r, w, v)
  BY <1>1, <1>2, <1>4 DEF Cut
<1> QED BY Zenon, <1>1, <1>3, <1>4

\* The fields of a buffer without FIN; it takes as much sequence space as bytes.
LEMMA SkbTypes ==
  ASSUME NEW skb \in SkbSet
  PROVE  /\ skb.run \in RunSet /\ skb.run.pos \in Nat /\ skb.run.len \in Nat
         /\ skb.psh \in BOOLEAN /\ skb.fin = FALSE /\ skb.tag = NoTag
         /\ SeqLen(skb) = skb.run.len
<1>1. skb.run \in RunSet /\ skb.psh \in BOOLEAN /\ skb.fin = FALSE /\ skb.tag = NoTag
  BY Zenon DEF SkbSet
<1>2. skb.run.pos \in Nat /\ skb.run.len \in Nat
  BY Zenon, <1>1 DEF RunSet
<1>3. SeqLen(skb) = skb.run.len
  BY <1>1, <1>2 DEF SeqLen
<1> QED BY Zenon, <1>1, <1>2, <1>3

\* What a transmission stamps on a buffer.
LEMMA SentType ==
  ASSUME NEW skb \in SkbSet, NEW seq \in Nat
  PROVE  LET t == Sent(skb, seq)
         IN  /\ t \in SkbSet /\ t.run = skb.run /\ t.psh = skb.psh /\ t.fin = FALSE
             /\ t.tag = NoTag /\ t.seq = seq /\ t.end_seq = seq + skb.run.len
<1>1. skb.run.len \in Nat /\ skb.fin = FALSE /\ skb.tag = NoTag
  BY Zenon DEF SkbSet, RunSet
<1>2. DOMAIN skb = {"run", "psh", "fin", "tag", "seq", "end_seq"}
  BY Zenon DEF SkbSet
<1>3. PICK t : t = Sent(skb, seq)
  BY Zenon
<1>4. /\ t.run = skb.run /\ t.psh = skb.psh /\ t.fin = skb.fin /\ t.tag = skb.tag
      /\ t.seq = seq /\ t.end_seq = seq + skb.run.len
  BY Zenon, <1>2, <1>3 DEF Sent
<1>5. t \in SkbSet
  <2>1. t = [run |-> t.run, psh |-> t.psh, fin |-> t.fin, tag |-> t.tag,
             seq |-> t.seq, end_seq |-> t.end_seq]
    BY Zenon, <1>2, <1>3 DEF Sent
  <2>2. skb.run \in RunSet /\ skb.psh \in BOOLEAN
    BY Zenon DEF SkbSet
  <2>3. seq + skb.run.len \in Nat
    BY <1>1
  <2>4. /\ t.run \in RunSet /\ t.psh \in BOOLEAN /\ t.fin \in {FALSE} /\ t.tag \in {NoTag}
        /\ t.seq \in Nat /\ t.end_seq \in Nat
    BY Zenon, <1>1, <1>4, <2>2, <2>3
  <2> QED BY Zenon, <2>1, <2>4 DEF SkbSet
<1> QED BY Zenon, <1>1, <1>3, <1>4, <1>5

\* New buffers go behind the old ones (tcp_send).
LEMMA Appended ==
  ASSUME NEW q, NEW w, Contiguous(q, w), NEW p, NEW x, Contiguous(p, x),
         Len(p) >= 1, Edge(p, x, 1) = w + 1
  PROVE  /\ Contiguous(q \o p, x)
         /\ \A i \in 1..Len(q)+1 : Edge(q \o p, x, i) = Edge(q, w, i)
         /\ \A v : Cut(q, w, v) => Cut(q \o p, x, v)
<1>t. /\ Len(q) \in Nat /\ w \in Nat /\ q \in Seq(SkbSet)
      /\ Len(p) \in Nat /\ x \in Nat /\ p \in Seq(SkbSet)
      /\ \A i \in 1..Len(q)+1 : Edge(q, w, i) \in Nat
      /\ \A i \in 1..Len(p)+1 : Edge(p, x, i) \in Nat
  BY Zenon, QueueTypes
<1>1. PICK r : r = q \o p
  BY Zenon
<1>2. /\ r \in Seq(SkbSet) /\ Len(r) = Len(q) + Len(p)
      /\ \A i \in 1..Len(q) : r[i] = q[i]
      /\ \A i \in Len(q)+1..Len(q)+Len(p) : r[i] = p[i - Len(q)]
  BY <1>t, <1>1
<1>3. ASSUME NEW i \in 1..Len(q)+1 PROVE Edge(r, x, i) = Edge(q, w, i)
  <2>1. CASE i \in 1..Len(q)
    BY <1>t, <1>2, <2>1 DEF Edge
  <2>2. CASE i = Len(q) + 1
    <3>1. i \in Len(q)+1..Len(q)+Len(p) /\ i - Len(q) = 1 /\ ~(i > Len(r)) /\ i > Len(q)
      BY <1>t, <1>2, <2>2
    <3>2. Edge(r, x, i) = p[1].run.pos
      BY Zenon, <1>2, <3>1 DEF Edge
    <3>3. Edge(p, x, 1) = p[1].run.pos
      BY <1>t DEF Edge
    <3> QED BY Zenon, <3>1, <3>2, <3>3 DEF Edge
  <2> QED BY <1>t, <2>1, <2>2
<1>4. ASSUME NEW i \in 1..Len(p)+1 PROVE Edge(r, x, i + Len(q)) = Edge(p, x, i)
  <2>1. CASE i \in 1..Len(p)
    <3>1. /\ i + Len(q) \in Len(q)+1..Len(q)+Len(p) /\ (i + Len(q)) - Len(q) = i
          /\ ~(i + Len(q) > Len(r)) /\ ~(i > Len(p))
      BY <1>t, <1>2, <2>1
    <3>2. r[i + Len(q)] = p[i]
      BY Zenon, <1>2, <3>1
    <3> QED BY Zenon, <3>1, <3>2 DEF Edge
  <2>2. CASE i = Len(p) + 1
    BY <1>t, <1>2, <2>2 DEF Edge
  <2> QED BY <1>t, <2>1, <2>2
<1>5. ASSUME NEW i \in 1..Len(r)
      PROVE  r[i].run.len >= 1 /\ Edge(r, x, i + 1) = r[i].run.pos + r[i].run.len
  <2>1. CASE i \in 1..Len(q)
    <3>1. i + 1 \in 1..Len(q)+1
      BY <1>t, <2>1
    <3> QED BY Zenon, <1>2, <1>3, <2>1, <3>1 DEF Contiguous
  <2>2. CASE i \in Len(q)+1..Len(r)
    <3>1. i - Len(q) \in 1..Len(p) /\ (i - Len(q)) + 1 \in 1..Len(p)+1
          /\ (i - Len(q)) + 1 + Len(q) = i + 1
      BY <1>t, <1>2, <2>2
    <3>2. Edge(r, x, i + 1) = Edge(p, x, (i - Len(q)) + 1)
      BY Zenon, <1>4, <3>1
    <3>3. r[i] = p[i - Len(q)]
      BY Zenon, <1>2, <2>2
    <3> QED BY Zenon, <3>1, <3>2, <3>3 DEF Contiguous
  <2> QED BY <1>t, <1>2, <2>1, <2>2
<1>6. ASSUME NEW i \in 1..Len(r)+1, NEW j \in 1..Len(r)+1, i <= j
      PROVE  Edge(r, x, i) <= Edge(r, x, j)
  <2>1. CASE j \in 1..Len(q)+1
    <3>1. i \in 1..Len(q)+1
      BY <1>t, <1>6, <2>1
    <3> QED BY Zenon, <1>3, <1>6, <2>1, <3>1 DEF Contiguous
  <2>2. CASE i \in 1..Len(q)+1 /\ j \in Len(q)+2..Len(r)+1
    <3>1. Edge(r, x, i) <= w + 1
      <4>1. Len(q) + 1 \in 1..Len(q)+1 /\ i <= Len(q) + 1 /\ Edge(q, w, Len(q) + 1) = w + 1
        BY <1>t, <2>2 DEF Edge
      <4>2. Edge(q, w, i) <= Edge(q, w, Len(q) + 1)
        BY Zenon, <2>2, <4>1 DEF Contiguous
      <4> QED BY Zenon, <1>3, <2>2, <4>1, <4>2
    <3>2. w + 1 <= Edge(r, x, j)
      <4>1. /\ j - Len(q) \in 1..Len(p)+1 /\ 1 \in 1..Len(p)+1 /\ 1 <= j - Len(q)
            /\ (j - Len(q)) + Len(q) = j
        BY SMTT(40), <1>t, <1>2, <2>2
      <4>2. Edge(p, x, 1) <= Edge(p, x, j - Len(q))
        BY Zenon, <4>1 DEF Contiguous
      <4>3. Edge(r, x, j) = Edge(p, x, j - Len(q))
        BY Zenon, <1>4, <4>1
      <4> QED BY Zenon, <4>2, <4>3
    <3>3. Edge(r, x, i) \in Nat
      BY Zenon, <1>t, <1>3, <2>2
    <3>4. Edge(r, x, j) \in Nat
      <4>1. j - Len(q) \in 1..Len(p)+1 /\ (j - Len(q)) + Len(q) = j
        BY <1>t, <1>2, <2>2
      <4> QED BY ZenonT(40), <1>t, <1>4, <4>1
    <3> QED BY <1>t, <3>1, <3>2, <3>3, <3>4
  <2>3. CASE i \in Len(q)+2..Len(r)+1
    <3>1. /\ i - Len(q) \in 1..Len(p)+1 /\ j - Len(q) \in 1..Len(p)+1
          /\ i - Len(q) <= j - Len(q)
          /\ (i - Len(q)) + Len(q) = i /\ (j - Len(q)) + Len(q) = j
      BY <1>t, <1>2, <1>6, <2>3
    <3>2. Edge(p, x, i - Len(q)) <= Edge(p, x, j - Len(q))
      BY Zenon, <3>1 DEF Contiguous
    <3>3. Edge(r, x, i) = Edge(p, x, i - Len(q)) /\ Edge(r, x, j) = Edge(p, x, j - Len(q))
      BY Zenon, <1>4, <3>1
    <3> QED BY Zenon, <3>2, <3>3
  <2> QED BY <1>t, <1>2, <1>6, <2>1, <2>2, <2>3
<1>7. Contiguous(r, x)
  BY Zenon, <1>t, <1>2, <1>5, <1>6 DEF Contiguous
<1>8. ASSUME NEW v, Cut(q, w, v) PROVE Cut(r, x, v)
  <2>1. v \in Nat /\ 1 <= v /\ v <= w + 1
    BY Zenon, <1>8 DEF Cut
  <2>2. ASSUME NEW i \in 1..Len(q) PROVE v <= Edge(r, x, i) \/ Edge(r, x, i + 1) <= v
    <3>1. i \in 1..Len(q)+1 /\ i + 1 \in 1..Len(q)+1
      BY <1>t
    <3> QED BY Zenon, <1>3, <1>8, <3>1 DEF Cut
  <2>3. ASSUME NEW i \in Len(q)+1..Len(r)+1 PROVE w + 1 <= Edge(r, x, i)
    <3>1. /\ Len(q) + 1 \in 1..Len(r)+1 /\ i \in 1..Len(r)+1 /\ Len(q) + 1 <= i
          /\ Len(q) + 1 \in 1..Len(q)+1
      BY <1>t, <1>2
    <3>2. Edge(r, x, Len(q) + 1) = w + 1
      <4>1. Edge(q, w, Len(q) + 1) = w + 1
        BY <1>t DEF Edge
      <4> QED BY Zenon, <1>3, <3>1, <4>1
    <3> QED BY Zenon, <1>6, <3>1, <3>2
  <2>4. x + 1 = Edge(r, x, Len(r) + 1) /\ Len(r) + 1 \in Len(q)+1..Len(r)+1
    BY <1>t, <1>2 DEF Edge
  <2>5. v <= x + 1
    <3>1. w + 1 <= x + 1
      BY Zenon, <2>3, <2>4
    <3> QED BY <1>t, <2>1, <3>1
  <2>6. ASSUME NEW i \in Len(q)+1..Len(r) PROVE v <= Edge(r, x, i)
    <3>1. i \in Len(q)+1..Len(r)+1 /\ i \in 1..Len(r)
      BY SMTT(40), <1>t, <1>2
    <3>2. w + 1 <= Edge(r, x, i) /\ Edge(r, x, i) \in Nat
      <4>1. Edge(r, x, i) \in Nat
        BY SMTT(40), <1>7, <3>1, <1>t, <1>2, QueueTypes
      <4> QED BY Zenon, <2>3, <3>1, <4>1
    <3> QED BY <1>t, <2>1, <3>2
  <2>7. \A i \in 1..Len(r) : i \in 1..Len(q) \/ i \in Len(q)+1..Len(r)
    BY <1>t, <1>2
  <2> QED BY Zenon, <2>1, <2>2, <2>5, <2>6, <2>7 DEF Cut
<1> QED BY Zenon, <1>1, <1>3, <1>7, <1>8

\* A write of n bytes becomes buffers that continue the stream (tcp_send's loop).
LEMMA BuffersContiguous ==
  ASSUME NEW s, s.fec = FALSE, s.written \in Nat, NEW n \in Nat \ {0}
  PROVE  LET p == Buffers(s, n)
         IN  /\ Len(p) >= 1 /\ Contiguous(p, s.written + n)
             /\ Edge(p, s.written + n, 1) = s.written + 1
             /\ \A i \in 1..Len(p) : p[i].seq = 0
<1>1. Mss \in Nat /\ Mss >= 1
  BY WireAssumption
<1>c. PICK c : c = (n + Mss - 1) \div Mss
  BY Zenon
<1>w. PICK w : w = s.written
  BY Zenon
<1>2. c \in Nat /\ c >= 1 /\ (c - 1) * Mss < n /\ n <= c * Mss /\ w \in Nat
  BY <1>1, <1>c, <1>w
<1>3. PICK m : m = [i \in Nat |-> i * Mss]
  BY Zenon
<1>4. /\ \A i \in Nat : m[i] = i * Mss /\ m[i] \in Nat
      /\ \A i \in Nat : m[i + 1] = m[i] + Mss
      /\ \A i, j \in Nat : i <= j => m[i] <= m[j]
      /\ m[0] = 0 /\ m[c - 1] < n /\ n <= m[c - 1] + Mss
  <2>1. \A i \in Nat : m[i] = i * Mss /\ m[i] \in Nat
    BY <1>1, <1>3
  <2>2. \A i \in Nat : m[i + 1] = m[i] + Mss
    BY <1>1, <1>3
  <2>3. ASSUME NEW i \in Nat, NEW j \in Nat, i <= j PROVE m[i] <= m[j]
    <3>1. i * Mss <= j * Mss
      BY <1>1, <2>3
    <3> QED BY Zenon, <3>1, <2>1
  <2>4. m[0] = 0
    BY <1>1, <1>3
  <2>5. c - 1 \in Nat /\ (c - 1) + 1 = c
    BY <1>2
  <2>6. m[c - 1] < n /\ n <= m[c - 1] + Mss
    BY Zenon, <1>2, <2>1, <2>2, <2>5
  <2> QED BY Zenon, <2>1, <2>2, <2>3, <2>4, <2>6
<1>5. PICK p : p = Buffers(s, n)
  BY Zenon
<1>6. /\ Len(p) = c /\ p \in Seq(SkbSet)
      /\ \A i \in 1..c : /\ p[i].run.pos = w + m[i - 1] + 1
                         /\ p[i].run.len = IF i < c THEN Mss ELSE n - m[c - 1]
                         /\ p[i].seq = 0
  <2>1. PICK r : r = Chunks(s, n)
    BY Zenon
  <2>2. r = [i \in 1..c |-> Run(w + (i - 1) * Mss + 1, IF i < c THEN Mss ELSE n - (c - 1) * Mss)]
    BY Zenon, <1>c, <1>w, <2>1 DEF Chunks
  <2>3. /\ DOMAIN r = 1..c
        /\ \A i \in 1..c : r[i] = Run(w + m[i - 1] + 1, IF i < c THEN Mss ELSE n - m[c - 1])
    <3>1. DOMAIN r = 1..c
      BY Zenon, <2>2
    <3>2. ASSUME NEW i \in 1..c
          PROVE  r[i] = Run(w + m[i - 1] + 1, IF i < c THEN Mss ELSE n - m[c - 1])
      <4>1. i - 1 \in Nat /\ c - 1 \in Nat
        BY <1>2
      <4>2. m[i - 1] = (i - 1) * Mss /\ m[c - 1] = (c - 1) * Mss
        BY Zenon, <1>4, <4>1
      <4> QED BY Zenon, <2>2, <4>2
    <3> QED BY Zenon, <3>1, <3>2
  <2>4. /\ \A i \in 1..c : r[i] \in RunSet /\ r[i].pos = w + m[i - 1] + 1
        /\ \A i \in 1..c : r[i].len = IF i < c THEN Mss ELSE n - m[c - 1]
    <3>1. ASSUME NEW i \in 1..c
          PROVE  w + m[i - 1] + 1 \in Nat /\ (IF i < c THEN Mss ELSE n - m[c - 1]) \in Nat
      <4>1. i - 1 \in Nat /\ c - 1 \in Nat
        BY <1>2
      <4>2. m[i - 1] \in Nat /\ m[c - 1] \in Nat /\ m[c - 1] < n
        BY Zenon, <1>4, <4>1
      <4> QED BY <1>1, <1>2, <4>2
    <3> QED BY <2>3, <3>1 DEF Run, RunSet
  <2>5. Len(r) = c /\ r \in Seq(RunSet)
    BY <1>2, <2>2, <2>4
  <2>6. p = [i \in 1..c |-> Skb(r[i], i = c, FALSE, NoTag)]
    BY Zenon, <1>5, <2>1, <2>3, <2>5 DEF Buffers
  <2>7. \A i \in 1..c : /\ p[i] \in SkbSet /\ p[i].run = r[i] /\ p[i].seq = 0
    BY Zenon, <2>4, <2>6 DEF Skb, SkbSet
  <2>8. Len(p) = c /\ p \in Seq(SkbSet)
    <3>1. p = [i \in 1..c |-> p[i]]
      BY <2>6, Zenon
    <3> QED BY SMTT(40), <1>2, <2>7, <3>1
  <2> QED BY Zenon, <2>4, <2>7, <2>8
<1>7. ASSUME NEW i \in 1..c+1
      PROVE  Edge(p, w + n, i) = IF i <= c THEN w + m[i - 1] + 1 ELSE w + n + 1
  BY <1>2, <1>6 DEF Edge
<1>8. ASSUME NEW i \in 1..c
      PROVE  p[i].run.len >= 1 /\ Edge(p, w + n, i + 1) = p[i].run.pos + p[i].run.len
  <2>1. CASE i < c
    <3>1. i + 1 \in 1..c+1 /\ i + 1 <= c /\ i - 1 \in Nat /\ (i - 1) + 1 = i /\ (i + 1) - 1 = i
      BY <1>2, <2>1
    <3>2. Edge(p, w + n, i + 1) = w + m[i] + 1
      BY Zenon, <1>7, <3>1
    <3>3. m[i] = m[i - 1] + Mss /\ m[i - 1] \in Nat
      BY Zenon, <1>4, <3>1
    <3>4. p[i].run.len = Mss /\ p[i].run.pos = w + m[i - 1] + 1
      BY Zenon, <1>6, <2>1
    <3> QED BY <1>1, <1>2, <3>2, <3>3, <3>4
  <2>2. CASE i = c
    <3>1. i + 1 \in 1..c+1 /\ ~(i + 1 <= c) /\ c - 1 \in Nat
      BY <1>2, <2>2
    <3>2. Edge(p, w + n, i + 1) = w + n + 1
      BY Zenon, <1>7, <3>1
    <3>3. p[i].run.len = n - m[c - 1] /\ p[i].run.pos = w + m[c - 1] + 1
      BY <1>6, <2>2
    <3>4. m[c - 1] \in Nat /\ m[c - 1] < n
      BY Zenon, <1>4, <3>1
    <3> QED BY <1>2, <3>2, <3>3, <3>4
  <2> QED BY <1>2, <2>1, <2>2
<1>9. ASSUME NEW i \in 1..c+1, NEW j \in 1..c+1, i <= j
      PROVE  Edge(p, w + n, i) <= Edge(p, w + n, j)
  <2>1. i - 1 \in Nat /\ j - 1 \in Nat /\ c - 1 \in Nat /\ i - 1 <= j - 1
    BY <1>2, <1>9
  <2>2. CASE j <= c
    <3>1. m[i - 1] <= m[j - 1] /\ m[i - 1] \in Nat /\ m[j - 1] \in Nat
      BY Zenon, <1>4, <2>1
    <3> QED BY <1>2, <1>7, <1>9, <2>2, <3>1
  <2>3. CASE i <= c /\ ~(j <= c)
    <3>1. m[i - 1] <= m[c - 1] /\ m[i - 1] \in Nat /\ m[c - 1] \in Nat
      BY <1>2, <1>4, <2>1, <2>3
    <3>2. Edge(p, w + n, i) = w + m[i - 1] + 1
      BY Zenon, <1>7, <2>3
    <3>3. Edge(p, w + n, j) = w + n + 1
      BY Zenon, <1>7, <2>3
    <3>4. m[c - 1] < n
      BY Zenon, <1>4, <2>1
    <3> QED BY <1>2, <3>1, <3>2, <3>3, <3>4
  <2>4. CASE ~(i <= c) /\ ~(j <= c)
    BY <1>2, <1>7, <2>4
  <2> QED BY Zenon, <1>2, <1>9, <2>2, <2>3, <2>4
<1>10. Contiguous(p, w + n)
  <2>1. w + n \in Nat
    BY <1>2
  <2> QED BY Zenon, <1>6, <1>8, <1>9, <2>1 DEF Contiguous
<1>11. Edge(p, w + n, 1) = w + 1
  <2>1. 1 \in 1..c+1 /\ 1 <= c /\ 1 - 1 = 0
    BY <1>2
  <2> QED BY <1>2, <1>4, <1>7, <2>1
<1> QED BY Zenon, <1>2, <1>w, <1>5, <1>6, <1>10, <1>11

\* Every edge is a place where the receiver may acknowledge.
LEMMA EdgeIsCut ==
  ASSUME NEW q, NEW w, Contiguous(q, w), Edge(q, w, 1) >= 1, NEW i \in 1..Len(q)+1
  PROVE  Cut(q, w, Edge(q, w, i))
<1>t. /\ Len(q) \in Nat /\ w \in Nat
      /\ \A j \in 1..Len(q)+1 : Edge(q, w, j) \in Nat
  BY Zenon, QueueTypes
<1>1. \A j, k \in 1..Len(q)+1 : j <= k => Edge(q, w, j) <= Edge(q, w, k)
  BY Zenon DEF Contiguous
<1>2. 1 \in 1..Len(q)+1 /\ Len(q) + 1 \in 1..Len(q)+1 /\ 1 <= i /\ i <= Len(q) + 1
  BY <1>t
<1>3. Edge(q, w, Len(q) + 1) = w + 1
  BY <1>t DEF Edge
<1>4. Edge(q, w, 1) <= Edge(q, w, i) /\ Edge(q, w, i) <= w + 1
  BY Zenon, <1>1, <1>2, <1>3
<1>5. Edge(q, w, i) \in Nat /\ 1 <= Edge(q, w, i)
  BY <1>t, <1>2, <1>4
<1>6. ASSUME NEW j \in 1..Len(q)
      PROVE  Edge(q, w, i) <= Edge(q, w, j) \/ Edge(q, w, j + 1) <= Edge(q, w, i)
  <2>1. j \in 1..Len(q)+1 /\ j + 1 \in 1..Len(q)+1 /\ (i <= j \/ j + 1 <= i)
    BY SMTT(40), <1>t
  <2> QED BY Zenon, <1>1, <2>1
<1> QED BY Zenon, <1>4, <1>5, <1>6 DEF Cut

------------------------------------------------------------------------------
\* The writing socket

\* t continues s: it is a writing socket, what it emits is its stream, and what the
\* reader may acknowledge to s it may acknowledge to t.
Continues(s, t) ==
  SenderInv(t) /\ DataInv(t, t.out) /\ \A v : Ackable(s, v) => Ackable(t, v)

\* The socket t that tcp_send leaves behind when it has cut n bytes into b.
SendResult(s, n, b, t) ==
  /\ IsSock(t) /\ t.state = "ESTABLISHED"
  /\ t.rcv_nxt = s.rcv_nxt /\ t.ofo_queue = s.ofo_queue
  /\ t.receive_queue = s.receive_queue /\ t.fec = FALSE /\ t.closed = s.closed
  /\ t.linger = "user" /\ t.delacks = s.delacks /\ t.enc = s.enc
  /\ t.snd_una = s.snd_una /\ t.written = s.written + n
  /\ s.write_queue = <<>> => t.rto = TRUE
  /\ s.write_queue # <<>> => t.rto = s.rto
  /\ t.strays = IF s.write_queue = <<>> /\ s.rto THEN MinOf(s.strays + 1, MaxStrays)
                                               ELSE s.strays
  /\ s.inflight = 0 =>
      /\ t.inflight = 1 /\ t.snd_nxt = s.snd_nxt + SeqLen(b[1])
      /\ t.write_queue = Append(s.write_queue, Sent(b[1], s.snd_nxt)) \o Tail(b)
      /\ t.out = {Segment(s.snd_nxt, s.rcv_nxt, b[1].run, b[1].psh, b[1].fin,
                          FALSE, b[1].tag)}
  /\ s.inflight # 0 =>
      /\ t.inflight = s.inflight /\ t.snd_nxt = s.snd_nxt
      /\ t.write_queue = Append(s.write_queue, b[1]) \o Tail(b)
      /\ t.out = {}

\* The fields tcp_send changes, and the ones it leaves alone.
LEMMA SendFields ==
  ASSUME NEW s, SenderInv(s), s.state = "ESTABLISHED", s.out = {}, NEW n, NEW intact
  PROVE  SendResult(s, n, Buffers(s, n), tcp_send(s, n, intact))
<1>1. IsSock(s) /\ s.fec = FALSE
  BY Zenon DEF SenderInv
<1>2. PICK b : b = Buffers(s, n)
  BY Zenon
<1>3. PICK u : u = IF s.write_queue = <<>> THEN tcp_rearm_rto_timer(s) ELSE s
  BY Zenon
<1>4. /\ IsSock(u) /\ \A f \in SockFields \ {"rto", "strays"} : u[f] = s[f]
      /\ s.write_queue = <<>> => u.rto = TRUE
      /\ s.write_queue # <<>> => u.rto = s.rto
      /\ u.strays = IF s.write_queue = <<>> /\ s.rto THEN MinOf(s.strays + 1, MaxStrays)
                                                    ELSE s.strays
  BY Zenon, <1>1, <1>3 DEF IsSock, SockFields, tcp_rearm_rto_timer, tcp_release_rto_timer
<1>5. PICK v : v = tcp_queue_transmit_skb(s, b[1])
  BY Zenon
<1>6. /\ IsSock(v)
      /\ \A f \in SockFields \ {"inflight", "snd_nxt", "write_queue", "out"} : v[f] = u[f]
      /\ s.inflight = 0 =>
           /\ v.inflight = 1 /\ v.snd_nxt = s.snd_nxt + SeqLen(b[1])
           /\ v.write_queue = Append(s.write_queue, Sent(b[1], s.snd_nxt))
           /\ v.out = {Segment(s.snd_nxt, s.rcv_nxt, b[1].run, b[1].psh, b[1].fin,
                               FALSE, b[1].tag)}
      /\ s.inflight # 0 =>
           /\ v.inflight = s.inflight /\ v.snd_nxt = s.snd_nxt
           /\ v.write_queue = Append(s.write_queue, b[1]) /\ v.out = {}
  <2>1. u.out = {} /\ u.inflight = s.inflight /\ u.snd_nxt = s.snd_nxt /\ u.rcv_nxt = s.rcv_nxt
        /\ u.write_queue = s.write_queue
    BY Zenon, <1>4 DEF SockFields
  <2>2. CASE s.inflight = 0
    <3>1. PICK o : o = tcp_transmit_skb(u, b[1], s.snd_nxt)
      BY Zenon
    <3>2. /\ IsSock(o) /\ \A f \in SockFields \ {"out"} : o[f] = u[f]
          /\ o.out = {Segment(s.snd_nxt, s.rcv_nxt, b[1].run, b[1].psh, b[1].fin,
                              FALSE, b[1].tag)}
      BY ZenonT(40), <1>4, <2>1, <3>1 DEF IsSock, SockFields, tcp_transmit_skb
    <3>3. v = [o EXCEPT !.inflight = 1, !.snd_nxt = @ + SeqLen(b[1]),
                        !.write_queue = Append(@, Sent(b[1], s.snd_nxt))]
      BY Zenon, <1>3, <1>5, <2>2, <3>1 DEF tcp_queue_transmit_skb
    <3>4. o.snd_nxt = s.snd_nxt /\ o.write_queue = s.write_queue
      BY Zenon, <2>1, <3>2 DEF SockFields
    <3> QED BY ZenonT(40), <2>2, <3>2, <3>3, <3>4 DEF IsSock, SockFields
  <2>3. CASE s.inflight # 0
    <3>1. v = [u EXCEPT !.write_queue = Append(@, b[1])]
      BY Zenon, <1>3, <1>5, <2>3 DEF tcp_queue_transmit_skb
    <3> QED BY Zenon, <1>4, <2>1, <2>3, <3>1 DEF IsSock, SockFields
  <2> QED BY Zenon, <2>2, <2>3
<1>7. PICK x : x = [v EXCEPT !.write_queue = @ \o Tail(b), !.written = @ + n]
  BY Zenon
<1>8. /\ IsSock(x) /\ x.write_queue = v.write_queue \o Tail(b) /\ x.written = v.written + n
      /\ \A f \in SockFields \ {"write_queue", "written"} : x[f] = v[f]
  BY ZenonT(40), <1>6, <1>7 DEF IsSock, SockFields
<1>9. PICK t : t = tcp_send(s, n, intact)
  BY Zenon
<1>10. t = tcp_rearm_user_timeout(x)
  BY Zenon, <1>1, <1>2, <1>5, <1>7, <1>9 DEF tcp_send
<1>11. x.state = "ESTABLISHED"
  BY SMTT(40), <1>4, <1>6, <1>8 DEF SockFields
<1>12. /\ IsSock(t) /\ t.linger = "user"
       /\ \A f \in SockFields \ {"linger"} : t[f] = x[f]
  BY Zenon, <1>8, <1>10, <1>11 DEF IsSock, SockFields, tcp_rearm_user_timeout
<1>13. /\ t.rcv_nxt = s.rcv_nxt /\ t.ofo_queue = s.ofo_queue
       /\ t.receive_queue = s.receive_queue /\ t.fec = s.fec /\ t.closed = s.closed
       /\ t.delacks = s.delacks /\ t.enc = s.enc /\ t.snd_una = s.snd_una
       /\ t.written = s.written + n /\ t.rto = u.rto /\ t.strays = u.strays
  BY SMTT(40), <1>4, <1>6, <1>8, <1>12 DEF SockFields
<1>14. /\ t.inflight = v.inflight /\ t.snd_nxt = v.snd_nxt /\ t.out = v.out
       /\ t.write_queue = v.write_queue \o Tail(b) /\ t.state = x.state
  BY ZenonT(40), <1>6, <1>8, <1>12 DEF SockFields
<1>15. t.state = "ESTABLISHED" /\ t.fec = FALSE
  BY Zenon, <1>1, <1>11, <1>13, <1>14
<1> QED BY ZenonT(40), <1>2, <1>4, <1>6, <1>9, <1>12, <1>13, <1>14, <1>15 DEF SendResult

\* The write queue after tcp_send: the old buffers, then the new ones, of which the
\* first is stamped if nothing was in flight.
LEMMA SendQueue ==
  ASSUME NEW s, SenderInv(s), s.state = "ESTABLISHED", s.out = {}, NEW n \in Nat \ {0}, NEW intact
  PROVE  LET r == tcp_send(s, n, intact).write_queue
             q == s.write_queue
             x == s.written + n
         IN  /\ Contiguous(r, x) /\ Len(r) > Len(q)
             /\ \A i \in 1..Len(q)+1 : Edge(r, x, i) = Edge(q, s.written, i)
             /\ \A v : Cut(q, s.written, v) => Cut(r, x, v)
             /\ \A i \in 1..Len(q) : r[i] = q[i]
             /\ \A i \in Len(q)+2..Len(r) : r[i].seq = 0
             /\ s.inflight # 0 => r[Len(q)+1].seq = 0
             /\ s.inflight = 0 => r[Len(q)+1] = Sent(Buffers(s, n)[1], s.snd_nxt)
             /\ r[Len(q)+1].run = Buffers(s, n)[1].run
             /\ Buffers(s, n)[1] \in SkbSet
<1> DEFINE q == s.write_queue
           w == s.written
           x == s.written + n
<1>1. Contiguous(q, w) /\ s.fec = FALSE /\ s.snd_nxt \in Nat
  BY Zenon DEF SenderInv, QueueInv
<1>2. q \in Seq(SkbSet) /\ Len(q) \in Nat /\ w \in Nat /\ x \in Nat
  BY <1>1, QueueTypes
<1>3. PICK b : b = Buffers(s, n)
  BY Zenon
<1>4. /\ Len(b) >= 1 /\ Contiguous(b, x) /\ Edge(b, x, 1) = w + 1
      /\ \A i \in 1..Len(b) : b[i].seq = 0
  BY Zenon, <1>1, <1>2, <1>3, BuffersContiguous
<1>5. /\ b \in Seq(SkbSet) /\ Len(b) \in Nat /\ 1 \in 1..Len(b) /\ b[1] \in SkbSet
      /\ b[1].run \in RunSet /\ b[1].run.len \in Nat
  <2>1. b \in Seq(SkbSet) /\ Len(b) \in Nat
    BY Zenon, <1>4, QueueTypes
  <2>2. 1 \in 1..Len(b)
    BY <1>4, <2>1
  <2> QED BY Zenon, <1>4, <2>1, <2>2, QueueTypes
<1>6. PICK r : r = tcp_send(s, n, intact).write_queue
  BY Zenon
<1>7. PICK h : h = IF s.inflight = 0 THEN Sent(b[1], s.snd_nxt) ELSE b[1]
  BY Zenon
<1>8. /\ h \in SkbSet /\ h.run = b[1].run
      /\ s.inflight # 0 => h.seq = 0
      /\ s.inflight = 0 => h = Sent(b[1], s.snd_nxt)
  <2>1. CASE s.inflight = 0
    BY Zenon, <1>1, <1>5, <1>7, <2>1, SentType
  <2>2. CASE s.inflight # 0
    BY Zenon, <1>4, <1>5, <1>7, <2>2
  <2> QED BY Zenon, <2>1, <2>2
<1>9. r = Append(q, h) \o Tail(b)
  <2>1. PICK t : t = tcp_send(s, n, intact)
    BY Zenon
  <2>2. SendResult(s, n, b, t)
    BY Zenon, <1>3, <2>1, SendFields
  <2> QED BY Zenon, <1>6, <1>7, <2>1, <2>2 DEF SendResult
<1>10. /\ r \in Seq(SkbSet) /\ Len(r) = Len(q) + Len(b)
       /\ \A i \in 1..Len(q) : r[i] = q[i]
       /\ r[Len(q)+1] = h
       /\ \A i \in Len(q)+2..Len(r) : r[i] = b[i - Len(q)]
  <2>1. PICK g : g = Append(q, h)
    BY Zenon
  <2>2. /\ g \in Seq(SkbSet) /\ Len(g) = Len(q) + 1 /\ g[Len(q)+1] = h
        /\ \A i \in 1..Len(q) : g[i] = q[i]
    BY <1>2, <1>8, <2>1
  <2>3. PICK l : l = Tail(b)
    BY Zenon
  <2>4. /\ l \in Seq(SkbSet) /\ Len(l) = Len(b) - 1
        /\ \A i \in 1..Len(l) : l[i] = b[i + 1]
    BY <1>4, <1>5, <2>3
  <2>5. /\ r \in Seq(SkbSet) /\ Len(r) = Len(g) + Len(l)
        /\ \A i \in 1..Len(g) : r[i] = g[i]
        /\ \A i \in Len(g)+1..Len(g)+Len(l) : r[i] = l[i - Len(g)]
    <3>1. r = g \o l
      BY Zenon, <1>9, <2>1, <2>3
    <3>2. g \in Seq(SkbSet) /\ l \in Seq(SkbSet)
      BY Zenon, <2>2, <2>4
    <3> QED BY SMTT(40), <3>1, <3>2
  <2>6. ASSUME NEW i \in Len(q)+2..Len(r) PROVE r[i] = b[i - Len(q)]
    <3>1. i \in Len(g)+1..Len(g)+Len(l) /\ i - Len(g) \in 1..Len(l)
          /\ (i - Len(g)) + 1 = i - Len(q)
      BY SMTT(40), <1>2, <1>5, <2>2, <2>4, <2>5
    <3> QED BY Zenon, <2>4, <2>5, <3>1
  <2>7. /\ Len(r) = Len(q) + Len(b) /\ Len(q) + 1 \in 1..Len(g)
        /\ \A i \in 1..Len(q) : i \in 1..Len(g)
    BY SMTT(40), <1>2, <1>5, <2>2, <2>4, <2>5
  <2> QED BY Zenon, <2>2, <2>5, <2>6, <2>7
<1>11. PICK c : c = q \o b
  BY Zenon
<1>12. /\ Len(c) = Len(q) + Len(b)
       /\ \A i \in 1..Len(q) : c[i] = q[i]
       /\ \A i \in Len(q)+1..Len(c) : c[i] = b[i - Len(q)]
  BY SMTT(40), <1>2, <1>5, <1>11
<1>13. /\ Contiguous(c, x)
       /\ \A i \in 1..Len(q)+1 : Edge(c, x, i) = Edge(q, w, i)
       /\ \A v : Cut(q, w, v) => Cut(c, x, v)
  BY SMTT(40), <1>1, <1>4, <1>11, Appended
<1>14. ASSUME NEW i \in 1..Len(c) PROVE r[i].run = c[i].run
  <2>1. CASE i \in 1..Len(q)
    BY Zenon, <1>10, <1>12, <2>1
  <2>2. CASE i = Len(q) + 1
    <3>1. i \in Len(q)+1..Len(c) /\ i - Len(q) = 1
      BY <1>2, <1>4, <1>5, <1>12, <2>2
    <3> QED BY Zenon, <1>8, <1>10, <1>12, <2>2, <3>1
  <2>3. CASE i \in Len(q)+2..Len(r)
    <3>1. i \in Len(q)+1..Len(c)
      BY SMTT(40), <1>2, <2>3
    <3> QED BY Zenon, <1>10, <1>12, <2>3, <3>1
  <2> QED BY SMTT(40), <1>2, <1>5, <1>10, <1>12, <2>1, <2>2, <2>3
<1>15. /\ Contiguous(r, x)
       /\ \A i \in 1..Len(c)+1 : Edge(r, x, i) = Edge(c, x, i)
       /\ \A v : Cut(c, x, v) => Cut(r, x, v)
  BY Zenon, <1>10, <1>12, <1>13, <1>14, SameRuns
<1>16. ASSUME NEW i \in 1..Len(q)+1 PROVE Edge(r, x, i) = Edge(q, w, i)
  <2>1. i \in 1..Len(c)+1
    BY <1>2, <1>5, <1>12
  <2> QED BY Zenon, <1>13, <1>15, <2>1
<1>17. ASSUME NEW i \in Len(q)+2..Len(r) PROVE r[i].seq = 0
  <2>1. i - Len(q) \in 1..Len(b)
    BY <1>2, <1>5, <1>10
  <2> QED BY Zenon, <1>4, <1>10, <2>1
<1>18. Len(r) > Len(q)
  BY <1>2, <1>4, <1>5, <1>10
<1> QED BY Zenon, <1>3, <1>5, <1>6, <1>8, <1>10, <1>13, <1>15, <1>16, <1>17, <1>18

\* snd_nxt never lies before a byte that a larger number of transmitted buffers ends at.
LEMMA EdgesGrow ==
  ASSUME NEW q, NEW w, Contiguous(q, w), NEW i \in 1..Len(q)+1, NEW j \in 1..Len(q)+1, i <= j
  PROVE  Edge(q, w, i) <= Edge(q, w, j)
BY Zenon DEF Contiguous

\* tcp_send keeps the stream together and the timer running.
LEMMA SendContinues ==
  ASSUME NEW s, SenderInv(s), ClockInv(s), s.state = "ESTABLISHED", s.out = {},
         NEW n \in Nat \ {0}, NEW intact
  PROVE  Continues(s, tcp_send(s, n, intact)) /\ ClockInv(tcp_send(s, n, intact))
<1> DEFINE q == s.write_queue
           w == s.written
           x == s.written + n
<1>1. QueueInv(q, w, s.snd_una, s.snd_nxt, s.inflight)
  BY Zenon DEF SenderInv
<1>2. Contiguous(q, w) /\ s.inflight \in Nat /\ s.inflight <= Len(q) /\ s.snd_nxt \in Nat
  BY Zenon, <1>1 DEF QueueInv
<1>3. Len(q) \in Nat /\ w \in Nat /\ x \in Nat /\ \A i \in 1..Len(q)+1 : Edge(q, w, i) \in Nat
  BY <1>2, QueueTypes
<1>4. PICK b : b = Buffers(s, n)[1]
  BY Zenon
<1>5. PICK t : t = tcp_send(s, n, intact)
  BY Zenon
<1>6. SendResult(s, n, Buffers(s, n), t)
  BY Zenon, <1>5, SendFields
<1>7. PICK r : r = t.write_queue
  BY Zenon
<1>8. /\ Contiguous(r, x) /\ Len(r) > Len(q)
      /\ \A i \in 1..Len(q)+1 : Edge(r, x, i) = Edge(q, w, i)
      /\ \A v : Cut(q, w, v) => Cut(r, x, v)
      /\ \A i \in 1..Len(q) : r[i] = q[i]
      /\ \A i \in Len(q)+2..Len(r) : r[i].seq = 0
      /\ s.inflight # 0 => r[Len(q)+1].seq = 0
      /\ s.inflight = 0 => r[Len(q)+1] = Sent(b, s.snd_nxt)
      /\ r[Len(q)+1].run = b.run
      /\ b \in SkbSet
  BY SMTT(40), <1>4, <1>5, <1>7, SendQueue
<1>9. /\ Len(r) \in Nat /\ \A i \in 1..Len(r)+1 : Edge(r, x, i) \in Nat
      /\ Len(q) + 1 \in 1..Len(r)
  <2>1. Len(r) \in Nat /\ \A i \in 1..Len(r)+1 : Edge(r, x, i) \in Nat
    BY Zenon, <1>8, QueueTypes
  <2> QED BY <1>3, <1>8, <2>1
<1>10. QueueInv(r, x, t.snd_una, t.snd_nxt, t.inflight) /\ t.snd_nxt >= s.snd_nxt
       /\ (s.inflight = 0 => s.snd_nxt = b.run.pos /\ b.run.len >= 1 /\ q = <<>>
                             /\ t.snd_nxt = s.snd_nxt + b.run.len /\ t.inflight = 1)
  <2>1. t.snd_una = s.snd_una /\ t.snd_una >= 1 /\ t.snd_una \in Nat /\ t.snd_una = Edge(r, x, 1)
    <3>1. 1 \in 1..Len(q)+1
      BY SMTT(40), <1>3
    <3> QED BY Zenon, <1>1, <1>6, <1>8, <3>1 DEF SendResult, QueueInv
  <2>2. CASE s.inflight = 0
    <3>1. q = <<>> /\ Len(q) = 0
      BY SMTT(40), <2>2 DEF ClockInv
    <3>2. t.inflight = 1 /\ t.snd_nxt = s.snd_nxt + SeqLen(b)
      BY Zenon, <1>4, <1>6, <2>2 DEF SendResult
    <3>3. SeqLen(b) = b.run.len /\ b.run.len \in Nat /\ b.run.pos \in Nat
      <4>1. b \in SkbSet
        BY Zenon, <1>8
      <4> QED BY Zenon, <4>1, SkbTypes
    <3>4. r[1] = Sent(b, s.snd_nxt) /\ r[1].run = b.run
      BY SMTT(40), <1>8, <2>2, <3>1
    <3>5. r[1].seq = s.snd_nxt /\ r[1].end_seq = s.snd_nxt + b.run.len
      <4>1. b \in SkbSet /\ s.snd_nxt \in Nat
        BY Zenon, <1>2, <1>8
      <4>2. Sent(b, s.snd_nxt).seq = s.snd_nxt /\ Sent(b, s.snd_nxt).end_seq = s.snd_nxt + b.run.len
        BY Zenon, <4>1, SentType
      <4> QED BY Zenon, <3>4, <4>2
    <3>6. Edge(r, x, 1) = b.run.pos /\ Edge(r, x, 2) = b.run.pos + b.run.len /\ b.run.len >= 1
      BY SMTT(40), <1>8, <1>9, <3>1, <3>4 DEF Contiguous, Edge
    <3>7. s.snd_nxt = Edge(q, w, 1) /\ Edge(q, w, 1) = Edge(r, x, 1)
      BY SMTT(40), <1>1, <1>8, <2>2, <3>1 DEF QueueInv
    <3>8. t.inflight <= Len(r) /\ t.snd_nxt = Edge(r, x, t.inflight + 1) /\ t.snd_nxt \in Nat
      BY SMTT(40), <1>2, <1>9, <3>1, <3>2, <3>3, <3>6, <3>7
    <3>9. \A i \in 1..t.inflight : r[i].seq = r[i].run.pos
                                   /\ r[i].end_seq = r[i].run.pos + r[i].run.len
      BY SMTT(40), <3>2, <3>4, <3>5, <3>6, <3>7
    <3>10. \A i \in 1..Len(r) : i > t.inflight => r[i].seq = 0
      BY SMTT(40), <1>8, <1>9, <3>1, <3>2
    <3>11. QueueInv(r, x, t.snd_una, t.snd_nxt, t.inflight)
      <4>1. t.inflight \in Nat
        BY <3>2
      <4> QED BY Zenon, <1>8, <2>1, <3>8, <3>9, <3>10, <4>1 DEF QueueInv
    <3>12. t.snd_nxt = s.snd_nxt + b.run.len
      BY Zenon, <3>2, <3>3
    <3>13. t.snd_nxt >= s.snd_nxt
      BY <1>2, <3>3, <3>12
    <3>14. s.snd_nxt = b.run.pos
      BY Zenon, <3>6, <3>7
    <3> QED BY Zenon, <3>1, <3>2, <3>6, <3>11, <3>12, <3>13, <3>14
  <2>3. CASE s.inflight # 0
    <3>1. t.inflight = s.inflight /\ t.snd_nxt = s.snd_nxt
      BY ZenonT(40), <1>6, <2>3 DEF SendResult
    <3>2. s.inflight + 1 \in 1..Len(q)+1
      BY SMTT(40), <1>2, <1>3
    <3>3. t.snd_nxt = Edge(r, x, t.inflight + 1) /\ t.inflight <= Len(r)
      <4>1. s.snd_nxt = Edge(q, w, s.inflight + 1) /\ Len(r) > Len(q)
            /\ Edge(r, x, s.inflight + 1) = Edge(q, w, s.inflight + 1)
        BY Zenon, <1>1, <1>8, <3>2 DEF QueueInv
      <4>2. s.inflight <= Len(r)
        BY <1>2, <1>3, <1>9, <4>1
      <4> QED BY Zenon, <3>1, <4>1, <4>2
    <3>4. \A i \in 1..t.inflight : r[i].seq = r[i].run.pos
                                   /\ r[i].end_seq = r[i].run.pos + r[i].run.len
      <4>1. \A i \in 1..t.inflight : i \in 1..Len(q)
        BY <1>2, <1>3, <3>1
      <4>2. \A i \in 1..s.inflight : q[i].seq = q[i].run.pos
                                     /\ q[i].end_seq = q[i].run.pos + q[i].run.len
        BY Zenon, <1>1 DEF QueueInv
      <4>3. \A i \in 1..Len(q) : r[i] = q[i]
        BY Zenon, <1>8
      <4> QED BY ZenonT(40), <3>1, <4>1, <4>2, <4>3
    <3>5. ASSUME NEW i \in 1..Len(r), i > t.inflight PROVE r[i].seq = 0
      <4>1. CASE i \in 1..Len(q)
        BY Zenon, <1>1, <1>8, <3>1, <3>5, <4>1 DEF QueueInv
      <4>2. CASE i = Len(q) + 1
        BY Zenon, <1>8, <2>3, <4>2
      <4>3. CASE i \in Len(q)+2..Len(r)
        BY Zenon, <1>8, <4>3
      <4> QED BY SMTT(40), <1>3, <1>9, <4>1, <4>2, <4>3
    <3>6. t.inflight \in Nat /\ t.snd_nxt \in Nat
      BY Zenon, <1>2, <3>1
    <3>7. t.snd_nxt >= s.snd_nxt
      BY <1>2, <3>1
    <3> QED BY Zenon, <1>8, <2>1, <2>3, <3>3, <3>4, <3>5, <3>6, <3>7 DEF QueueInv
  <2> QED BY Zenon, <2>2, <2>3
<1>11. t.written = x /\ t.state = "ESTABLISHED"
  BY Zenon, <1>6 DEF SendResult
<1>12. SenderInv(t)
  <2>1. /\ IsSock(t) /\ t.rcv_nxt = 1 /\ t.ofo_queue = <<>> /\ t.receive_queue = <<>>
        /\ t.fec = FALSE /\ t.closed = FALSE /\ t.linger = "user" /\ t.delacks \in Nat
        /\ t.enc = <<>>
    BY Zenon, <1>6 DEF SendResult, SenderInv
  <2>2. t.rto \in BOOLEAN
    BY ZenonT(40), <1>6 DEF SendResult, SenderInv
  <2>3. t.strays \in 0..MaxStrays
    <3>1. s.strays \in 0..MaxStrays
          /\ (t.strays = MinOf(s.strays + 1, MaxStrays) \/ t.strays = s.strays)
      BY Zenon, <1>6 DEF SendResult, SenderInv
    <3> QED BY <3>1, StraysAssumption DEF MinOf
  <2> QED BY Zenon, <1>7, <1>10, <1>11, <2>1, <2>2, <2>3 DEF SenderInv
<1>13. ASSUME NEW v, Ackable(s, v) PROVE Ackable(t, v)
  <2>1. Cut(q, w, v) /\ v <= s.snd_nxt /\ v \in Nat
    BY Zenon, <1>13 DEF Ackable, Cut
  <2>2. t.snd_nxt \in Nat
    BY Zenon, <1>10 DEF QueueInv
  <2>3. v <= t.snd_nxt
    BY <1>2, <1>10, <2>1, <2>2
  <2> QED BY Zenon, <1>7, <1>8, <1>11, <2>1, <2>3 DEF Ackable
<1>14. DataInv(t, t.out)
  <2>1. CASE s.inflight = 0
    <3>1. t.out = {Segment(s.snd_nxt, s.rcv_nxt, b.run, b.psh, b.fin, FALSE, b.tag)}
      BY Zenon, <1>4, <1>6, <2>1 DEF SendResult
    <3>2. PICK m : m = Segment(s.snd_nxt, s.rcv_nxt, b.run, b.psh, b.fin, FALSE, b.tag)
      BY Zenon
    <3>3. m.seq = s.snd_nxt /\ m.run = b.run
      BY Zenon, <3>2 DEF Segment
    <3>4. m \in SegSet
      <4>1. b.run \in RunSet /\ b.psh \in BOOLEAN /\ b.fin \in {FALSE} /\ b.tag \in {NoTag}
        BY ZenonT(40), <1>8 DEF SkbSet
      <4>2. s.rcv_nxt \in Nat
        BY SMTT(40) DEF SenderInv
      <4> QED BY Zenon, <1>2, <3>2, <4>1, <4>2 DEF Segment, SegSet
    <3>5. s.snd_nxt + b.run.len = Edge(r, x, 2) /\ s.snd_nxt >= 1
      <4>1. Edge(r, x, t.inflight + 1) = t.snd_nxt
        BY Zenon, <1>10 DEF QueueInv
      <4>2. s.snd_nxt = s.snd_una
        BY SMTT(40), <1>1, <2>1 DEF QueueInv
      <4>3. s.snd_una >= 1
        BY Zenon, <1>1 DEF QueueInv
      <4> QED BY SMTT(40), <1>10, <2>1, <4>1, <4>2, <4>3
    <3>6. Ackable(t, s.snd_nxt + b.run.len)
      <4>1. 2 \in 1..Len(r)+1
        BY SMTT(40), <1>9
      <4>2. Edge(r, x, 1) >= 1
        BY Zenon, <1>10 DEF QueueInv
      <4>3. Cut(r, x, Edge(r, x, 2))
        BY Zenon, <1>8, <4>1, <4>2, EdgeIsCut
      <4>4. s.snd_nxt + b.run.len <= t.snd_nxt
        BY SMTT(40), <1>2, <1>8, <1>10, <2>1 DEF QueueInv
      <4> QED BY Zenon, <1>7, <1>11, <3>5, <4>3, <4>4 DEF Ackable
    <3>7. Piece(t, m.seq, m.run)
      BY Zenon, <1>10, <2>1, <3>3, <3>5, <3>6 DEF Piece
    <3> QED BY Zenon, <3>1, <3>2, <3>4, <3>7 DEF DataInv
  <2>2. CASE s.inflight # 0
    BY Zenon, <1>6, <2>2 DEF SendResult, DataInv
  <2> QED BY Zenon, <2>1, <2>2
<1>15. ClockInv(t)
  <2>1. t.inflight > 0
    <3>1. s.inflight # 0 => t.inflight = s.inflight
      BY ZenonT(40), <1>6 DEF SendResult
    <3>2. s.inflight = 0 => t.inflight = 1
      BY Zenon, <1>6 DEF SendResult
    <3> QED BY <1>2, <3>1, <3>2
  <2>2. t.rto \/ t.strays > 0
    <3>1. CASE q = <<>>
      BY Zenon, <1>6, <3>1 DEF SendResult
    <3>2. CASE q # <<>>
      <4>1. s.rto \/ s.strays > 0
        BY Zenon, <3>2 DEF ClockInv
      <4> QED BY Zenon, <1>6, <3>2, <4>1 DEF SendResult
    <3> QED BY Zenon, <3>1, <3>2
  <2> QED BY Zenon, <2>1, <2>2 DEF ClockInv
<1> QED BY Zenon, <1>5, <1>12, <1>13, <1>14, <1>15 DEF Continues

\* An ACK of new data: what is left is again the stream from snd_una on, and the timer
\* is stopped only when nothing is in flight (tcp_clean_rto_queue).
LEMMA CleanContinues ==
  ASSUME NEW s, SenderInv(s), NEW ack, Ackable(s, ack), s.snd_una < ack, ack <= s.snd_nxt,
         NEW t, t = tcp_clean_rto_queue([s EXCEPT !.snd_una = ack], ack)
  PROVE  /\ SenderInv(t) /\ \A v : Ackable(s, v) => Ackable(t, v)
         /\ t.out = s.out /\ t.state = s.state
         /\ t.write_queue # <<>> /\ t.inflight > 0 => t.rto = s.rto /\ t.strays = s.strays
<1> DEFINE q == s.write_queue
           w == s.written
<1>1. QueueInv(q, w, s.snd_una, s.snd_nxt, s.inflight) /\ IsSock(s)
  BY Zenon DEF SenderInv
<1>2. Cut(q, w, ack)
  BY Zenon DEF Ackable
<1>3. PICK c : c = Cleaned(q, ack)
  BY Zenon
<1>4. c \in 0..s.inflight /\ Edge(q, w, c + 1) = ack
  BY <1>1, <1>2, <1>3, CleanedUpTo
<1>5. PICK d : d = SubSeq(q, c + 1, Len(q))
  BY Zenon
<1>6. QueueInv(d, w, ack, s.snd_nxt, s.inflight - c) /\ \A v : Cut(q, w, v) => Cut(d, w, v)
  BY Zenon, <1>1, <1>4, <1>5, DropKeeps
<1>7. s.inflight \in Nat /\ s.inflight >= c /\ c \in Nat
  BY <1>1, <1>4 DEF QueueInv
<1>8. PICK a : a = [s EXCEPT !.snd_una = ack]
  BY Zenon
<1>9. /\ IsSock(a) /\ a.snd_una = ack
      /\ \A f \in SockFields \ {"snd_una"} : a[f] = s[f]
  BY <1>1, <1>8 DEF IsSock, SockFields
<1>10. PICK u : u = [a EXCEPT !.write_queue = d, !.inflight = IF @ >= c THEN @ - c ELSE 0]
  BY Zenon
<1>11. /\ IsSock(u) /\ u.write_queue = d /\ u.inflight = s.inflight - c
       /\ \A f \in SockFields \ {"write_queue", "inflight"} : u[f] = a[f]
  <2>1. a.inflight = s.inflight
    BY Zenon, <1>9 DEF SockFields
  <2> QED BY ZenonT(40), <1>7, <1>9, <1>10, <2>1 DEF IsSock, SockFields
<1>12. t = IF u.write_queue = <<>> \/ u.inflight = 0 THEN tcp_stop_rto_timer(u) ELSE u
  <2>1. a.write_queue = q
    BY Zenon, <1>9 DEF SockFields
  <2> QED BY <1>3, <1>5, <1>8, <1>10, <2>1 DEF tcp_clean_rto_queue
<1>13. /\ IsSock(t) /\ (t.rto = FALSE \/ t.rto = u.rto)
       /\ \A f \in SockFields \ {"rto"} : t[f] = u[f]
       /\ t.write_queue # <<>> /\ t.inflight > 0 => t = u
  BY SMTT(40), <1>6, <1>11, <1>12 DEF IsSock, SockFields, tcp_stop_rto_timer, QueueInv
<1>14. /\ t.write_queue = d /\ t.inflight = s.inflight - c /\ t.snd_una = ack
       /\ t.written = w /\ t.snd_nxt = s.snd_nxt /\ t.state = s.state /\ t.out = s.out
       /\ t.rcv_nxt = s.rcv_nxt /\ t.ofo_queue = s.ofo_queue
       /\ t.receive_queue = s.receive_queue /\ t.fec = s.fec /\ t.closed = s.closed
       /\ t.linger = s.linger /\ t.strays = s.strays /\ t.delacks = s.delacks
       /\ t.enc = s.enc /\ u.rto = s.rto
  BY <1>9, <1>11, <1>13 DEF SockFields
<1>15. t.rto \in BOOLEAN
  BY Zenon, <1>13, <1>14 DEF SenderInv
<1>16. SenderInv(t)
  BY Zenon, <1>6, <1>13, <1>14, <1>15 DEF SenderInv
<1>17. ASSUME NEW v, Ackable(s, v) PROVE Ackable(t, v)
  BY Zenon, <1>6, <1>14, <1>17 DEF Ackable
<1>18. t.write_queue # <<>> /\ t.inflight > 0 => t.rto = s.rto /\ t.strays = s.strays
  BY Zenon, <1>13, <1>14
<1> QED BY Zenon, <1>14, <1>16, <1>17, <1>18

\* A buffer of the queue, sent at its own place, is a piece of the stream.
LEMMA BufferPiece ==
  ASSUME NEW t, SenderInv(t), NEW i \in 1..Len(t.write_queue),
         t.state = "ESTABLISHED" => i <= t.inflight,
         NEW seq, seq = Edge(t.write_queue, t.written, i), NEW ack \in Nat
  PROVE  LET skb == t.write_queue[i]
             m   == Segment(seq, ack, skb.run, skb.psh, skb.fin, FALSE, skb.tag)
         IN  m \in SegSet /\ Piece(t, m.seq, m.run)
<1> DEFINE q == t.write_queue
           w == t.written
<1>1. QueueInv(q, w, t.snd_una, t.snd_nxt, t.inflight) /\ Contiguous(q, w)
  BY Zenon DEF SenderInv, QueueInv
<1>2. /\ Len(q) \in Nat /\ q[i] \in SkbSet /\ Edge(q, w, i) = q[i].run.pos
      /\ \A j \in 1..Len(q)+1 : Edge(q, w, j) \in Nat
  BY Zenon, <1>1, QueueTypes
<1>3. /\ q[i].run \in RunSet /\ q[i].psh \in BOOLEAN /\ q[i].fin = FALSE /\ q[i].tag = NoTag
      /\ q[i].run.pos \in Nat /\ q[i].run.len \in Nat
  BY Zenon, <1>2, SkbTypes
<1>4. PICK m : m = Segment(seq, ack, q[i].run, q[i].psh, q[i].fin, FALSE, q[i].tag)
  BY ZenonT(40)
<1>5. m.seq = seq /\ m.run = q[i].run
  BY Zenon, <1>4 DEF Segment
<1>6. m \in SegSet
  <2>1. seq \in Nat
    BY Zenon, <1>2, <1>3
  <2> QED BY Zenon, <1>3, <1>4, <2>1 DEF Segment, SegSet
<1>7. i \in 1..Len(q)+1 /\ i + 1 \in 1..Len(q)+1 /\ 1 \in 1..Len(q)+1 /\ 1 <= i
  BY SMTT(40), <1>2
<1>8. seq >= 1
  <2>1. Edge(q, w, 1) <= Edge(q, w, i) /\ Edge(q, w, 1) >= 1
    BY Zenon, <1>1, <1>7, EdgesGrow DEF QueueInv
  <2> QED BY SMTT(40), <1>2, <1>7, <2>1
<1>9. q[i].run.len >= 1 /\ seq + q[i].run.len = Edge(q, w, i + 1)
  BY Zenon, <1>1, <1>2 DEF Contiguous
<1>10. Cut(q, w, Edge(q, w, i + 1))
  <2>1. Edge(q, w, 1) >= 1
    BY Zenon, <1>1 DEF QueueInv
  <2> QED BY Zenon, <1>1, <1>7, <2>1, EdgeIsCut
<1>11. ASSUME t.state = "ESTABLISHED" PROVE Edge(q, w, i + 1) <= t.snd_nxt
  <2>1. t.inflight \in Nat /\ t.inflight <= Len(q) /\ t.snd_nxt = Edge(q, w, t.inflight + 1)
    BY Zenon, <1>1 DEF QueueInv
  <2>2. t.inflight + 1 \in 1..Len(q)+1 /\ i + 1 <= t.inflight + 1
    BY SMTT(40), <1>2, <1>11, <2>1
  <2> QED BY Zenon, <1>1, <1>7, <2>1, <2>2, EdgesGrow
<1>12. Ackable(t, seq + q[i].run.len)
  BY Zenon, <1>9, <1>10, <1>11 DEF Ackable
<1>13. Piece(t, m.seq, m.run)
  BY Zenon, <1>2, <1>5, <1>8, <1>9, <1>12 DEF Piece
<1> QED BY Zenon, <1>4, <1>6, <1>13

\* tcp_send_next sends each buffer at its own place in the stream.
LEMMA SendNextPlaces ==
  ASSUME NEW s, SenderInv(s), s.inflight = 0, NEW n \in 1..3, n <= Len(s.write_queue),
         NEW i \in 1..n
  PROVE  /\ s.snd_nxt + SendOffset(s.write_queue, i) = Edge(s.write_queue, s.written, i)
         /\ Edge(s.write_queue, s.written, i) + SeqLen(s.write_queue[i])
              = Edge(s.write_queue, s.written, i + 1)
<1> DEFINE q == s.write_queue
           w == s.written
<1>1. Contiguous(q, w) /\ s.snd_nxt = Edge(q, w, 1)
  BY SMTT(40) DEF SenderInv, QueueInv
<1>2. /\ Len(q) \in Nat
      /\ \A j \in 1..Len(q) : q[j] \in SkbSet /\ Edge(q, w, j) = q[j].run.pos
      /\ \A j \in 1..Len(q)+1 : Edge(q, w, j) \in Nat
  BY SMTT(40), <1>1, QueueTypes
<1>3. ASSUME NEW j \in 1..Len(q)
      PROVE  SeqLen(q[j]) \in Nat /\ Edge(q, w, j) + SeqLen(q[j]) = Edge(q, w, j + 1)
  <2>1. SeqLen(q[j]) = q[j].run.len /\ q[j].run.len \in Nat
    BY ZenonT(40), <1>2, SkbTypes
  <2> QED BY Zenon, <1>1, <1>2, <2>1 DEF Contiguous
<1>4. i \in 1..Len(q) /\ 1 \in 1..Len(q) /\ 1 \in 1..Len(q)+1
  BY SMTT(40), <1>2
<1>5. s.snd_nxt \in Nat
  BY Zenon, <1>1, <1>2, <1>4
<1>6. CASE i = 1
  BY SMTT(40), <1>1, <1>3, <1>4, <1>5, <1>6 DEF SendOffset
<1>7. CASE i = 2
  <2>1. Edge(q, w, 1) + SeqLen(q[1]) = Edge(q, w, 2)
    BY SMTT(40), <1>3, <1>4
  <2> QED BY SMTT(40), <1>1, <1>3, <1>4, <1>7, <2>1 DEF SendOffset
<1>8. CASE i = 3
  <2>1. 2 \in 1..Len(q)
    BY SMTT(40), <1>2, <1>4, <1>8
  <2>2. Edge(q, w, 1) + SeqLen(q[1]) = Edge(q, w, 2) /\ SeqLen(q[1]) \in Nat
    BY SMTT(40), <1>3, <1>4
  <2>3. Edge(q, w, 2) + SeqLen(q[2]) = Edge(q, w, 3) /\ SeqLen(q[2]) \in Nat
    BY SMTT(40), <1>3, <2>1
  <2>4. s.snd_nxt + (SeqLen(q[1]) + SeqLen(q[2])) = Edge(q, w, 3)
    BY SMTT(40), <1>1, <1>5, <2>2, <2>3
  <2> QED BY SMTT(40), <1>3, <1>4, <1>8, <2>4 DEF SendOffset
<1> QED BY SMTT(40), <1>6, <1>7, <1>8

\* When the window is empty again, the next buffers go out and the timer is armed
\* (tcp_send_next and tcp_rearm_rto_timer in tcp_input_state).
LEMMA SendNextContinues ==
  ASSUME NEW s, SenderInv(s), s.inflight = 0, s.out = {},
         NEW n \in 1..3, n <= Len(s.write_queue),
         NEW t, t = tcp_rearm_rto_timer([tcp_send_next(s, n) EXCEPT !.inflight = n])
  PROVE  Continues(s, t) /\ ClockInv(t) /\ t.state = s.state
<1> DEFINE q == s.write_queue
           w == s.written
           at(i) == s.snd_nxt + SendOffset(q, i)
<1>1. QueueInv(q, w, s.snd_una, s.snd_nxt, s.inflight) /\ IsSock(s) /\ Contiguous(q, w)
  BY Zenon DEF SenderInv, QueueInv
<1>2. /\ q \in Seq(SkbSet) /\ Len(q) \in Nat
      /\ \A j \in 1..Len(q) : q[j] \in SkbSet /\ Edge(q, w, j) = q[j].run.pos
      /\ \A j \in 1..Len(q)+1 : Edge(q, w, j) \in Nat
  BY <1>1, QueueTypes
<1>3. \A i \in 1..n : i \in 1..Len(q) /\ i \in 1..Len(q)+1 /\ n \in 1..n /\ n + 1 \in 1..Len(q)+1
  BY SMTT(40), <1>2
<1>4. \A i \in 1..n : at(i) = Edge(q, w, i) /\ at(i) \in Nat
  <2>1. \A i \in 1..n : at(i) = Edge(q, w, i)
    BY SendNextPlaces
  <2> QED BY Zenon, <1>2, <1>3, <2>1
<1>5. PICK r : r = [i \in DOMAIN q |-> IF i <= n THEN Sent(q[i], at(i)) ELSE q[i]]
  BY Zenon
<1>6. PICK o : o = {Segment(at(i), s.rcv_nxt, q[i].run, q[i].psh, q[i].fin, FALSE, q[i].tag)
                      : i \in 1..n}
  BY ZenonT(40)
<1>7. /\ DOMAIN q = 1..Len(q) /\ DOMAIN r = 1..Len(q)
      /\ \A i \in 1..Len(q) : r[i] = IF i <= n THEN Sent(q[i], at(i)) ELSE q[i]
  BY <1>2, <1>5
<1>8. \A i \in 1..n : /\ r[i] \in SkbSet /\ r[i].run = q[i].run /\ r[i].seq = at(i)
                      /\ r[i].end_seq = at(i) + q[i].run.len
                      /\ r[i].psh = q[i].psh /\ r[i].fin = q[i].fin /\ r[i].tag = q[i].tag
  <2> SUFFICES ASSUME NEW i \in 1..n
               PROVE  /\ r[i] \in SkbSet /\ r[i].run = q[i].run /\ r[i].seq = at(i)
                      /\ r[i].end_seq = at(i) + q[i].run.len
                      /\ r[i].psh = q[i].psh /\ r[i].fin = q[i].fin /\ r[i].tag = q[i].tag
    BY Zenon
  <2>1. PICK a : a = at(i)
    BY Zenon
  <2>2. q[i] \in SkbSet /\ a \in Nat
    BY Zenon, <1>2, <1>3, <1>4, <2>1
  <2>3. r[i] = Sent(q[i], a)
    BY <1>3, <1>7, <2>1
  <2>4. q[i].fin = FALSE /\ q[i].tag = NoTag
    BY Zenon, <2>2, SkbTypes
  <2>5. PICK x : x = Sent(q[i], a)
    BY Zenon
  <2>6. /\ x \in SkbSet /\ x.run = q[i].run /\ x.psh = q[i].psh /\ x.fin = FALSE
        /\ x.tag = NoTag /\ x.seq = a /\ x.end_seq = a + q[i].run.len
    BY Zenon, <2>2, <2>5, SentType
  <2> QED BY Zenon, <2>1, <2>3, <2>4, <2>5, <2>6
<1>9. \A i \in 1..Len(q) : r[i] \in SkbSet /\ r[i].run = q[i].run
  <2>1. \A i \in 1..Len(q) : i \in 1..n \/ (~(i <= n) /\ r[i] = q[i])
    BY <1>2, <1>7
  <2> QED BY Zenon, <1>2, <1>8, <2>1
<1>10. r \in Seq(SkbSet) /\ Len(r) = Len(q)
  <2>1. PICK l \in Nat : l = Len(q)
    BY Zenon, <1>2
  <2>2. r = [i \in 1..l |-> r[i]] /\ \A i \in 1..l : r[i] \in SkbSet
    BY Zenon, <1>5, <1>7, <1>9, <2>1
  <2>3. r \in Seq(SkbSet) /\ Len(r) = l
    BY <2>2
  <2> QED BY Zenon, <2>1, <2>3
<1>11. /\ Contiguous(r, w) /\ \A i \in 1..Len(q)+1 : Edge(r, w, i) = Edge(q, w, i)
       /\ \A v : Cut(q, w, v) => Cut(r, w, v)
  BY <1>1, <1>9, <1>10, SameRuns
<1>12. PICK u : u = tcp_send_next(s, n)
  BY Zenon
<1>13. /\ IsSock(u) /\ u.write_queue = r /\ u.snd_nxt = Edge(q, w, n + 1) /\ u.out = o
       /\ \A f \in SockFields \ {"write_queue", "snd_nxt", "out"} : u[f] = s[f]
  <2>1. at(n) + SeqLen(q[n]) = Edge(q, w, n + 1)
    BY SMTT(40), <1>3, <1>4, SendNextPlaces
  <2>2. u = [s EXCEPT !.write_queue = r, !.snd_nxt = at(n) + SeqLen(q[n]), !.out = @ \union o]
    BY Zenon, <1>5, <1>6, <1>12 DEF tcp_send_next
  <2> QED BY ZenonT(40), <1>1, <2>1, <2>2 DEF IsSock, SockFields
<1>14. PICK v : v = [u EXCEPT !.inflight = n]
  BY Zenon
<1>15. IsSock(v) /\ v.inflight = n /\ \A f \in SockFields \ {"inflight"} : v[f] = u[f]
  BY Zenon, <1>13, <1>14 DEF IsSock, SockFields
<1>16. t = tcp_rearm_rto_timer(v)
  BY Zenon, <1>12, <1>14
<1>17. /\ IsSock(t) /\ t.rto = TRUE
       /\ t.strays = (IF v.rto THEN MinOf(v.strays + 1, MaxStrays) ELSE v.strays)
       /\ \A f \in SockFields \ {"rto", "strays"} : t[f] = v[f]
  BY ZenonT(40), <1>15, <1>16 DEF IsSock, SockFields, tcp_rearm_rto_timer, tcp_release_rto_timer
<1>18. /\ t.write_queue = r /\ t.inflight = n /\ t.snd_una = s.snd_una
       /\ t.written = w /\ t.snd_nxt = Edge(q, w, n + 1) /\ t.state = s.state /\ t.out = o
       /\ t.rcv_nxt = s.rcv_nxt /\ t.ofo_queue = s.ofo_queue
       /\ t.receive_queue = s.receive_queue /\ t.fec = s.fec /\ t.closed = s.closed
       /\ t.linger = s.linger /\ t.delacks = s.delacks
       /\ t.enc = s.enc /\ v.rto = s.rto /\ v.strays = s.strays
  BY <1>13, <1>15, <1>17 DEF SockFields
<1>19. t.strays \in 0..MaxStrays
  BY <1>17, <1>18, StraysAssumption DEF SenderInv, MinOf
<1>20. QueueInv(r, w, s.snd_una, t.snd_nxt, n)
  <2>1. /\ s.snd_una \in Nat /\ s.snd_una >= 1 /\ s.snd_una = Edge(r, w, 1)
        /\ t.snd_nxt \in Nat /\ t.snd_nxt = Edge(r, w, n + 1)
    BY SMTT(40), <1>1, <1>2, <1>3, <1>11, <1>18 DEF QueueInv
  <2>2. ASSUME NEW i \in 1..n
        PROVE  r[i].seq = r[i].run.pos /\ r[i].end_seq = r[i].run.pos + r[i].run.len
    <3>1. PICK a : a = at(i)
      BY Zenon
    <3>2. r[i].seq = a /\ r[i].end_seq = a + q[i].run.len /\ r[i].run = q[i].run
      BY Zenon, <1>8, <3>1
    <3>3. a = q[i].run.pos
      BY Zenon, <1>2, <1>3, <1>4, <3>1
    <3> QED BY Zenon, <3>2, <3>3
  <2>3. ASSUME NEW i \in 1..Len(r), i > n PROVE r[i].seq = 0
    <3>1. r[i] = q[i] /\ i > s.inflight
      BY <1>7, <1>10, <2>3
    <3> QED BY Zenon, <1>1, <1>10, <3>1 DEF QueueInv
  <2> QED BY SMTT(40), <1>10, <1>11, <2>1, <2>2, <2>3 DEF QueueInv
<1>21. SenderInv(t)
  BY Zenon, <1>17, <1>18, <1>19, <1>20 DEF SenderInv
<1>22. ASSUME NEW x, Ackable(s, x) PROVE Ackable(t, x)
  <2>1. Cut(q, w, x) /\ (s.state = "ESTABLISHED" => x <= s.snd_nxt) /\ x \in Nat
    BY Zenon, <1>22 DEF Ackable, Cut
  <2>2. s.snd_nxt = Edge(q, w, 1) /\ 1 \in 1..Len(q)+1 /\ 1 <= n + 1
    BY <1>1, <1>2 DEF QueueInv
  <2>3. Edge(q, w, 1) <= Edge(q, w, n + 1)
    BY <1>1, <1>3, <2>2, EdgesGrow
  <2>4. s.snd_nxt <= t.snd_nxt /\ s.snd_nxt \in Nat /\ t.snd_nxt \in Nat
    BY SMTT(40), <1>2, <1>3, <1>18, <2>2, <2>3
  <2> QED BY SMTT(40), <1>11, <1>18, <2>1, <2>4 DEF Ackable
<1>23. DataInv(t, t.out)
  <2> SUFFICES ASSUME NEW m \in t.out
               PROVE  m \in SegSet /\ Piece(t, m.seq, m.run)
    BY Zenon DEF DataInv
  <2>0. PICK i \in 1..n :
          m = Segment(at(i), s.rcv_nxt, q[i].run, q[i].psh, q[i].fin, FALSE, q[i].tag)
    BY ZenonT(40), <1>6, <1>18
  <2>1. PICK a : a = at(i)
    BY Zenon
  <2>2. i \in 1..Len(t.write_queue) /\ i <= t.inflight /\ s.rcv_nxt \in Nat
        /\ a = Edge(t.write_queue, t.written, i)
    BY <1>3, <1>4, <1>10, <1>11, <1>18, <2>1 DEF SenderInv
  <2>3. m = Segment(a, s.rcv_nxt, t.write_queue[i].run, t.write_queue[i].psh,
                    t.write_queue[i].fin, FALSE, t.write_queue[i].tag)
    BY Zenon, <1>8, <1>18, <2>0, <2>1
  <2> QED BY Zenon, <1>21, <2>2, <2>3, BufferPiece
<1>24. ClockInv(t)
  BY <1>17, <1>18 DEF ClockInv
<1> QED BY Zenon, <1>18, <1>21, <1>22, <1>23, <1>24 DEF Continues

\* t differs from s in timers, flags, counters and what it sends, and is no more open.
KeepsStream(s, t) ==
  /\ IsSock(t)
  /\ \A f \in SockFields \ {"state", "rto", "strays", "delack", "delacks", "linger",
                             "fin", "out"} : t[f] = s[f]
  /\ t.state \in {"ESTABLISHED", "CLOSING", "TIME_WAIT"}
  /\ t.state = "ESTABLISHED" => s.state = "ESTABLISHED"
  /\ t.rto \in BOOLEAN
  /\ t.strays \in 0..MaxStrays
  /\ t.delacks \in Nat
  /\ t.linger \in {"user", "none"}

\* Such a step leaves a writing socket one, and splits no buffer.
LEMMA SenderFrame ==
  ASSUME NEW s, SenderInv(s), NEW t, KeepsStream(s, t)
  PROVE  SenderInv(t) /\ \A v : Ackable(s, v) => Ackable(t, v)
<1>1. /\ t.rcv_nxt = s.rcv_nxt /\ t.ofo_queue = s.ofo_queue /\ t.receive_queue = s.receive_queue
      /\ t.fec = s.fec /\ t.closed = s.closed /\ t.enc = s.enc /\ t.write_queue = s.write_queue
      /\ t.written = s.written /\ t.snd_una = s.snd_una /\ t.snd_nxt = s.snd_nxt
      /\ t.inflight = s.inflight
  BY Zenon DEF KeepsStream, SockFields
<1>2. SenderInv(t)
  BY Zenon, <1>1 DEF SenderInv, KeepsStream
<1>3. \A v : Ackable(s, v) => Ackable(t, v)
  BY Zenon, <1>1 DEF Ackable, KeepsStream
<1> QED BY Zenon, <1>2, <1>3

\* An empty segment of the writing socket.
LEMMA SenderAck ==
  ASSUME NEW t, NEW u, SenderInv(u),
         t = {Segment(u.snd_nxt, 1, Nothing, FALSE, FALSE, FALSE, NoTag)}
  PROVE  DataInv(u, t)
<1>1. u.snd_nxt \in Nat
  BY Zenon DEF SenderInv, QueueInv
<1>2. PICK m : m = Segment(u.snd_nxt, 1, Nothing, FALSE, FALSE, FALSE, NoTag)
  BY Zenon
<1>3. m \in SegSet /\ m.psh = FALSE /\ m.run.len = 0
  BY Zenon, <1>1, <1>2 DEF SegSet, RunSet, Segment, Nothing, Run
<1>4. ~(m.psh \/ m.run.len > 0)
  BY <1>3
<1>5. \A x \in t : x = m
  BY Zenon, <1>2
<1> QED BY Zenon, <1>3, <1>4, <1>5 DEF DataInv

\* What may be acknowledged to s and sent by s holds of a socket t that continues it.
LEMMA Monotone ==
  ASSUME NEW s, NEW t, \A v : Ackable(s, v) => Ackable(t, v)
  PROVE  /\ \A M : DataInv(s, M) => DataInv(t, M)
         /\ \A M : AckInv(s, M) => AckInv(t, M)
         /\ \A r : ReaderInv(s, r) => ReaderInv(t, r)
<1>1. \A seq, run : Piece(s, seq, run) => Piece(t, seq, run)
  BY Zenon DEF Piece
<1>2. \A M : DataInv(s, M) => DataInv(t, M)
  BY Zenon, <1>1 DEF DataInv
<1>3. \A M : AckInv(s, M) => AckInv(t, M)
  BY Zenon DEF AckInv
<1>4. \A r : ReaderInv(s, r) => ReaderInv(t, r)
  BY Zenon, <1>1 DEF ReaderInv, Pieces
<1> QED BY Zenon, <1>2, <1>3, <1>4

\* The fields of a segment of a transfer without FEC, FIN and RST.
LEMMA SegTypes ==
  ASSUME NEW m \in SegSet
  PROVE  /\ m.fin = FALSE /\ m.rst = FALSE /\ m.tag = NoTag /\ m.psh \in BOOLEAN
         /\ m.seq \in Nat /\ m.ack \in Nat /\ m.run \in RunSet
         /\ m.run.pos \in Nat /\ m.run.len \in Nat
<1>1. /\ m.fin \in {FALSE} /\ m.rst \in {FALSE} /\ m.tag \in {NoTag} /\ m.psh \in BOOLEAN
      /\ m.seq \in Nat /\ m.ack \in Nat /\ m.run \in RunSet
  BY Zenon DEF SegSet
<1>2. m.fin = FALSE /\ m.rst = FALSE /\ m.tag = NoTag
  BY Zenon, <1>1
<1>3. m.run.pos \in Nat /\ m.run.len \in Nat
  BY Zenon, <1>1 DEF RunSet
<1> QED BY Zenon, <1>1, <1>2, <1>3

------------------------------------------------------------------------------
\* The receive queue and the out-of-order queue.

\* A new piece in the out-of-order queue (tcp_data_insert_ordered).
LEMMA InsertKeeps ==
  ASSUME NEW s, NEW q, Pieces(s, q), NEW seq \in Nat, NEW run \in RunSet, Piece(s, seq, run)
  PROVE  Pieces(s, tcp_data_insert_ordered(q, seq, run))
<1> DEFINE stops == {i \in 1..Len(q) : StopsAt(q, seq, run, i)}
<1>1. q \in Seq(OfoSet) /\ Len(q) \in Nat /\ \A i \in 1..Len(q) : Piece(s, q[i].seq, q[i].run)
  BY DEF Pieces
<1>2. PICK skb : skb = [seq |-> seq, run |-> run]
  BY Zenon
<1>3. skb \in OfoSet /\ Piece(s, skb.seq, skb.run)
  BY Zenon, <1>2 DEF OfoSet
<1>4. CASE stops = {}
  <2>1. PICK r : r = Append(q, skb)
    BY Zenon
  <2>2. tcp_data_insert_ordered(q, seq, run) = r
    BY Zenon, <1>2, <1>4, <2>1 DEF tcp_data_insert_ordered
  <2>3. /\ r \in Seq(OfoSet) /\ Len(r) = Len(q) + 1 /\ r[Len(q)+1] = skb
        /\ \A i \in 1..Len(q) : r[i] = q[i]
    BY SMTT(40), <1>1, <1>3, <2>1
  <2>4. ASSUME NEW i \in 1..Len(r) PROVE Piece(s, r[i].seq, r[i].run)
    <3>1. CASE i \in 1..Len(q)
      BY Zenon, <1>1, <2>3, <3>1
    <3>2. CASE i = Len(q) + 1
      BY Zenon, <1>3, <2>3, <3>2
    <3> QED BY SMTT(40), <1>1, <2>3, <3>1, <3>2
  <2> QED BY Zenon, <2>2, <2>3, <2>4 DEF Pieces
<1>5. CASE stops # {}
  <2>1. stops \subseteq Nat
    BY <1>1
  <2>2. PICK i : i = CHOOSE n \in stops : \A m \in stops : n <= m
    BY Zenon
  <2>3. i \in stops
    <3>1. \E n \in stops : \A m \in stops : n <= m
      <4> HIDE DEF stops
      <4> QED BY Zenon, <1>5, <2>1, LeastNat
    <3> HIDE DEF stops
    <3> QED BY Zenon, <2>2, <3>1
  <2>4. tcp_data_insert_ordered(q, seq, run) =
          IF q[i].seq = seq THEN q
          ELSE SubSeq(q, 1, i - 1) \o <<skb>> \o SubSeq(q, i, Len(q))
    BY <1>2, <1>5, <2>2 DEF tcp_data_insert_ordered
  <2>5. CASE q[i].seq = seq
    BY Zenon, <2>4, <2>5
  <2>6. CASE q[i].seq # seq
    <3>1. i \in 1..Len(q)
      BY Zenon, <2>3
    <3>2. PICK a : a = SubSeq(q, 1, i - 1)
      BY Zenon
    <3>3. PICK b : b = SubSeq(q, i, Len(q))
      BY Zenon
    <3>4. a \in Seq(OfoSet) /\ Len(a) = i - 1 /\ \A j \in 1..i-1 : a[j] = q[j]
      BY SMTT(40), <1>1, <3>1, <3>2
    <3>5. b \in Seq(OfoSet) /\ Len(b) = Len(q) - i + 1 /\ \A j \in 1..Len(q)-i+1 : b[j] = q[i + j - 1]
      BY <1>1, <3>1, <3>3
    <3>6. PICK c : c = a \o <<skb>>
      BY Zenon
    <3>7. c \in Seq(OfoSet) /\ Len(c) = i /\ c[i] = skb /\ \A j \in 1..i-1 : c[j] = q[j]
      BY <1>3, <3>1, <3>4, <3>6
    <3>8. PICK r : r = c \o b
      BY Zenon
    <3>9. /\ r \in Seq(OfoSet) /\ Len(r) = Len(c) + Len(b)
          /\ \A j \in 1..Len(c) : r[j] = c[j]
          /\ \A j \in Len(c)+1..Len(c)+Len(b) : r[j] = b[j - Len(c)]
      <4>1. b \in Seq(OfoSet) /\ c \in Seq(OfoSet)
        BY Zenon, <3>5, <3>7
      <4> QED BY <3>8, <4>1
    <3>10. ASSUME NEW j \in 1..Len(r) PROVE Piece(s, r[j].seq, r[j].run)
      <4>1. CASE j \in 1..i-1
        <5>1. j \in 1..Len(c) /\ j \in 1..Len(q)
          BY SMTT(40), <1>1, <3>1, <3>7, <4>1
        <5> QED BY Zenon, <1>1, <3>7, <3>9, <4>1, <5>1
      <4>2. CASE j = i
        <5>1. j \in 1..Len(c)
          BY SMTT(40), <3>1, <3>7, <4>2
        <5> QED BY Zenon, <1>3, <3>7, <3>9, <4>2, <5>1
      <4>3. CASE j \in i+1..Len(r)
        <5>1. /\ j \in Len(c)+1..Len(c)+Len(b) /\ j - Len(c) \in 1..Len(q)-i+1
              /\ i + (j - Len(c)) - 1 = j - 1 /\ j - 1 \in 1..Len(q)
          BY SMTT(40), <1>1, <3>1, <3>5, <3>7, <3>9, <4>3
        <5>2. r[j] = q[j - 1]
          BY Zenon, <3>5, <3>9, <5>1
        <5> QED BY Zenon, <1>1, <5>1, <5>2
      <4> QED BY SMTT(40), <1>1, <3>1, <3>5, <3>7, <3>9, <4>1, <4>2, <4>3
    <3> QED BY Zenon, <2>4, <2>6, <3>2, <3>3, <3>6, <3>8, <3>9, <3>10 DEF Pieces
  <2> QED BY Zenon, <2>5, <2>6
<1> QED BY Zenon, <1>4, <1>5

\* The loop of tcp_consume_ofo_queue ends after the longest chain.
LEMMA ConsumedIsChain ==
  ASSUME NEW q, Len(q) \in Nat, NEW seq
  PROVE  Consumed(q, seq) \in 0..Len(q) /\ Chains(q, seq, Consumed(q, seq))
<1> DEFINE S == {n \in Nat : Chains(q, seq, n)}
<1>1. 0 \in S
  BY DEF Chains
<1>2. \E n \in 0..Len(q) : n \in S /\ (n < Len(q) => n + 1 \notin S)
  <2> HIDE DEF S
  <2> QED BY Zenon, <1>1, LongestPrefix
<1>3. \E n \in 0..Len(q) : /\ Chains(q, seq, n)
                           /\ n < Len(q) => ~Chains(q, seq, n + 1)
  BY <1>2
<1> QED BY Zenon, <1>3 DEF Consumed

\* A run that begins at nxt continues the receive queue.
LEMMA InSequenceAppend ==
  ASSUME NEW q, NEW nxt, InSequence(q, nxt), NEW run \in RunSet, run.pos = nxt
  PROVE  InSequence(Append(q, run), nxt + run.len)
<1>1. q \in Seq(RunSet) /\ Len(q) \in Nat
  BY DEF InSequence
<1>2. PICK r : r = Append(q, run)
  BY Zenon
<1>3. /\ r \in Seq(RunSet) /\ Len(r) = Len(q) + 1 /\ r[Len(q)+1] = run
      /\ \A i \in 1..Len(q) : r[i] = q[i]
      /\ r # <<>>
  BY <1>1, <1>2
<1>4. ASSUME NEW i \in 1..Len(r)
      PROVE  r[i].pos = (IF i = 1 THEN 1 ELSE r[i-1].pos + r[i-1].len)
  <2>1. CASE i \in 1..Len(q)
    <3>1. i # 1 => i - 1 \in 1..Len(q)
      BY <1>1, <2>1
    <3> QED BY Zenon, <1>3, <2>1, <3>1 DEF InSequence
  <2>2. CASE i = Len(q) + 1 /\ Len(q) = 0
    <3>1. q = <<>>
      BY <1>1, <2>2
    <3> QED BY <1>3, <2>2, <3>1 DEF InSequence
  <2>3. CASE i = Len(q) + 1 /\ Len(q) > 0
    <3>1. q # <<>> /\ i # 1 /\ i - 1 = Len(q) /\ Len(q) \in 1..Len(q)
      BY <1>1, <2>3
    <3> QED BY Zenon, <1>3, <2>3, <3>1 DEF InSequence
  <2> QED BY SMTT(40), <1>1, <1>3, <2>1, <2>2, <2>3
<1>5. nxt + run.len = r[Len(r)].pos + r[Len(r)].len
  BY Zenon, <1>3
<1> QED BY Zenon, <1>2, <1>3, <1>4, <1>5 DEF InSequence

\* tcp_consume_ofo_queue moves the chain that continues the stream.
LEMMA DrainReads ==
  ASSUME NEW s, NEW r, IsSock(r), ReaderInv(s, r), NEW t, t = tcp_consume_ofo_queue(r)
  PROVE  /\ ReaderInv(s, t) /\ IsSock(t)
         /\ \A f \in SockFields \ {"rcv_nxt", "ofo_queue", "receive_queue"} : t[f] = r[f]
<1>1. PICK q : q = r.ofo_queue
  BY Zenon
<1>2. PICK n : n = Consumed(q, r.rcv_nxt)
  BY Zenon
<1>3. q \in Seq(OfoSet) /\ Len(q) \in Nat /\ \A i \in 1..Len(q) : Piece(s, q[i].seq, q[i].run)
  BY <1>1 DEF ReaderInv, Pieces
<1>4. n \in 0..Len(q) /\ n \in Nat /\ Chains(q, r.rcv_nxt, n)
  BY <1>2, <1>3, ConsumedIsChain
<1>5. PICK d : d = [i \in 1..n |-> q[i].run]
  BY Zenon
<1>6. /\ IsSock(t)
      /\ \A f \in SockFields \ {"rcv_nxt", "ofo_queue", "receive_queue"} : t[f] = r[f]
      /\ t.rcv_nxt = (IF n = 0 THEN r.rcv_nxt ELSE End(q[n]))
      /\ t.ofo_queue = SubSeq(q, n + 1, Len(q))
      /\ t.receive_queue = r.receive_queue \o d
  BY ZenonT(40), <1>1, <1>2, <1>5 DEF tcp_consume_ofo_queue, IsSock, SockFields
<1>7. \A i \in 1..n : i \in 1..Len(q) /\ q[i] \in OfoSet
  BY <1>3, <1>4
<1>8. d \in Seq(RunSet) /\ Len(d) = n /\ \A i \in 1..n : d[i] = q[i].run
  BY SMTT(40), <1>4, <1>5, <1>7 DEF OfoSet
<1>9. Pieces(s, t.ofo_queue)
  <2>1. PICK p : p = SubSeq(q, n + 1, Len(q))
    BY Zenon
  <2>2. p \in Seq(OfoSet) /\ Len(p) = Len(q) - n /\ \A i \in 1..Len(q)-n : p[i] = q[n + i]
    BY SMTT(40), <1>3, <1>4, <2>1
  <2>3. ASSUME NEW i \in 1..Len(p) PROVE Piece(s, p[i].seq, p[i].run)
    <3>1. n + i \in 1..Len(q) /\ i \in 1..Len(q)-n
      BY SMTT(40), <1>3, <1>4, <2>2
    <3> QED BY Zenon, <1>3, <2>2, <3>1
  <2> QED BY Zenon, <1>6, <2>1, <2>2, <2>3 DEF Pieces
<1>10. CASE n = 0
  <2>1. d = <<>> /\ r.receive_queue \in Seq(RunSet)
    BY <1>8, <1>10 DEF ReaderInv, InSequence
  <2>2. t.receive_queue = r.receive_queue
    BY SMTT(40), <1>6, <2>1
  <2> QED BY Zenon, <1>6, <1>9, <1>10, <2>2 DEF ReaderInv
<1>11. CASE n > 0
  <2>1. n \in 1..Len(q) /\ n \in 1..n
    BY SMTT(40), <1>4, <1>11
  <2>2. q[n].run.pos = q[n].seq /\ Ackable(s, End(q[n]))
    BY Zenon, <1>3, <2>1 DEF Piece, End
  <2>3. Ackable(s, t.rcv_nxt) /\ t.rcv_nxt = q[n].run.pos + q[n].run.len
    BY <1>4, <1>6, <1>11, <2>2 DEF End
  <2>4. PICK w : w = r.receive_queue
    BY Zenon
  <2>5. w \in Seq(RunSet) /\ Len(w) \in Nat
    BY <2>4 DEF ReaderInv, InSequence
  <2>6. PICK z : z = w \o d
    BY Zenon
  <2>7. /\ z \in Seq(RunSet) /\ Len(z) = Len(w) + n
        /\ \A i \in 1..Len(w) : z[i] = w[i]
        /\ \A i \in Len(w)+1..Len(w)+n : z[i] = d[i - Len(w)]
    <3>1. /\ z \in Seq(RunSet) /\ Len(z) = Len(w) + Len(d)
          /\ \A i \in 1..Len(w) : z[i] = w[i]
          /\ \A i \in Len(w)+1..Len(w)+Len(d) : z[i] = d[i - Len(w)]
      <4>1. d \in Seq(RunSet) /\ w \in Seq(RunSet)
        BY Zenon, <1>8, <2>5
      <4> QED BY <2>6, <4>1
    <3> QED BY Zenon, <1>8, <3>1
  <2>8. \A i \in 1..n : q[i].run.pos = (IF i = 1 THEN r.rcv_nxt
                                        ELSE q[i-1].run.pos + q[i-1].run.len)
    <3> TAKE i \in 1..n
    <3>1. i \in 1..Len(q) /\ (i # 1 => i - 1 \in 1..Len(q))
      BY <1>4
    <3>2. q[i].run.pos = q[i].seq /\ (i # 1 => q[i-1].run.pos = q[i-1].seq)
      BY Zenon, <1>3, <3>1 DEF Piece
    <3> QED BY Zenon, <1>4, <3>2 DEF Chains, End
  <2>9. ASSUME NEW i \in 1..Len(z)
        PROVE  z[i].pos = (IF i = 1 THEN 1 ELSE z[i-1].pos + z[i-1].len)
    <3>1. CASE i \in 1..Len(w)
      <4>1. i # 1 => i - 1 \in 1..Len(w)
        BY <2>5, <3>1
      <4> QED BY ZenonT(40), <2>4, <2>7, <3>1, <4>1 DEF ReaderInv, InSequence
    <3>2. CASE i = Len(w) + 1
      <4>1. /\ i \in Len(w)+1..Len(w)+n /\ i - Len(w) = 1 /\ 1 \in 1..n
        BY SMTT(40), <1>4, <1>11, <2>5, <3>2
      <4>2. z[i].pos = r.rcv_nxt
        BY SMTT(40), <1>8, <2>7, <2>8, <4>1
      <4>3. CASE Len(w) = 0
        <5>1. w = <<>> /\ i = 1
          BY SMTT(40), <2>5, <3>2, <4>3
        <5> QED BY Zenon, <2>4, <4>2, <5>1 DEF ReaderInv, InSequence
      <4>4. CASE Len(w) > 0
        <5>1. w # <<>> /\ i # 1 /\ i - 1 = Len(w) /\ Len(w) \in 1..Len(w)
          BY SMTT(40), <2>5, <3>2, <4>4
        <5>2. z[i-1] = w[Len(w)]
          BY Zenon, <2>7, <5>1
        <5> QED BY Zenon, <2>4, <4>2, <5>1, <5>2 DEF ReaderInv, InSequence
      <4> QED BY <2>5, <4>3, <4>4
    <3>3. CASE i \in Len(w)+2..Len(w)+n
      <4>1. PICK j : j = i - Len(w)
        BY Zenon
      <4>2. /\ i \in Len(w)+1..Len(w)+n /\ i - 1 \in Len(w)+1..Len(w)+n
            /\ j \in 1..n /\ j # 1 /\ j - 1 \in 1..n /\ (i - 1) - Len(w) = j - 1 /\ i # 1
        BY SMTT(40), <1>4, <2>5, <3>3, <4>1
      <4>3. z[i] = q[j].run /\ z[i-1] = q[j-1].run
        BY Zenon, <1>8, <2>7, <4>1, <4>2
      <4> QED BY Zenon, <2>8, <4>2, <4>3
    <3>4. i \in 1..Len(w) \/ i = Len(w) + 1 \/ i \in Len(w)+2..Len(w)+n
      <4>1. Len(z) = Len(w) + n
        BY Zenon, <2>7
      <4> QED BY <1>4, <2>5, <4>1
    <3> QED BY Zenon, <3>1, <3>2, <3>3, <3>4
  <2>10. z # <<>> /\ z[Len(z)] = q[n].run
    <3>1. Len(z) \in Len(w)+1..Len(w)+n /\ Len(z) - Len(w) = n /\ Len(z) > 0
      BY SMTT(40), <1>4, <1>11, <2>5, <2>7
    <3>2. z[Len(z)] = d[n]
      BY Zenon, <2>7, <3>1
    <3>3. z # <<>>
      BY SMTT(40), <3>1
    <3> QED BY Zenon, <1>8, <2>1, <3>2, <3>3
  <2>11. InSequence(t.receive_queue, t.rcv_nxt)
    <3>1. t.receive_queue = z
      BY Zenon, <1>6, <2>4, <2>6
    <3> QED BY Zenon, <2>3, <2>7, <2>9, <2>10, <3>1 DEF InSequence
  <2> QED BY Zenon, <1>6, <1>9, <2>3, <2>11 DEF ReaderInv
<1> QED BY <1>4, <1>6, <1>10, <1>11

\* A piece of the stream reaches tcp_data_queue: the reader's queues stay in order,
\* and what it sends acknowledges a point that splits no buffer of the writer.
LEMMA DataQueueReads ==
  ASSUME NEW s, NEW r, IsSock(r), ReaderInv(s, r), r.out = {}, r.snd_nxt = 1,
         NEW seq \in Nat, NEW run \in RunSet, Piece(s, seq, run),
         NEW t, t = tcp_data_queue(r, seq, run)
  PROVE  /\ ReaderInv(s, t) /\ IsSock(t) /\ AckInv(s, t.out)
         /\ \A f \in SockFields \ {"rcv_nxt", "ofo_queue", "receive_queue", "out"} : t[f] = r[f]
<1>1. CASE seq = r.rcv_nxt
  <2>1. PICK u : u = [r EXCEPT !.rcv_nxt = @ + run.len, !.receive_queue = Append(@, run)]
    BY Zenon
  <2>2. t = tcp_consume_ofo_queue(u)
    BY Zenon, <1>1, <2>1 DEF tcp_data_queue
  <2>3. /\ IsSock(u) /\ u.rcv_nxt = seq + run.len /\ u.ofo_queue = r.ofo_queue
        /\ u.receive_queue = Append(r.receive_queue, run)
        /\ \A f \in SockFields \ {"rcv_nxt", "receive_queue"} : u[f] = r[f]
    BY ZenonT(40), <1>1, <2>1 DEF IsSock, SockFields
  <2>4. run.pos = seq /\ Ackable(s, seq + run.len)
    BY Zenon DEF Piece
  <2>5. InSequence(u.receive_queue, u.rcv_nxt)
    <3>1. InSequence(r.receive_queue, r.rcv_nxt)
      BY Zenon DEF ReaderInv
    <3> QED BY SMTT(40), <1>1, <2>3, <2>4, <3>1, InSequenceAppend
  <2>6. ReaderInv(s, u)
    BY ZenonT(40), <2>3, <2>4, <2>5 DEF ReaderInv
  <2>7. /\ ReaderInv(s, t) /\ IsSock(t)
        /\ \A f \in SockFields \ {"rcv_nxt", "ofo_queue", "receive_queue"} : t[f] = u[f]
    BY SMTT(40), <2>2, <2>3, <2>6, DrainReads
  <2>8. t.out = {}
    BY Zenon, <2>3, <2>7 DEF SockFields
  <2>9. AckInv(s, t.out)
    BY Zenon, <2>8 DEF AckInv
  <2>10. \A f \in SockFields \ {"rcv_nxt", "ofo_queue", "receive_queue", "out"} : t[f] = r[f]
    BY Zenon, <2>3, <2>7
  <2> QED BY Zenon, <2>7, <2>9, <2>10
<1>2. CASE seq # r.rcv_nxt
  <2>1. PICK q : q = tcp_data_insert_ordered(r.ofo_queue, seq, run)
    BY Zenon
  <2>2. Pieces(s, q)
    BY Zenon, <2>1, InsertKeeps DEF ReaderInv
  <2>3. PICK m : m = Segment(1, r.rcv_nxt, Nothing, FALSE, FALSE, FALSE, NoTag)
    BY Zenon
  <2>4. /\ IsSock(t) /\ t.ofo_queue = q /\ t.rcv_nxt = r.rcv_nxt
        /\ t.receive_queue = r.receive_queue /\ t.out = {m}
        /\ \A f \in SockFields \ {"rcv_nxt", "ofo_queue", "receive_queue", "out"} : t[f] = r[f]
    BY ZenonT(40), <1>2, <2>1, <2>3
       DEF tcp_data_queue, tcp_send_ack, tcp_transmit_skb, Skb, IsSock, SockFields
  <2>5. ReaderInv(s, t)
    BY Zenon, <2>2, <2>4 DEF ReaderInv
  <2>6. r.rcv_nxt \in Nat /\ Ackable(s, r.rcv_nxt)
    BY Zenon DEF ReaderInv, Ackable, Cut
  <2>7. m \in SegSet /\ m.seq = 1 /\ m.run = Nothing /\ m.psh = FALSE /\ m.ack = r.rcv_nxt
    BY Zenon, <2>3, <2>6 DEF SegSet, RunSet, Segment, Nothing, Run
  <2>8. AckInv(s, t.out)
    BY Zenon, <2>4, <2>6, <2>7 DEF AckInv
  <2> QED BY Zenon, <2>4, <2>5, <2>8
<1> QED BY Zenon, <1>1, <1>2

==============================================================================
