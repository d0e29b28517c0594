------------------------------ MODULE FecProofs ------------------------------
(***************************************************************************)
(* FEC at the receiver, for every block size, number of repairs and slots, *)
(* and whatever else the two ends do.                                      *)
(***************************************************************************)
EXTENDS MCFec, TcpEndProofs, FiniteSetTheorems

\* What recovery needs to know of a coding tag.
Tagged(tag) ==
  /\ tag.type \in {"none", "source", "repair"}
  /\ tag.type = "source" => tag.block \in Nat /\ tag.index \in Nat
  /\ tag.type = "repair" => tag.block \in Nat /\ tag.k \in 0..K

Tags(M) == \A m \in M : Tagged(m.tag)

\* A slot of the ring: a block with enough symbols has been recovered.
Recoverable(blk) == Cardinality(HeldRepairs(blk)) >= Cardinality(MissingSources(blk))

SlotType(blk) ==
  /\ {"active", "block_id", "recovered", "blk_k", "src", "red"} \subseteq DOMAIN blk
  /\ blk.blk_k \in 0..K /\ blk.block_id \in Nat

SlotInv(blk) == SlotType(blk) /\ (blk.active /\ Recoverable(blk) => blk.recovered)

RxInv(rx) == DOMAIN rx = 1..RxBlocks /\ \A n \in DOMAIN rx : SlotInv(rx[n])

\* The buffers of the write queue, which carry the tags of later segments.
QueueTags(q) ==
  /\ \E S : q \in Seq(S)
  /\ \A i \in 1..Len(q) : "tag" \in DOMAIN q[i] /\ Tagged(q[i].tag)

\* No more symbols are registered than a block has.
EncInv(enc) == (\E S : enc \in Seq(S)) /\ Len(enc) <= K

Has(s) == {"rx", "write_queue", "enc", "out"} \subseteq DOMAIN s

EndInv(s) ==
  Has(s) /\ RxInv(s.rx) /\ QueueTags(s.write_queue) /\ EncInv(s.enc) /\ Tags(s.out)

\* t differs from s in nothing that matters here, but for what it transmits.
Kept(s, t) ==
  /\ Has(t) /\ t.rx = s.rx /\ t.write_queue = s.write_queue /\ t.enc = s.enc
  /\ \A m \in t.out : m \in s.out \/ Tagged(m.tag)

\* The inductive invariant.
FecInv ==
  /\ DOMAIN sk = Ends /\ DOMAIN net = Ends
  /\ \A e \in Ends : EndInv(sk[e]) /\ Tags(net[e])

------------------------------------------------------------------------------
\* What leaves these fields alone keeps the invariant of a socket.
LEMMA KeptInv ==
  ASSUME NEW s, EndInv(s), NEW t, Kept(s, t)
  PROVE  EndInv(t)
BY Zenon DEF EndInv, Kept, Tags

\* What two steps of a handler leave alone.
LEMMA KeptTrans ==
  ASSUME NEW s, NEW t, NEW u, Kept(s, t), Kept(t, u)
  PROVE  Kept(s, u)
BY Zenon DEF Kept

\* A handler that returns early.
LEMMA KeptSelf ==
  ASSUME NEW s, Has(s)
  PROVE  Kept(s, s)
BY Zenon DEF Kept

\* A segment without a coding tag.
LEMMA Untagged == Tagged(NoTag)
BY Zenon DEF Tagged, NoTag

\* tcp_transmit_skb hands a buffer with its tag to the network.
LEMMA TransmitKeeps ==
  ASSUME NEW s, Has(s), NEW skb, Tagged(skb.tag), NEW seq
  PROVE  Kept(s, tcp_transmit_skb(s, skb, seq))
<1> DEFINE m == Segment(seq, s.rcv_nxt, skb.run, skb.psh, skb.fin, FALSE, skb.tag)
           t == [s EXCEPT !.out = @ \union {m}]
<1>1. Tagged(m.tag)
  BY Zenon DEF Segment
<1>2. tcp_transmit_skb(s, skb, seq) = t
  BY Zenon DEF tcp_transmit_skb
<1> HIDE DEF m
<1>3. Has(t) /\ t.rx = s.rx /\ t.write_queue = s.write_queue /\ t.enc = s.enc
      /\ t.out = s.out \union {m}
  BY Zenon DEF Has
<1> HIDE DEF t
<1> QED
  BY Zenon, <1>1, <1>2, <1>3 DEF Kept

\* tcp_send_ack: an acknowledgment carries no tag.
LEMMA AckKeeps ==
  ASSUME NEW s, Has(s)
  PROVE  Kept(s, tcp_send_ack(s))
<1>1. Skb(Nothing, FALSE, FALSE, NoTag).tag = NoTag
  BY Zenon DEF Skb
<1> QED
  BY Zenon, <1>1, Untagged, TransmitKeeps DEF tcp_send_ack

\* tcp_data_queue delivers, or queues and acknowledges.
LEMMA DataQueueKeeps ==
  ASSUME NEW s, Has(s), NEW seq, NEW run
  PROVE  Kept(s, tcp_data_queue(s, seq, run))
<1>1. CASE seq = s.rcv_nxt
  <2> DEFINE u == [s EXCEPT !.rcv_nxt = @ + run.len, !.receive_queue = Append(@, run)]
             v == tcp_consume_ofo_queue(u)
  <2>1. Kept(s, u)
    BY Zenon DEF Kept, Has
  <2>2. ASSUME NEW x, Has(x) PROVE Kept(x, tcp_consume_ofo_queue(x))
    BY Zenon, <2>2 DEF Kept, Has, tcp_consume_ofo_queue
  <2>3. tcp_data_queue(s, seq, run) = v
    BY Zenon, <1>1 DEF tcp_data_queue
  <2> HIDE DEF u
  <2>4. Kept(u, v)
    BY Zenon, <2>1, <2>2 DEF Kept
  <2> QED
    BY Zenon, <2>1, <2>3, <2>4, KeptTrans
<1>2. CASE seq # s.rcv_nxt
  <2> DEFINE u == [s EXCEPT !.ofo_queue = tcp_data_insert_ordered(@, seq, run)]
  <2>1. Kept(s, u)
    BY Zenon DEF Kept, Has
  <2>2. tcp_data_queue(s, seq, run) = tcp_send_ack(u)
    BY Zenon, <1>2 DEF tcp_data_queue
  <2> HIDE DEF u
  <2> QED
    BY SMTT(40), <2>1, <2>2, AckKeeps, KeptTrans DEF Kept
<1> QED
  BY Zenon, <1>1, <1>2

------------------------------------------------------------------------------
\* The loop of tcp_fec_rx_recover that splices the missing symbols.

\* What it does for symbol i - 1.
Round(t, blk, i) == IF i - 1 \in MissingSources(blk) THEN tcp_fec_splice(t, blk, i - 1) ELSE t

\* u[i] is the socket after i of n rounds.
Rounds(u, s, blk, n) == u = [i \in 0..n |-> IF i = 0 THEN s ELSE Round(u[i - 1], blk, i)]

\* The loop is defined: the first number of rounds for which it were not could be
\* reached from the one before.
LEMMA RoundsExist ==
  ASSUME NEW s, NEW blk, NEW n \in Nat
  PROVE  \E u : Rounds(u, s, blk, n)
<1> DEFINE T == {k \in Nat : ~\E u : Rounds(u, s, blk, k)}
<1> SUFFICES ASSUME T # {} PROVE FALSE
  BY Zenon
<1>1. PICK k \in T : \A j \in T : k <= j
  <2>1. T \subseteq Nat
    BY Zenon
  <2> HIDE DEF T
  <2> QED
    BY Zenon, <2>1, LeastNat
<1>2. k \in Nat /\ ~\E u : Rounds(u, s, blk, k)
  BY Zenon
<1>3. k # 0
  <2> DEFINE z == [i \in 0..0 |-> s]
  <2>1. Rounds(z, s, blk, 0)
    <3>1. \A i \in 0..0 : i = 0
      OBVIOUS
    <3> QED
      BY Zenon, <3>1 DEF Rounds
  <2> QED
    BY Zenon, <1>2, <2>1
<1>4. k - 1 \in Nat /\ ~(k <= k - 1)
  BY <1>2, <1>3
<1>5. PICK u : Rounds(u, s, blk, k - 1)
  <2>1. k - 1 \notin T
    BY Zenon, <1>1, <1>4
  <2> QED
    BY Zenon, <1>4, <2>1
<1> DEFINE v == [i \in 0..k |-> IF i = k THEN Round(u[k - 1], blk, k) ELSE u[i]]
<1>6. ASSUME NEW i \in 0..k PROVE v[i] = IF i = 0 THEN s ELSE Round(v[i - 1], blk, i)
  <2>1. i \in 0..k /\ (i = 0 => i # k)
    BY Zenon, <1>3
  <2>2. ASSUME i # k PROVE i \in 0..(k - 1)
    BY <1>2, <2>2
  <2>3. ASSUME i # 0 PROVE i - 1 \in 0..k /\ i - 1 # k
    BY <1>2, <2>3
  <2>4. CASE i = k
    <3>1. v[i] = Round(u[i - 1], blk, i)
      BY Zenon, <2>4
    <3>2. v[i - 1] = u[i - 1]
      BY Zenon, <1>3, <2>3, <2>4
    <3> QED
      BY Zenon, <1>3, <2>4, <3>1, <3>2
  <2>5. CASE i # k
    <3>1. v[i] = u[i]
      BY Zenon, <2>5
    <3>2. u[i] = IF i = 0 THEN s ELSE Round(u[i - 1], blk, i)
      BY Zenon, <1>5, <2>2, <2>5 DEF Rounds
    <3>3. CASE i = 0
      BY Zenon, <3>1, <3>2, <3>3
    <3>4. CASE i # 0
      <4>1. v[i - 1] = u[i - 1]
        BY Zenon, <2>3, <3>4
      <4> QED
        BY Zenon, <3>1, <3>2, <3>4, <4>1
    <3> QED
      BY Zenon, <3>3, <3>4
  <2> QED
    BY Zenon, <2>4, <2>5
<1>7. Rounds(v, s, blk, k)
  <2>1. v = [i \in 0..k |-> v[i]]
    BY Zenon
  <2> HIDE DEF v
  <2> QED
    BY Zenon, <1>6, <2>1 DEF Rounds
<1> QED
  BY Zenon, <1>2, <1>7

\* tcp_fec_rx_recover: splicing the symbols (tcp_fec_splice, tcp_data_queue) touches
\* neither the ring nor what is to be sent, but for acknowledgments.
LEMMA SplicedKeeps ==
  ASSUME NEW s, Has(s), NEW blk, BlockSize(blk) \in Nat
  PROVE  Kept(s, Spliced(s, blk))
<1> DEFINE L == BlockSize(blk)
           u == CHOOSE x : Rounds(x, s, blk, L)
<1>1. Spliced(s, blk) = u[L]
  BY Zenon DEF Spliced, Rounds, Round
<1>2. Rounds(u, s, blk, L)
  BY Zenon, RoundsExist
<1> HIDE DEF L, u
<1>3. ASSUME NEW t, Has(t), NEW i PROVE Kept(t, Round(t, blk, i))
  <2>1. CASE i - 1 \in MissingSources(blk)
    BY Zenon, <1>3, <2>1, DataQueueKeeps DEF Round, tcp_fec_splice
  <2>2. CASE i - 1 \notin MissingSources(blk)
    BY Zenon, <1>3, <2>2, KeptSelf DEF Round
  <2> QED
    BY Zenon, <2>1, <2>2
<1> DEFINE T == {i \in 0..L : ~Kept(s, u[i])}
<1>4. L \in Nat
  BY Zenon DEF L
<1> SUFFICES ASSUME T # {} PROVE FALSE
  BY <1>1, <1>4
<1>5. PICK i \in T : \A j \in T : i <= j
  <2>1. T \subseteq Nat
    BY <1>4
  <2> HIDE DEF T
  <2> QED
    BY Zenon, <2>1, LeastNat
<1>6. i \in 0..L /\ ~Kept(s, u[i])
  BY Zenon
<1>7. i # 0
  <2>1. 0 \in 0..L
    BY <1>4
  <2>2. u[0] = s
    BY Zenon, <1>2, <2>1 DEF Rounds
  <2> QED
    BY Zenon, <1>6, <2>2, KeptSelf
<1>8. i - 1 \in 0..L /\ ~(i <= i - 1)
  BY <1>4, <1>6, <1>7
<1>9. Kept(s, u[i - 1])
  BY Zenon, <1>5, <1>8
<1>10. u[i] = Round(u[i - 1], blk, i)
  BY Zenon, <1>2, <1>6, <1>7 DEF Rounds
<1>11. Kept(u[i - 1], u[i])
  <2>1. Has(u[i - 1])
    BY Zenon, <1>9 DEF Kept
  <2> QED
    BY Zenon, <1>3, <1>10, <2>1
<1> QED
  BY Zenon, <1>6, <1>9, <1>11, KeptTrans

------------------------------------------------------------------------------
\* The ring.

\* A slot of the ring is replaced.
LEMMA SlotSet ==
  ASSUME NEW s, EndInv(s), NEW n, NEW b, SlotInv(b)
  PROVE  EndInv([s EXCEPT !.rx[n] = b])
<1>1. PICK t : t = [s EXCEPT !.rx[n] = b]
  BY Zenon
<1>2. Has(t) /\ t.write_queue = s.write_queue /\ t.enc = s.enc /\ t.out = s.out
      /\ t.rx = [s.rx EXCEPT ![n] = b]
  BY Zenon, <1>1 DEF EndInv, Has
<1>3. RxInv(t.rx)
  <2>1. DOMAIN t.rx = DOMAIN s.rx /\ \A i \in DOMAIN s.rx : t.rx[i] = IF i = n THEN b ELSE s.rx[i]
    BY Zenon, <1>2
  <2> QED
    BY Zenon, <2>1 DEF EndInv, RxInv
<1>4. EndInv(t)
  BY Zenon, <1>2, <1>3 DEF EndInv
<1> QED
  BY Zenon, <1>1, <1>4

\* tcp_fec_rx_recover leaves a slot that is recovered or lacks symbols.
LEMMA RecoverInv ==
  ASSUME NEW s, EndInv(s), NEW n, NEW blk, SlotType(blk)
  PROVE  EndInv(tcp_fec_rx_recover(s, n, blk))
<1> DEFINE keep(b) == [s EXCEPT !.rx[n] = b]
           missing == MissingSources(blk)
           done == [blk EXCEPT !.recovered = TRUE,
                      !.src = [i \in DOMAIN @ |-> IF i \in missing THEN Decoded(blk, i) ELSE @[i]]]
<1>1. ASSUME NEW b, SlotInv(b) PROVE EndInv(keep(b))
  BY Zenon, <1>1, SlotSet
<1>2. ASSUME ~Recoverable(blk) \/ blk.recovered PROVE EndInv(keep(blk))
  BY Zenon, <1>1, <1>2 DEF SlotInv
<1>3. EndInv(keep([blk EXCEPT !.recovered = TRUE])) /\ EndInv(keep(done))
  <2>1. SlotInv([blk EXCEPT !.recovered = TRUE]) /\ SlotInv(done)
    BY Zenon DEF SlotInv, SlotType
  <2> HIDE DEF keep, done
  <2> QED
    BY Zenon, <1>1, <2>1
<1>4. BlockSize(blk) \in Nat /\ BlockSize(blk) <= K
  BY WireAssumption DEF SlotType, BlockSize
<1>5. EndInv(tcp_send_ack(Spliced(keep(done), blk)))
  <2> DEFINE t == Spliced(keep(done), blk)
  <2> HIDE DEF keep, done
  <2>1. Kept(keep(done), t) /\ Has(t)
    <3>1. Has(keep(done))
      BY Zenon, <1>3 DEF EndInv
    <3> QED
      BY Zenon, <3>1, <1>4, SplicedKeeps DEF Kept
  <2>2. Kept(keep(done), tcp_send_ack(t))
    BY Zenon, <2>1, AckKeeps, KeptTrans
  <2> QED
    BY Zenon, <1>3, <2>2, KeptInv
<1>6. \/ tcp_fec_rx_recover(s, n, blk) = keep(blk) /\ (~Recoverable(blk) \/ blk.recovered)
      \/ tcp_fec_rx_recover(s, n, blk) = keep([blk EXCEPT !.recovered = TRUE])
      \/ tcp_fec_rx_recover(s, n, blk) = tcp_send_ack(Spliced(keep(done), blk))
  <2> HIDE DEF keep, done
  <2> QED
    BY <1>4 DEF tcp_fec_rx_recover, Recoverable, keep, done
<1> HIDE DEF keep, done
<1> QED
  BY Zenon, <1>2, <1>3, <1>5, <1>6

\* The slot of a block is one of the ring.
LEMMA SlotExists ==
  ASSUME NEW rx, RxInv(rx), NEW b
  PROVE  SlotOf(rx, b) \in DOMAIN rx
<1> DEFINE held == {i \in DOMAIN rx : rx[i].active /\ rx[i].block_id = b}
           free == {i \in DOMAIN rx : ~rx[i].active}
           old  == {i \in DOMAIN rx : \A j \in DOMAIN rx : rx[i].block_id <= rx[j].block_id}
<1>1. DOMAIN rx \subseteq Nat /\ 1 \in DOMAIN rx
  BY WireAssumption DEF RxInv
<1>2. ASSUME NEW S, S \subseteq DOMAIN rx, S # {} PROVE Least(S) \in DOMAIN rx
  <2>1. \E n \in S : \A m \in S : n <= m
    BY Zenon, <1>1, <1>2, LeastNat
  <2> QED
    BY Zenon, <1>2, <2>1 DEF Least
<1>3. old # {}
  <2> DEFINE ids == {rx[i].block_id : i \in DOMAIN rx}
  <2>1. ids \subseteq Nat /\ ids # {}
    BY Zenon, <1>1 DEF RxInv, SlotInv, SlotType
  <2>2. PICK k \in ids : \A j \in ids : k <= j
    <3> HIDE DEF ids
    <3> QED
      BY Zenon, <2>1, LeastNat
  <2>3. PICK i \in DOMAIN rx : k = rx[i].block_id
    BY Zenon
  <2>4. i \in old
    BY Zenon, <2>2, <2>3
  <2> QED
    BY Zenon, <2>4
<1>4. held \subseteq DOMAIN rx /\ free \subseteq DOMAIN rx /\ old \subseteq DOMAIN rx
  BY Zenon
<1>5. \/ held # {} /\ SlotOf(rx, b) = Least(held)
      \/ free # {} /\ SlotOf(rx, b) = Least(free)
      \/ SlotOf(rx, b) = Least(old)
  <2>1. SlotOf(rx, b) = CASE held # {} -> Least(held)
                          [] held = {} /\ free # {} -> Least(free)
                          [] OTHER -> Least(old)
    BY Zenon DEF SlotOf
  <2> HIDE DEF held, free, old
  <2> QED
    BY Zenon, <2>1
<1> HIDE DEF held, free, old
<1> QED
  BY Zenon, <1>2, <1>3, <1>4, <1>5

\* A block that has just claimed its slot has no symbol.
LEMMA NewSlot ==
  ASSUME NEW b \in Nat
  PROVE  SlotInv([FreeSlot EXCEPT !.active = TRUE, !.block_id = b])
<1>1. PICK blk : blk = [FreeSlot EXCEPT !.active = TRUE, !.block_id = b]
  BY Zenon
<1>2. /\ {"active", "block_id", "recovered", "blk_k", "src", "red"} \subseteq DOMAIN blk
      /\ blk.blk_k = 0 /\ blk.block_id = b
      /\ blk.src = [i \in 0..K-1 |-> Nothing] /\ blk.red = [j \in 0..R-1 |-> NoParity]
  BY Zenon, <1>1 DEF FreeSlot
<1>3. SlotType(blk)
  BY <1>2, WireAssumption DEF SlotType
<1>4. HeldRepairs(blk) = {}
  BY Zenon, <1>2 DEF HeldRepairs
<1>5. MissingSources(blk) = 0..K-1
  BY Zenon, <1>2, WireAssumption DEF MissingSources, BlockSize
<1>6. ~Recoverable(blk)
  <2>1. Cardinality(0..K-1) = K
    BY WireAssumption, FS_Interval
  <2>2. Cardinality({}) = 0
    BY Zenon, FS_EmptySet
  <2> QED
    BY SMTT(40), <1>4, <1>5, <2>1, <2>2, WireAssumption DEF Recoverable
<1> QED
  BY Zenon, <1>1, <1>3, <1>6 DEF SlotInv

\* The slot that tcp_fec_rx_slot returns.
LEMMA SlotGiven ==
  ASSUME NEW rx, RxInv(rx), NEW b \in Nat
  PROVE  SlotInv(tcp_fec_rx_slot(rx, b))
<1>1. SlotInv(rx[SlotOf(rx, b)])
  BY Zenon, SlotExists DEF RxInv
<1> QED
  BY Zenon, <1>1, NewSlot DEF tcp_fec_rx_slot

\* tcp_fec_input: after every symbol the block is recovered if it can be.
LEMMA FecInputInv ==
  ASSUME NEW s, EndInv(s), NEW m, Tagged(m.tag)
  PROVE  EndInv(tcp_fec_input(s, m))
<1> DEFINE n == SlotOf(s.rx, m.tag.block)
           blk == tcp_fec_rx_slot(s.rx, m.tag.block)
<1>0. RxInv(s.rx)
  BY Zenon DEF EndInv
<1>1. CASE m.tag.type = "source" /\ m.tag.index >= K
  <2>1. SlotInv(blk)
    BY Zenon, <1>0, <1>1, SlotGiven DEF Tagged
  <2>2. m.tag.index \in Nat /\ K \in Nat
    BY Zenon, <1>1, WireAssumption DEF Tagged
  <2>3. PICK t : t = [s EXCEPT !.rx[n] = blk]
    BY Zenon
  <2>4. tcp_fec_input(s, m) = t
    <3> HIDE DEF n, blk
    <3> QED
      BY <1>1, <2>2, <2>3 DEF tcp_fec_input, n, blk
  <2> HIDE DEF n, blk
  <2>5. EndInv(t)
    BY Zenon, <2>1, <2>3, SlotSet
  <2> QED
    BY Zenon, <2>4, <2>5
<1>4. CASE m.tag.type = "none"
  BY Zenon, <1>4 DEF tcp_fec_input
<1>2. CASE m.tag.type = "source" /\ m.tag.index < K
  <2>1. SlotType(RegisterSource(blk, m))
    <3>1. SlotType(blk) /\ m.tag.index \in Nat
      BY Zenon, <1>0, <1>2, SlotGiven DEF Tagged, SlotInv
    <3> HIDE DEF blk
    <3>2. m.tag.index + 1 \in 0..K
      BY SMTT(40), <1>2, <3>1, WireAssumption
    <3> QED
      BY Zenon, <3>1, <3>2 DEF SlotType, RegisterSource
  <2>2. tcp_fec_input(s, m) = tcp_fec_rx_recover(s, n, RegisterSource(blk, m))
    BY SMTT(40), <1>2 DEF tcp_fec_input
  <2> QED
    BY Zenon, <2>1, <2>2, RecoverInv
<1>3. CASE m.tag.type = "repair"
  <2>1. SlotType(RegisterRepair(blk, m))
    <3>1. SlotType(blk) /\ m.tag.k \in 0..K
      BY Zenon, <1>0, <1>3, SlotGiven DEF Tagged, SlotInv
    <3> HIDE DEF blk
    <3> QED
      BY Zenon, <3>1 DEF SlotType, RegisterRepair
  <2>2. tcp_fec_input(s, m) = tcp_fec_rx_recover(s, n, RegisterRepair(blk, m))
    BY Zenon, <1>3 DEF tcp_fec_input
  <2> QED
    BY Zenon, <2>1, <2>2, RecoverInv
<1>5. m.tag.type = "source" => m.tag.index \in Nat /\ K \in Nat
  BY Zenon, WireAssumption DEF Tagged
<1>6. m.tag.type \in {"none", "source", "repair"}
  BY Zenon DEF Tagged
<1> HIDE DEF n, blk
<1> QED
  BY SMTT(40), <1>1, <1>2, <1>3, <1>4, <1>5, <1>6

------------------------------------------------------------------------------
\* The write queue.

\* A buffer whose tag may go on the wire.
Buffer(x) == "tag" \in DOMAIN x /\ Tagged(x.tag)

\* A queue of such buffers.
LEMMA QueueIs ==
  ASSUME NEW q
  PROVE  QueueTags(q) <=> (\E S : q \in Seq(S)) /\ \A i \in 1..Len(q) : Buffer(q[i])
BY Zenon DEF QueueTags, Buffer

\* tcp_clean_rto_queue frees the first buffers.
LEMMA QueueDrops ==
  ASSUME NEW q, QueueTags(q), NEW n \in 0..Len(q)
  PROVE  QueueTags(SubSeq(q, n + 1, Len(q)))
<1>1. PICK S : q \in Seq(S)
  BY Zenon DEF QueueTags
<1>2. PICK r : r = SubSeq(q, n + 1, Len(q))
  BY Zenon
<1>3. r \in Seq(S) /\ Len(r) = Len(q) - n /\ \A i \in 1..Len(r) : r[i] = q[n + i]
  BY <1>1, <1>2
<1>4. \A i \in 1..Len(r) : n + i \in 1..Len(q)
  BY <1>1, <1>3
<1> QED
  BY Zenon, <1>2, <1>3, <1>4, QueueIs

\* tcp_send queues the buffers of a write.
LEMMA QueueJoins ==
  ASSUME NEW q, QueueTags(q), NEW r, QueueTags(r)
  PROVE  QueueTags(q \o r)
<1>1. PICK S : q \in Seq(S)
  BY Zenon DEF QueueTags
<1>2. PICK T : r \in Seq(T)
  BY Zenon DEF QueueTags
<1>3. PICK x : x = q \o r
  BY Zenon
<1>4. PICK U : U = S \union T
  BY Zenon
<1>5. q \in Seq(U) /\ r \in Seq(U)
  <2>1. S \subseteq U /\ T \subseteq U
    BY Zenon, <1>4
  <2> QED
    BY SMTT(40), <1>1, <1>2, <2>1
<1>6. x \in Seq(U) /\ Len(x) = Len(q) + Len(r)
      /\ \A i \in 1..Len(x) : x[i] = IF i <= Len(q) THEN q[i] ELSE r[i - Len(q)]
  BY <1>3, <1>5
<1>7. ASSUME NEW i \in 1..Len(x) PROVE Buffer(x[i])
  <2>1. CASE i <= Len(q)
    <3>1. i \in 1..Len(q) /\ x[i] = q[i]
      BY <1>5, <1>6, <2>1
    <3> QED
      BY Zenon, <3>1, QueueIs
  <2>2. CASE ~(i <= Len(q))
    <3>1. i - Len(q) \in 1..Len(r) /\ x[i] = r[i - Len(q)]
      BY SMTT(40), <1>5, <1>6, <2>2
    <3> QED
      BY Zenon, <3>1, QueueIs
  <2> QED
    BY Zenon, <2>1, <2>2
<1> QED
  BY Zenon, <1>3, <1>6, <1>7, QueueIs

\* tcp_queue_transmit_skb queues one buffer.
LEMMA QueueGrows ==
  ASSUME NEW q, QueueTags(q), NEW x, Buffer(x)
  PROVE  QueueTags(Append(q, x))
<1>1. PICK r : r = <<x>>
  BY Zenon
<1>2. r \in Seq({x}) /\ Len(r) = 1 /\ r[1] = x
  BY <1>1
<1>3. \A i \in 1..1 : i = 1
  OBVIOUS
<1>4. QueueTags(r)
  BY Zenon, <1>2, <1>3, QueueIs
<1>5. Append(q, x) = q \o r
  <2>1. PICK S : q \in Seq(S)
    BY Zenon DEF QueueTags
  <2>2. S \subseteq S \union {x} /\ x \in S \union {x}
    BY Zenon
  <2>3. q \in Seq(S \union {x})
    BY <2>1, <2>2
  <2> QED
    BY SMTT(40), <1>1, <2>2, <2>3
<1> QED
  BY Zenon, <1>4, <1>5, QueueJoins

\* A socket with another write queue and more to transmit.
LEMMA QueueSet ==
  ASSUME NEW s, EndInv(s), NEW t, Has(t), t.rx = s.rx, t.enc = s.enc, QueueTags(t.write_queue),
         \A m \in t.out : m \in s.out \/ Tagged(m.tag)
  PROVE  EndInv(t)
BY Zenon DEF EndInv, Tags

\* tcp_clean_rto_queue keeps the tags of the buffers that remain.
LEMMA CleanInv ==
  ASSUME NEW s, EndInv(s), NEW una
  PROVE  EndInv(tcp_clean_rto_queue(s, una))
<1> DEFINE q == s.write_queue
           n == Cleaned(q, una)
           t == [s EXCEPT !.write_queue = SubSeq(q, n + 1, Len(q)),
                          !.inflight = IF @ >= n THEN @ - n ELSE 0]
<1>1. QueueTags(q) /\ Len(q) \in Nat
  BY DEF EndInv, QueueTags
<1>2. n \in 0..Len(q)
  <2> HIDE DEF q
  <2> QED
    BY Zenon, <1>1, CleanedIsPrefix
<1>3. PICK r : r = SubSeq(q, n + 1, Len(q))
  BY Zenon
<1>4. QueueTags(r)
  <2> HIDE DEF q, n
  <2> QED
    BY Zenon, <1>1, <1>2, <1>3, QueueDrops
<1>5. PICK u : u = t
  BY Zenon
<1>6. Has(u) /\ u.rx = s.rx /\ u.enc = s.enc /\ u.out = s.out /\ u.write_queue = r
  <2> HIDE DEF q, n
  <2> QED
    BY Zenon, <1>3, <1>5 DEF EndInv, Has
<1>7. EndInv(u)
  BY Zenon, <1>4, <1>6, QueueSet
<1>8. Kept(u, tcp_stop_rto_timer(u))
  BY Zenon, <1>6 DEF Kept, Has, tcp_stop_rto_timer
<1>9. \/ tcp_clean_rto_queue(s, una) = tcp_stop_rto_timer(u)
      \/ tcp_clean_rto_queue(s, una) = u
  BY Zenon, <1>5 DEF tcp_clean_rto_queue
<1> QED
  BY Zenon, <1>7, <1>8, <1>9, KeptInv

\* The operations on timers, tcp_enter_time_wait and tcp_done.
LEMMA TimersKeep ==
  ASSUME NEW s, Has(s)
  PROVE  /\ Kept(s, tcp_release_rto_timer(s)) /\ Kept(s, tcp_rearm_rto_timer(s))
         /\ Kept(s, tcp_enter_time_wait(s)) /\ Kept(s, tcp_rearm_user_timeout(s))
         /\ Kept(s, tcp_done(s))
<1>1. ASSUME NEW x, Has(x) PROVE Kept(x, tcp_release_rto_timer(x))
  BY Zenon, <1>1 DEF Kept, Has, tcp_release_rto_timer
<1>2. ASSUME NEW x, Has(x) PROVE Kept(x, [x EXCEPT !.rto = TRUE])
  BY Zenon, <1>2 DEF Kept, Has
<1>3. Kept(s, tcp_rearm_rto_timer(s))
  <2>1. Has(tcp_release_rto_timer(s))
    BY Zenon, <1>1 DEF Kept
  <2> QED
    BY Zenon, <1>1, <1>2, <2>1, KeptTrans DEF tcp_rearm_rto_timer
<1>4. ASSUME NEW x, Has(x) PROVE Kept(x, tcp_clear_timers(x))
  BY Zenon, <1>4 DEF Kept, Has, tcp_clear_timers, tcp_stop_rto_timer
<1>5. PICK u : u = tcp_clear_timers(s)
  BY Zenon
<1>6. Kept(s, u) /\ Has(u)
  BY Zenon, <1>4, <1>5 DEF Kept
<1>7. Kept(u, [u EXCEPT !.state = "TIME_WAIT", !.linger = "2msl"])
      /\ Kept(u, [u EXCEPT !.state = "CLOSING", !.ofo_queue = <<>>, !.fec = FALSE])
  BY Zenon, <1>6 DEF Kept, Has
<1>8. Kept(s, tcp_enter_time_wait(s)) /\ Kept(s, tcp_done(s))
  BY Zenon, <1>5, <1>6, <1>7, KeptTrans DEF tcp_enter_time_wait, tcp_done
<1>9. Kept(s, tcp_rearm_user_timeout(s))
  BY Zenon DEF Kept, Has, tcp_rearm_user_timeout
<1> QED
  BY Zenon, <1>1, <1>3, <1>8, <1>9

\* A buffer is stamped with its sequence number.
LEMMA SentBuffer ==
  ASSUME NEW x, Buffer(x), NEW seq
  PROVE  Buffer(Sent(x, seq))
<1>1. PICK y : y = Sent(x, seq)
  BY Zenon
<1>2. "tag" \in DOMAIN y /\ y.tag = x.tag
  BY Zenon, <1>1 DEF Buffer, Sent
<1> QED
  BY Zenon, <1>1, <1>2 DEF Buffer

\* tcp_queue_transmit_skb, which may send the buffer at once.
LEMMA QueueTransmitInv ==
  ASSUME NEW s, EndInv(s), NEW skb, Buffer(skb)
  PROVE  EndInv(tcp_queue_transmit_skb(s, skb))
<1>1. PICK t : t = IF s.write_queue = <<>> THEN tcp_rearm_rto_timer(s) ELSE s
  BY Zenon
<1>2. Kept(s, t) /\ EndInv(t) /\ Has(t)
  <2>1. Has(s)
    BY Zenon DEF EndInv
  <2>2. Kept(s, t)
    BY Zenon, <1>1, <2>1, TimersKeep, KeptSelf
  <2> QED
    BY Zenon, <2>2, KeptInv DEF Kept
<1>3. QueueTags(t.write_queue)
  BY Zenon, <1>2 DEF EndInv
<1>4. CASE s.inflight = 0
  <2>1. PICK o : o = tcp_transmit_skb(t, skb, s.snd_nxt)
    BY Zenon
  <2>2. Kept(t, o)
    BY Zenon, <1>2, <2>1, TransmitKeeps DEF Buffer
  <2>3. EndInv(o) /\ Has(o) /\ QueueTags(o.write_queue)
    BY Zenon, <1>2, <2>2, KeptInv DEF EndInv
  <2>4. PICK q : q = Append(o.write_queue, Sent(skb, s.snd_nxt))
    BY Zenon
  <2>5. QueueTags(q)
    BY Zenon, <2>3, <2>4, SentBuffer, QueueGrows
  <2>6. PICK r : r = tcp_queue_transmit_skb(s, skb)
    BY Zenon
  <2>7. r = [o EXCEPT !.inflight = 1, !.snd_nxt = @ + SeqLen(skb), !.write_queue = q]
    BY SMTT(40), <1>1, <1>4, <2>1, <2>4, <2>6 DEF tcp_queue_transmit_skb
  <2>8. Has(r) /\ r.rx = o.rx /\ r.enc = o.enc /\ r.out = o.out /\ r.write_queue = q
    BY Zenon, <2>3, <2>7 DEF Has
  <2> QED
    BY Zenon, <2>3, <2>5, <2>6, <2>8, QueueSet
<1>5. CASE s.inflight # 0
  <2>1. PICK q : q = Append(t.write_queue, skb)
    BY Zenon
  <2>2. PICK r : r = tcp_queue_transmit_skb(s, skb)
    BY Zenon
  <2>3. r = [t EXCEPT !.write_queue = q]
    BY SMTT(40), <1>1, <1>5, <2>1, <2>2 DEF tcp_queue_transmit_skb
  <2>4. Has(r) /\ r.rx = t.rx /\ r.enc = t.enc /\ r.out = t.out /\ r.write_queue = q
    BY Zenon, <1>2, <2>3 DEF Has
  <2>5. QueueTags(q)
    BY Zenon, <1>3, <2>1, QueueGrows
  <2> QED
    BY Zenon, <1>2, <2>2, <2>4, <2>5, QueueSet
<1> QED
  BY Zenon, <1>4, <1>5

\* tcp_send_next sends queued buffers with their tags.
LEMMA SendNextInv ==
  ASSUME NEW s, EndInv(s), NEW n, 1..n \subseteq 1..Len(s.write_queue)
  PROVE  EndInv(tcp_send_next(s, n))
<1> DEFINE at(i) == s.snd_nxt + SendOffset(s.write_queue, i)
           seg(i) == Segment(at(i), s.rcv_nxt, s.write_queue[i].run, s.write_queue[i].psh,
                             s.write_queue[i].fin, FALSE, s.write_queue[i].tag)
<1>0. PICK q : q = s.write_queue
  BY Zenon
<1>1. QueueTags(q) /\ Has(s) /\ DOMAIN q = 1..Len(q)
  BY <1>0 DEF EndInv, QueueTags
<1>2. PICK r : r = [i \in DOMAIN q |-> IF i <= n THEN Sent(q[i], at(i)) ELSE q[i]]
  BY Zenon
<1>3. QueueTags(r)
  <2> HIDE DEF at
  <2>1. \A i \in 1..Len(q) : Buffer(r[i])
    BY Zenon, <1>1, <1>2, SentBuffer, QueueIs
  <2>2. PICK S : S = {r[i] : i \in 1..Len(q)}
    BY Zenon
  <2>3. Len(q) \in Nat
    BY <1>1 DEF QueueTags
  <2>4. r \in Seq(S) /\ Len(r) = Len(q)
    BY SMTT(40), <1>1, <1>2, <2>2, <2>3
  <2> QED
    BY Zenon, <2>1, <2>4, QueueIs
<1>4. PICK t : t = tcp_send_next(s, n)
  BY Zenon
<1>5. PICK O : O = {seg(i) : i \in 1..n}
  BY Zenon
<1>6. Has(t) /\ t.rx = s.rx /\ t.enc = s.enc /\ t.write_queue = r /\ t.out = s.out \union O
  BY SMTT(40), <1>0, <1>1, <1>2, <1>4, <1>5 DEF tcp_send_next, Has
<1>7. \A m \in O : Tagged(m.tag)
  <2> SUFFICES ASSUME NEW i \in 1..n PROVE Tagged(seg(i).tag)
    BY Zenon, <1>5
  <2>1. seg(i).tag = s.write_queue[i].tag
    BY Zenon DEF Segment
  <2>2. Buffer(q[i])
    BY Zenon, <1>0, <1>1, QueueIs
  <2> QED
    BY Zenon, <1>0, <2>1, <2>2 DEF Buffer
<1>8. \A m \in t.out : m \in s.out \/ Tagged(m.tag)
  BY Zenon, <1>6, <1>7
<1> QED
  BY Zenon, <1>3, <1>4, <1>6, <1>8, QueueSet

------------------------------------------------------------------------------
\* Sending.

\* tcp_fec_emit_block: repairs are of as many sources as are registered.
LEMMA EmitKeeps ==
  ASSUME NEW s, Has(s), EncInv(s.enc), NEW snd_nxt, NEW tails, NEW intact
  PROVE  Kept(s, tcp_fec_emit_block(s, snd_nxt, tails, intact))
<1>1. PICK O : O = {tcp_fec_send_repair(s, snd_nxt, t, intact) : t \in tails}
  BY Zenon
<1>2. PICK u : u = tcp_fec_emit_block(s, snd_nxt, tails, intact)
  BY Zenon
<1>3. Has(u) /\ u.rx = s.rx /\ u.write_queue = s.write_queue /\ u.enc = s.enc
      /\ u.out = s.out \union O
  BY Zenon, <1>1, <1>2 DEF tcp_fec_emit_block, Has
<1>4. ASSUME NEW t PROVE Tagged(tcp_fec_send_repair(s, snd_nxt, t, intact).tag)
  <2>1. PICK tag : tag = RepairTag(TxBlockId, 0, Len(s.enc), s.tx_base_seq, t,
                                   EncoderReads(s.enc, s.write_queue, intact))
    BY Zenon
  <2>2. tcp_fec_send_repair(s, snd_nxt, t, intact).tag = tag
    BY Zenon, <2>1 DEF tcp_fec_send_repair, Segment
  <2>3. tag.type = "repair" /\ tag.block = 0 /\ tag.k = Len(s.enc)
    BY Zenon, <2>1 DEF RepairTag, TxBlockId
  <2>4. Len(s.enc) \in 0..K
    BY WireAssumption DEF EncInv
  <2> QED
    BY <2>2, <2>3, <2>4 DEF Tagged
<1> QED
  BY Zenon, <1>1, <1>2, <1>3, <1>4 DEF Kept

\* tcp_queue_fin: a FIN carries no tag.
LEMMA QueueFinInv ==
  ASSUME NEW s, EndInv(s), NEW intact
  PROVE  EndInv(tcp_queue_fin(s, intact))
<1>1. PICK t : t = tcp_fec_flush(s, intact)
  BY Zenon
<1>2. EndInv(t)
  <2>1. Kept(s, t)
    BY Zenon, <1>1, EmitKeeps, KeptSelf DEF EndInv, tcp_fec_flush
  <2> QED
    BY Zenon, <2>1, KeptInv
<1>3. Buffer(Skb(Nothing, FALSE, TRUE, NoTag))
  <2>1. PICK x : x = Skb(Nothing, FALSE, TRUE, NoTag)
    BY Zenon
  <2>2. "tag" \in DOMAIN x /\ x.tag = NoTag
    BY Zenon, <2>1 DEF Skb
  <2> QED
    BY Zenon, <2>1, <2>2, Untagged DEF Buffer
<1> QED
  BY Zenon, <1>1, <1>2, <1>3, QueueTransmitInv DEF tcp_queue_fin

\* The chunks tcp_send cuts a write into.
LEMMA ChunksAre ==
  ASSUME NEW s, NEW n \in Nat \ {0}
  PROVE  /\ \E S : Chunks(s, n) \in Seq(S)
         /\ Len(Chunks(s, n)) \in Nat \ {0}
         /\ DOMAIN Chunks(s, n) = 1..Len(Chunks(s, n))
<1>1. PICK mss : mss = IF s.fec THEN Sym ELSE Mss
  BY Zenon
<1>2. mss \in Nat \ {0}
  BY Zenon, <1>1, WireAssumption
<1>3. PICK count : count = (n + mss - 1) \div mss
  BY Zenon
<1>4. count \in Nat \ {0}
  BY <1>2, <1>3
<1> DEFINE run(i) == Run(s.written + (i - 1) * mss + 1, IF i < count THEN mss ELSE n - (count - 1) * mss)
<1>5. Chunks(s, n) = [i \in 1..count |-> run(i)]
  BY Zenon, <1>1, <1>3 DEF Chunks
<1> HIDE DEF run
<1>6. PICK S : S = {run(i) : i \in 1..count}
  BY Zenon
<1>7. [i \in 1..count |-> run(i)] \in Seq(S) /\ Len([i \in 1..count |-> run(i)]) = count
      /\ DOMAIN [i \in 1..count |-> run(i)] = 1..count
  BY <1>4, <1>6
<1> QED
  BY Zenon, <1>4, <1>5, <1>7

\* Their buffers, tagged with block 0 and their place in it (tcp_fec_register).
LEMMA BuffersAre ==
  ASSUME NEW s, EncInv(s.enc), NEW n \in Nat \ {0}
  PROVE  /\ QueueTags(Buffers(s, n)) /\ Len(Buffers(s, n)) \in Nat \ {0}
<1>1. PICK runs : runs = Chunks(s, n)
  BY Zenon
<1>2. PICK L : L = Len(runs)
  BY Zenon
<1>3. L \in Nat \ {0} /\ DOMAIN runs = 1..L
  BY Zenon, <1>1, <1>2, ChunksAre
<1> DEFINE tag(i) == IF s.fec THEN SourceTag(TxBlockId, tx_index(s, i)) ELSE NoTag
           skb(i) == Skb(runs[i], i = Len(runs), FALSE, tag(i))
<1>4. PICK b : b = Buffers(s, n)
  BY Zenon
<1>5. b = [i \in 1..L |-> skb(i)]
  BY Zenon, <1>1, <1>3, <1>4 DEF Buffers
<1>6. ASSUME NEW i \in 1..L PROVE Buffer(skb(i))
  <2>1. Tagged(tag(i))
    <3>1. tx_index(s, i) \in Nat
      BY <1>3, WireAssumption DEF tx_index, MinOf, EncInv
    <3>2. PICK t : t = SourceTag(TxBlockId, tx_index(s, i))
      BY Zenon
    <3>3. t.type = "source" /\ t.block = 0 /\ t.index = tx_index(s, i)
      BY Zenon, <3>2 DEF SourceTag, TxBlockId
    <3>4. Tagged(t)
      BY <3>1, <3>3 DEF Tagged
    <3> QED
      BY Zenon, <3>2, <3>4, Untagged
  <2> HIDE DEF tag
  <2>2. PICK x : x = skb(i)
    BY Zenon
  <2>3. "tag" \in DOMAIN x /\ x.tag = tag(i)
    BY Zenon, <2>2 DEF Skb
  <2> HIDE DEF skb
  <2> QED
    BY Zenon, <2>1, <2>2, <2>3 DEF Buffer
<1> HIDE DEF skb
<1>7. PICK S : S = {skb(i) : i \in 1..L}
  BY Zenon
<1>8. b \in Seq(S) /\ Len(b) = L
  BY <1>3, <1>5, <1>7
<1>9. \A i \in 1..L : b[i] = skb(i)
  BY Zenon, <1>5
<1> QED
  BY Zenon, <1>3, <1>4, <1>6, <1>8, <1>9, QueueIs

\* tcp_send: no more symbols are registered than the block has room for.
LEMMA SendInv ==
  ASSUME NEW s, EndInv(s), NEW n \in Nat \ {0}, NEW intact
  PROVE  EndInv(tcp_send(s, n, intact))
<1>1. PICK b : b = Buffers(s, n)
  BY Zenon
<1>2. QueueTags(b) /\ Len(b) \in Nat \ {0}
  BY Zenon, <1>1, BuffersAre DEF EndInv
<1>3. Buffer(b[1])
  <2>1. 1 \in 1..Len(b)
    BY <1>2
  <2> QED
    BY Zenon, <1>2, <2>1, QueueIs
<1>4. PICK v : v = tcp_queue_transmit_skb(s, b[1])
  BY Zenon
<1>5. EndInv(v)
  BY Zenon, <1>3, <1>4, QueueTransmitInv
<1>6. PICK r : r = v.write_queue \o Tail(b)
  BY Zenon
<1>7. QueueTags(r)
  <2>1. Tail(b) = SubSeq(b, 1 + 1, Len(b)) /\ 1 \in 0..Len(b)
    BY <1>2 DEF QueueTags
  <2>2. QueueTags(Tail(b))
    BY Zenon, <1>2, <2>1, QueueDrops
  <2> QED
    BY Zenon, <1>5, <1>6, <2>2, QueueJoins DEF EndInv
<1>8. PICK q : q = [v EXCEPT !.write_queue = @ \o Tail(b), !.written = @ + n]
  BY Zenon
<1>9. Has(q) /\ q.rx = v.rx /\ q.enc = v.enc /\ q.out = v.out /\ q.write_queue = r
  BY Zenon, <1>5, <1>6, <1>8 DEF Has, EndInv
<1>10. EndInv(q)
  BY Zenon, <1>5, <1>7, <1>9, QueueSet
<1>11. PICK f : f = IF s.fec THEN tcp_fec_register(s, q, Chunks(s, n), intact) ELSE q
  BY Zenon
<1>12. EndInv(f)
  <2>1. PICK all : all = s.enc \o Chunks(s, n)
    BY Zenon
  <2>2. PICK e : e = SubSeq(all, 1, MinOf(K, Len(all)))
    BY Zenon
  <2>3. EncInv(e)
    <3>1. PICK S : s.enc \in Seq(S)
      BY Zenon DEF EndInv, EncInv
    <3>2. PICK T : Chunks(s, n) \in Seq(T)
      BY Zenon, ChunksAre
    <3>3. PICK U : U = S \union T
      BY Zenon
    <3>4. s.enc \in Seq(U) /\ Chunks(s, n) \in Seq(U)
      <4>1. S \subseteq U /\ T \subseteq U
        BY Zenon, <3>3
      <4> QED
        BY <3>1, <3>2, <4>1
    <3>5. all \in Seq(U)
      BY SMTT(40), <2>1, <3>4
    <3>6. e \in Seq(U) /\ Len(e) <= K
      BY SMTT(40), <2>2, <3>5, WireAssumption DEF MinOf
    <3> QED
      BY Zenon, <3>6 DEF EncInv
  <2>4. PICK g : g = [q EXCEPT !.enc = e, !.tx_base_seq = IF s.enc = <<>> THEN s.snd_nxt ELSE @,
                               !.tx_tail_len = Chunks(s, n)[Len(Chunks(s, n))].len]
    BY Zenon
  <2>5. Has(g) /\ g.rx = q.rx /\ g.enc = e /\ g.out = q.out /\ g.write_queue = q.write_queue
    BY Zenon, <1>9, <2>4 DEF Has
  <2>6. EndInv(g)
    BY Zenon, <1>10, <2>3, <2>5 DEF EndInv
  <2>7. PICK F : F = IF Len(s.enc) >= K THEN {s.tx_tail_len} ELSE {}
    BY Zenon
  <2>8. PICK h : h = tcp_fec_emit_block(g, s.snd_nxt, F, intact)
    BY Zenon
  <2>9. EndInv(h)
    BY Zenon, <2>6, <2>8, EmitKeeps, KeptInv DEF EndInv
  <2>10. tcp_fec_register(s, q, Chunks(s, n), intact)
          = tcp_fec_emit_block(h, q.snd_nxt, EmittedTails(s, Chunks(s, n)), intact)
    BY Zenon, <2>1, <2>2, <2>4, <2>7, <2>8 DEF tcp_fec_register
  <2>11. EndInv(tcp_fec_register(s, q, Chunks(s, n), intact))
    BY Zenon, <2>9, <2>10, EmitKeeps, KeptInv DEF EndInv
  <2> QED
    BY Zenon, <1>10, <1>11, <2>11
<1>13. tcp_send(s, n, intact) = tcp_rearm_user_timeout(f)
  BY Zenon, <1>1, <1>4, <1>8, <1>11 DEF tcp_send
<1> QED
  BY Zenon, <1>12, <1>13, TimersKeep, KeptInv DEF EndInv

------------------------------------------------------------------------------
\* The steps of tcp_input_state.

\* A socket in which only other fields change.
LEMMA OtherFields ==
  ASSUME NEW s, EndInv(s), NEW t, Has(t),
         t.rx = s.rx, t.write_queue = s.write_queue, t.enc = s.enc, t.out = s.out
  PROVE  EndInv(t)
BY Zenon DEF EndInv

\* tcp_input_state, fifth: the ACK field.
LEMMA AckFieldInv ==
  ASSUME NEW s, EndInv(s), NEW m
  PROVE  EndInv(AckField(s, m))
<1>1. PICK t : t = [s EXCEPT !.snd_una = m.ack]
  BY Zenon
<1>2. EndInv(t)
  <2>1. Has(t) /\ t.rx = s.rx /\ t.write_queue = s.write_queue /\ t.enc = s.enc /\ t.out = s.out
    BY Zenon, <1>1 DEF EndInv, Has
  <2> QED
    BY Zenon, <2>1, OtherFields
<1> QED
  BY Zenon, <1>1, <1>2, CleanInv DEF AckField

\* The states that wait for the acknowledgment of a FIN.
LEMMA FinAckedKeeps ==
  ASSUME NEW s, Has(s), NEW m
  PROVE  Kept(s, FinAcked(s, m))
<1>1. PICK t : t = [s EXCEPT !.fin = TRUE]
  BY Zenon
<1>2. Kept(s, t) /\ Kept(s, tcp_send_ack(t))
  <2>1. Kept(s, t)
    BY Zenon, <1>1 DEF Kept, Has
  <2> QED
    BY Zenon, <2>1, AckKeeps, KeptTrans DEF Kept
<1>3. Kept(s, [s EXCEPT !.state = "FIN_WAIT_2"]) /\ Kept(s, [s EXCEPT !.state = "TIME_WAIT"])
      /\ Kept(s, s)
  BY Zenon DEF Kept, Has
<1>4. \/ FinAcked(s, m) = [s EXCEPT !.state = "FIN_WAIT_2"]
      \/ FinAcked(s, m) = [s EXCEPT !.state = "TIME_WAIT"]
      \/ FinAcked(s, m) = tcp_send_ack(t)
      \/ FinAcked(s, m) = s
  BY Zenon, <1>1 DEF FinAcked
<1> QED
  BY Zenon, <1>2, <1>3, <1>4

\* tcp_input_state, seventh: the segment text.
LEMMA SegmentTextKeeps ==
  ASSUME NEW s, Has(s), NEW m
  PROVE  Kept(s, SegmentText(s, m))
BY Zenon, DataQueueKeeps, KeptSelf DEF SegmentText

\* tcp_input_state, eighth: the FIN bit.
LEMMA FinBitKeeps ==
  ASSUME NEW s, Has(s), NEW m
  PROVE  Kept(s, FinBit(s, m))
<1>1. PICK u : u = [s EXCEPT !.rcv_nxt = @ + 1, !.fin = TRUE]
  BY Zenon
<1>2. PICK t : t = tcp_send_ack(u)
  BY Zenon
<1>3. Kept(s, t) /\ Has(t)
  <2>1. Kept(s, u)
    BY Zenon, <1>1 DEF Kept, Has
  <2> QED
    BY Zenon, <1>2, <2>1, AckKeeps, KeptTrans DEF Kept
<1>4. Kept(t, t) /\ Kept(t, [t EXCEPT !.state = "CLOSE_WAIT"]) /\ Kept(t, [t EXCEPT !.state = "CLOSING"])
      /\ Kept(t, tcp_enter_time_wait(t))
  <2>1. Kept(t, t) /\ Kept(t, [t EXCEPT !.state = "CLOSE_WAIT"]) /\ Kept(t, [t EXCEPT !.state = "CLOSING"])
    BY Zenon, <1>3 DEF Kept, Has
  <2> QED
    BY Zenon, <1>3, <2>1, TimersKeep
<1>5. \/ FinBit(s, m) = [t EXCEPT !.state = "CLOSE_WAIT"]
      \/ FinBit(s, m) = [t EXCEPT !.state = "CLOSING"]
      \/ FinBit(s, m) = tcp_enter_time_wait(t)
      \/ FinBit(s, m) = t
  BY Zenon, <1>1, <1>2 DEF FinBit
<1>6. Kept(t, FinBit(s, m))
  BY Zenon, <1>4, <1>5
<1> QED
  BY Zenon, <1>3, <1>6, KeptTrans

\* The end of tcp_input_state: the next buffers, an acknowledgment, or a promise of one.
LEMMA SendOrAckInv ==
  ASSUME NEW s, EndInv(s), NEW m
  PROVE  EndInv(SendOrAck(s, m))
<1>0. Has(s) /\ Len(s.write_queue) \in Nat
  BY DEF EndInv, QueueTags
<1>1. PICK t : t = [s EXCEPT !.delack = FALSE]
  BY Zenon
<1>2. Has(t) /\ t.rx = s.rx /\ t.write_queue = s.write_queue /\ t.enc = s.enc /\ t.out = s.out
  BY SMTT(40), <1>0, <1>1 DEF Has
<1>3. EndInv(t)
  BY Zenon, <1>2, OtherFields
<1>4. PICK n : n = Pending(s)
  BY Zenon
<1>5. PICK u : u = tcp_send_next(t, n)
  BY Zenon
<1>6. EndInv(u) /\ Has(u)
  <2>1. 1..n \subseteq 1..Len(t.write_queue)
    BY SMTT(40), <1>0, <1>2, <1>4 DEF Pending, MinOf
  <2> QED
    BY Zenon, <1>3, <1>5, <2>1, SendNextInv DEF EndInv
<1>7. PICK v : v = [u EXCEPT !.inflight = n]
  BY Zenon
<1>8. EndInv(tcp_rearm_rto_timer(v))
  <2>1. Has(v) /\ v.rx = u.rx /\ v.write_queue = u.write_queue /\ v.enc = u.enc /\ v.out = u.out
    BY Zenon, <1>6, <1>7 DEF Has
  <2>2. EndInv(v)
    BY Zenon, <1>6, <2>1, OtherFields
  <2> QED
    BY Zenon, <2>1, <2>2, TimersKeep, KeptInv
<1> DEFINE later(c, d) == [t EXCEPT !.delacks = c, !.delack = d]
<1>9. ASSUME NEW c, NEW d PROVE EndInv(later(c, d))
  <2>1. Kept(t, later(c, d))
    BY Zenon, <1>2 DEF Kept, Has
  <2> QED
    BY Zenon, <1>3, <2>1, KeptInv
<1>10. PICK w : w = [t EXCEPT !.delacks = 0]
  BY Zenon
<1>11. EndInv(tcp_send_ack(w))
  <2>1. Kept(t, w)
    BY Zenon, <1>2, <1>10 DEF Kept, Has
  <2> QED
    BY Zenon, <1>3, <2>1, AckKeeps, KeptTrans, KeptInv DEF Kept
<1>12. \/ SendOrAck(s, m) = tcp_rearm_rto_timer(v)
       \/ SendOrAck(s, m) = tcp_send_ack(w)
       \/ \E c, d : SendOrAck(s, m) = later(c, d)
  <2> DEFINE c == IF m.run.len > BigSegment THEN s.delacks + 1 ELSE s.delacks
             d == m.run.len > 0
  <2>1. \/ SendOrAck(s, m) = tcp_rearm_rto_timer(v)
        \/ SendOrAck(s, m) = tcp_send_ack(w)
        \/ SendOrAck(s, m) = later(c, d)
    BY SMTT(40), <1>1, <1>4, <1>5, <1>7, <1>10 DEF SendOrAck
  <2> HIDE DEF later
  <2> QED
    BY Zenon, <2>1
<1> HIDE DEF later
<1> QED
  BY Zenon, <1>8, <1>9, <1>11, <1>12

\* All steps of tcp_input_state for an acceptable segment.
LEMMA AcceptedInv ==
  ASSUME NEW s, EndInv(s), NEW m
  PROVE  EndInv(Accepted(s, m))
<1>1. PICK k : k = AckField(s, m)
  BY Zenon
<1>2. PICK a : a = FinAcked(k, m)
  BY Zenon
<1>3. PICK d : d = SegmentText(a, m)
  BY Zenon
<1>4. PICK f : f = IF m.fin /\ m.seq = a.rcv_nxt THEN FinBit(d, m) ELSE d
  BY Zenon
<1>5. EndInv(k) /\ Has(k)
  BY Zenon, <1>1, AckFieldInv DEF EndInv
<1>6. EndInv(a) /\ Has(a)
  BY Zenon, <1>2, <1>5, FinAckedKeeps, KeptInv DEF EndInv
<1>7. EndInv(d) /\ Has(d)
  BY Zenon, <1>3, <1>6, SegmentTextKeeps, KeptInv DEF EndInv
<1>8. EndInv(f)
  BY Zenon, <1>4, <1>7, FinBitKeeps, KeptInv
<1>9. Accepted(s, m) = SendOrAck(f, m) \/ Accepted(s, m) = f
  BY Zenon, <1>1, <1>2, <1>3, <1>4 DEF Accepted
<1> QED
  BY Zenon, <1>8, <1>9, SendOrAckInv

------------------------------------------------------------------------------
\* The actions.

\* What a handler leaves behind when its segments have gone out.
LEMMA OutGone ==
  ASSUME NEW s, EndInv(s)
  PROVE  EndInv([s EXCEPT !.out = {}])
<1>1. PICK t : t = [s EXCEPT !.out = {}]
  BY Zenon
<1>2. Has(t) /\ t.rx = s.rx /\ t.write_queue = s.write_queue /\ t.enc = s.enc /\ t.out = {}
  BY Zenon, <1>1 DEF EndInv, Has
<1> QED
  BY Zenon, <1>1, <1>2 DEF EndInv, Tags

\* The handler of end e ran, and the network may have delivered.
LEMMA HandlerStep ==
  ASSUME FecInv, NEW e \in Ends, NEW s, EndInv(s),
         sk' = [sk EXCEPT ![e] = [s EXCEPT !.out = {}]],
         DOMAIN net' = Ends, \A d \in Ends : net'[d] \subseteq net[d] \union s.out
  PROVE  FecInv'
<1>1. PICK t : t = [s EXCEPT !.out = {}]
  BY Zenon
<1>2. EndInv(t)
  BY Zenon, <1>1, OutGone
<1>3. DOMAIN sk' = Ends /\ \A d \in Ends : sk'[d] = IF d = e THEN t ELSE sk[d]
  BY Zenon, <1>1 DEF FecInv
<1>4. \A d \in Ends : EndInv(sk'[d])
  BY Zenon, <1>2, <1>3 DEF FecInv
<1>5. \A d \in Ends : Tags(net'[d])
  BY Zenon DEF FecInv, Tags, EndInv
<1> QED
  BY Zenon, <1>3, <1>4, <1>5 DEF FecInv

\* A handler of the application or of a timer, whose segments join the network.
LEMMA StepInv ==
  ASSUME FecInv, NEW e \in Ends, NEW s, EndInv(s), Step(e, s)
  PROVE  FecInv'
<1>1. DOMAIN net' = Ends /\ \A d \in Ends : net'[d] \subseteq net[d] \union s.out
  BY Zenon DEF Step, FecInv
<1> QED
  BY Zenon, <1>1, HandlerStep DEF Step

\* A handler of a segment, which leaves the network unless it is repeated.
LEMMA HandlesInv ==
  ASSUME FecInv, NEW e \in Ends, NEW m, NEW s, EndInv(s), Handles(e, m, s)
  PROVE  FecInv'
<1>1. DOMAIN net' = Ends /\ \A d \in Ends : net'[d] \subseteq net[d] \union s.out
  BY Zenon DEF Handles, FecInv
<1> QED
  BY Zenon, <1>1, HandlerStep DEF Handles

\* The thread of an expired RTO timer, before it looks at the write queue.
LEMMA LateInv ==
  ASSUME NEW s, EndInv(s)
  PROVE  EndInv(LateHandler(s)) /\ LateHandler(s).write_queue = s.write_queue
<1>1. PICK t : t = [s EXCEPT !.strays = @ - 1]
  BY Zenon
<1>2. Kept(s, t)
  BY Zenon, <1>1 DEF EndInv, Kept, Has
<1>3. Kept(t, LateHandler(s))
  BY Zenon, <1>1, <1>2, TimersKeep DEF LateHandler, Kept
<1> QED
  BY Zenon, <1>2, <1>3, KeptTrans, KeptInv DEF Kept

\* tcp_retransmission_timeout sends the head of the queue again, with its tag.
LEMMA RetransmitInv ==
  ASSUME FecInv, NEW e \in Ends, Retransmit(e) \/ RetransmitGivesUp(e)
  PROVE  FecInv'
<1>1. PICK s : s = LateHandler(sk[e])
  BY Zenon
<1>2. EndInv(s) /\ s.write_queue = sk[e].write_queue /\ Has(s)
  BY Zenon, <1>1, LateInv DEF FecInv, EndInv
<1>3. s.write_queue # <<>>
  BY Zenon, <1>2 DEF Retransmit, RetransmitGivesUp
<1>4. Buffer(s.write_queue[1])
  <2>1. PICK S : s.write_queue \in Seq(S)
    BY Zenon, <1>2 DEF EndInv, QueueTags
  <2>2. 1 \in 1..Len(s.write_queue)
    BY <1>3, <2>1
  <2> QED
    BY Zenon, <1>2, <2>2, QueueIs DEF EndInv
<1>5. PICK o : o = tcp_transmit_skb(s, s.write_queue[1], s.snd_una)
  BY Zenon
<1>6. EndInv(o) /\ Has(o)
  BY Zenon, <1>2, <1>4, <1>5, TransmitKeeps, KeptInv DEF Buffer, EndInv
<1>7. PICK t : t = [o EXCEPT !.rto = TRUE]
  BY Zenon
<1>8. EndInv(t)
  <2>1. Kept(o, t)
    BY Zenon, <1>6, <1>7 DEF Kept, Has
  <2> QED
    BY Zenon, <1>6, <2>1, KeptInv
<1>9. EndInv(tcp_handle_fin_state(t))
  <2>1. Kept(t, tcp_handle_fin_state(t))
    BY Zenon, <1>8 DEF EndInv, Kept, Has, tcp_handle_fin_state
  <2> QED
    BY Zenon, <1>8, <2>1, KeptInv
<1>10. EndInv(tcp_done(o))
  BY Zenon, <1>6, TimersKeep, KeptInv
<1>11. \/ Step(e, tcp_handle_fin_state(t)) \/ Step(e, t) \/ Step(e, tcp_done(o))
  BY Zenon, <1>1, <1>5, <1>7 DEF Retransmit, RetransmitGivesUp
<1> QED
  BY Zenon, <1>8, <1>9, <1>10, <1>11, StepInv

\* The application writes and closes.
LEMMA AppInv ==
  ASSUME FecInv, NEW e \in Ends, NEW intact \in BOOLEAN,
         (\E n \in WriteSizes : Write(e, n, intact)) \/ Close(e, intact)
  PROVE  FecInv'
<1>0. EndInv(sk[e])
  BY Zenon DEF FecInv
<1>1. ASSUME NEW n \in WriteSizes, Write(e, n, intact) PROVE FecInv'
  <2>1. n \in Nat \ {0}
    BY Zenon, ConnAssumption
  <2> QED
    BY Zenon, <1>0, <1>1, <2>1, SendInv, StepInv DEF Write
<1>2. ASSUME Close(e, intact) PROVE FecInv'
  <2>1. PICK s : s = [sk[e] EXCEPT !.closed = TRUE,
                         !.state = IF @ = "ESTABLISHED" THEN "FIN_WAIT_1" ELSE @]
    BY Zenon
  <2>2. Kept(sk[e], s)
    BY Zenon, <1>0, <2>1 DEF EndInv, Kept, Has
  <2>3. EndInv(tcp_queue_fin(s, intact))
    BY Zenon, <1>0, <2>2, KeptInv, QueueFinInv
  <2>4. Step(e, tcp_queue_fin(s, intact))
    BY Zenon, <1>2, <2>1 DEF Close
  <2> QED
    BY Zenon, <2>3, <2>4, StepInv
<1> QED
  BY Zenon, <1>1, <1>2

\* The timers expire.
LEMMA ExpiryInv ==
  ASSUME FecInv, NEW e \in Ends,
         RtoExpires(e) \/ RtoQueueEmpty(e) \/ DelackTimeout(e) \/ TimeWaitTimeout(e) \/ UserTimeout(e)
  PROVE  FecInv'
<1>0. EndInv(sk[e]) /\ Has(sk[e])
  BY Zenon DEF FecInv, EndInv
<1>1. CASE RtoExpires(e)
  <2>1. PICK t : t = [sk[e] EXCEPT !.rto = FALSE, !.strays = @ + 1]
    BY Zenon
  <2>2. Kept(sk[e], t)
    BY Zenon, <1>0, <2>1 DEF Kept, Has
  <2> QED
    BY Zenon, <1>0, <1>1, <2>1, <2>2, KeptInv, StepInv DEF RtoExpires
<1>2. CASE RtoQueueEmpty(e)
  BY Zenon, <1>0, <1>2, LateInv, StepInv DEF RtoQueueEmpty
<1>3. CASE DelackTimeout(e)
  <2>1. PICK t : t = [sk[e] EXCEPT !.delack = FALSE, !.delacks = 0]
    BY Zenon
  <2>2. Kept(sk[e], t) /\ Has(t)
    BY Zenon, <1>0, <2>1 DEF Kept, Has
  <2>3. EndInv(tcp_send_ack(t))
    BY Zenon, <1>0, <2>2, AckKeeps, KeptTrans, KeptInv
  <2> QED
    BY Zenon, <1>3, <2>1, <2>3, StepInv DEF DelackTimeout
<1>4. CASE TimeWaitTimeout(e)
  BY Zenon, <1>0, <1>4, TimersKeep, KeptInv, StepInv DEF TimeWaitTimeout
<1>5. CASE UserTimeout(e)
  <2>1. PICK s : s = [sk[e] EXCEPT !.snd_una = sk[e].snd_nxt]
    BY Zenon
  <2>2. PICK rst : rst = Segment(s.snd_nxt, s.rcv_nxt, Nothing, FALSE, FALSE, TRUE, NoTag)
    BY Zenon
  <2>3. PICK t : t = [s EXCEPT !.out = {rst}]
    BY Zenon
  <2>4. rst.tag = NoTag
    BY Zenon, <2>2 DEF Segment
  <2>5. Has(t) /\ t.rx = sk[e].rx /\ t.write_queue = sk[e].write_queue /\ t.enc = sk[e].enc
        /\ t.out = {rst}
    BY SMTT(40), <1>0, <2>1, <2>3 DEF Has
  <2>6. Kept(sk[e], t)
    BY Zenon, <2>4, <2>5, Untagged DEF Kept
  <2>7. EndInv(tcp_done(t))
    BY Zenon, <1>0, <2>5, <2>6, TimersKeep, KeptTrans, KeptInv
  <2>8. Step(e, tcp_done(t))
    BY Zenon, <1>5, <2>1, <2>2, <2>3 DEF UserTimeout
  <2> QED
    BY Zenon, <2>7, <2>8, StepInv
<1> QED
  BY Zenon, <1>1, <1>2, <1>3, <1>4, <1>5

\* A segment arrives.
LEMMA ReceiveInv ==
  ASSUME FecInv, NEW e \in Ends, Receive(e)
  PROVE  FecInv'
<1>1. PICK m \in net[e] : \/ RepairArrives(e, m) \/ UnacceptableArrives(e, m) \/ ResetArrives(e, m)
                          \/ UselessAckArrives(e, m) \/ LastAckArrives(e, m) \/ SegmentArrives(e, m)
  BY Zenon DEF Receive
<1>2. EndInv(sk[e]) /\ Tagged(m.tag)
  BY Zenon DEF FecInv, Tags
<1>3. PICK s : s = AfterFec(sk[e], m)
  BY Zenon
<1>4. EndInv(tcp_fec_input(sk[e], m)) /\ EndInv(s) /\ Has(s)
  BY Zenon, <1>2, <1>3, FecInputInv DEF AfterFec, EndInv
<1>5. EndInv(tcp_send_ack(s)) /\ EndInv(tcp_enter_time_wait(s)) /\ EndInv(AckField(s, m))
  BY Zenon, <1>4, AckKeeps, TimersKeep, KeptInv, AckFieldInv
<1>6. EndInv(tcp_done(AckField(s, m))) /\ EndInv(Accepted(s, m))
  BY Zenon, <1>4, <1>5, TimersKeep, KeptInv, AcceptedInv DEF EndInv
<1>7. CASE RepairArrives(e, m)
  BY Zenon, <1>4, <1>7, HandlesInv DEF RepairArrives
<1>8. CASE UnacceptableArrives(e, m)
  BY Zenon, <1>3, <1>4, <1>5, <1>8, HandlesInv DEF UnacceptableArrives
<1>9. CASE ResetArrives(e, m)
  BY Zenon, <1>3, <1>5, <1>9, HandlesInv DEF ResetArrives
<1>10. CASE UselessAckArrives(e, m)
  BY Zenon, <1>3, <1>4, <1>10, HandlesInv DEF UselessAckArrives
<1>11. CASE LastAckArrives(e, m)
  BY Zenon, <1>3, <1>6, <1>11, HandlesInv DEF LastAckArrives
<1>12. CASE SegmentArrives(e, m)
  BY Zenon, <1>3, <1>6, <1>12, HandlesInv DEF SegmentArrives
<1> QED
  BY Zenon, <1>1, <1>7, <1>8, <1>9, <1>10, <1>11, <1>12

\* The network loses a segment.
LEMMA LoseInv ==
  ASSUME FecInv, NEW e \in Ends, Lose(e)
  PROVE  FecInv'
<1>1. DOMAIN net' = Ends /\ \A d \in Ends : net'[d] \subseteq net[d]
  BY Zenon DEF Lose, FecInv
<1>2. sk' = sk
  BY Zenon DEF Lose
<1> QED
  BY Zenon, <1>1, <1>2 DEF FecInv, Tags

\* No step of either end or of the network leaves a recoverable block behind.
LEMMA NextFec == FecInv /\ [Next]_vars => FecInv'
<1> SUFFICES ASSUME FecInv, [Next]_vars PROVE FecInv'
  BY Zenon
<1>1. CASE Next
  <2>1. PICK e \in Ends :
          \/ \E n \in WriteSizes, intact \in BOOLEAN : Write(e, n, intact)
          \/ \E intact \in BOOLEAN : Close(e, intact)
          \/ RtoExpires(e) \/ RunsRtoHandler(e) \/ DelackTimeout(e) \/ TimeWaitTimeout(e)
          \/ UserTimeout(e) \/ Receive(e) \/ Lose(e)
    BY Zenon, <1>1 DEF Next
  <2> QED
    BY Zenon, <2>1, AppInv, ExpiryInv, RetransmitInv, ReceiveInv, LoseInv DEF RunsRtoHandler
<1>2. CASE UNCHANGED vars
  BY Zenon, <1>2 DEF vars, FecInv
<1> QED
  BY Zenon, <1>1, <1>2

------------------------------------------------------------------------------
\* A socket right after the handshake, of any state and with any number of bytes written.
LEMMA EstablishedInv ==
  ASSUME NEW s, Has(s), s.rx = [i \in 1..RxBlocks |-> FreeSlot], s.write_queue = <<>>, s.enc = <<>>,
         s.out = {}
  PROVE  EndInv(s)
<1>1. SlotInv(FreeSlot)
  <2>1. PICK blk : blk = FreeSlot
    BY Zenon
  <2>2. /\ {"active", "block_id", "recovered", "blk_k", "src", "red"} \subseteq DOMAIN blk
        /\ blk.blk_k = 0 /\ blk.block_id = 0 /\ blk.active = FALSE
    BY Zenon, <2>1 DEF FreeSlot
  <2>3. SlotType(blk)
    BY <2>2, WireAssumption DEF SlotType
  <2> QED
    BY Zenon, <2>1, <2>2, <2>3 DEF SlotInv
<1>2. RxInv(s.rx)
  BY Zenon, <1>1 DEF RxInv
<1>3. \E S : <<>> \in Seq(S)
  OBVIOUS
<1>4. Len(<<>>) = 0 /\ 0 <= K /\ 1..0 = {}
  BY WireAssumption
<1> QED
  BY Zenon, <1>2, <1>3, <1>4 DEF EndInv, QueueTags, EncInv, Tags

\* After the handshake no block has begun; the symbols of the external sender are tagged
\* with their blocks.
LEMMA InitFec == MCInit => FecInv
<1>1. Has(Established) /\ Established.rx = [i \in 1..RxBlocks |-> FreeSlot]
      /\ Established.write_queue = <<>> /\ Established.enc = <<>> /\ Established.out = {}
  BY Zenon DEF Established, Has
<1>2. CASE Init
  <2>1. EndInv(Established)
    BY Zenon, <1>1, EstablishedInv
  <2>2. DOMAIN sk = Ends /\ DOMAIN net = Ends
        /\ \A e \in Ends : sk[e] = Established /\ net[e] = {}
    BY Zenon, <1>2 DEF Init
  <2> QED
    BY Zenon, <2>1, <2>2 DEF FecInv, Tags
<1>3. CASE CodedInit
  <2>1. PICK a : a = [Established EXCEPT !.state = "EXTERNAL", !.written = Blocks * K * Sym]
    BY Zenon
  <2>2. Has(a) /\ a.rx = Established.rx /\ a.write_queue = Established.write_queue
        /\ a.enc = Established.enc /\ a.out = Established.out
    <3>1. PICK x : x = Established
      BY Zenon
    <3> QED
      BY SMTT(40), <1>1, <2>1, <3>1 DEF Has
  <2>3. EndInv(a) /\ EndInv(Established)
    BY Zenon, <1>1, <2>2, EstablishedInv
  <2>4. DOMAIN sk = Ends /\ DOMAIN net = Ends /\ sk["A"] = a /\ sk["B"] = Established
        /\ net["A"] = {} /\ net["B"] = Coded
    BY Zenon, <1>3, <2>1 DEF CodedInit, Ends
  <2>5. ASSUME NEW b \in 0..Blocks-1, NEW m \in BlockSources(b) PROVE Tagged(m.tag)
    <3>1. PICK i \in 0..K-1 :
            m = Segment(SymbolAt(b, i), 1, Symbol(b, i), TRUE, FALSE, FALSE, SourceTag(b, i))
      BY Zenon DEF BlockSources
    <3>2. m.tag = SourceTag(b, i)
      BY Zenon, <3>1 DEF Segment
    <3>3. b \in Nat /\ i \in Nat
      OBVIOUS
    <3> QED
      BY SMTT(40), <3>2, <3>3 DEF Tagged, SourceTag
  <2>6. ASSUME NEW b \in 0..Blocks-1, NEW m \in BlockRepairs(b) PROVE Tagged(m.tag)
    <3>1. PICK j \in 0..R-1 :
            m = Segment(SymbolAt(b + 1, 0), 1, Nothing, FALSE, FALSE, FALSE,
                  RepairTag(b, j, K, SymbolAt(b, 0), Sym, [i \in 1..K |-> Symbol(b, i - 1)]))
      BY Zenon DEF BlockRepairs
    <3>2. m.tag = RepairTag(b, j, K, SymbolAt(b, 0), Sym, [i \in 1..K |-> Symbol(b, i - 1)])
      BY Zenon, <3>1 DEF Segment
    <3>3. b \in Nat /\ K \in 0..K
      BY WireAssumption
    <3>4. m.tag.type = "repair" /\ m.tag.block = b /\ m.tag.k = K
      BY <3>2 DEF RepairTag
    <3> QED
      BY Zenon, <3>3, <3>4 DEF Tagged
  <2>7. Tags(Coded)
    BY Zenon, <2>5, <2>6 DEF Tags, Coded
  <2>8. Tags({})
    BY Zenon DEF Tags
  <2>9. \A e \in Ends : EndInv(sk[e]) /\ Tags(net[e])
    BY Zenon, <2>3, <2>4, <2>7, <2>8 DEF Ends
  <2> QED
    BY Zenon, <2>4, <2>9 DEF FecInv
<1> QED
  BY Zenon, <1>2, <1>3 DEF MCInit

\* A block of which the receiver holds k symbols is recovered at once: for every k, r
\* and number of slots, in whatever order and number the segments of either sender come,
\* whatever is evicted, and whatever else the two ends do (tcp_fec_input).
THEOREM FecRecovers == MCSpec => []RecoveredOnceRecoverable
<1>1. FecInv => RecoveredOnceRecoverable
  BY Zenon DEF FecInv, EndInv, RxInv, SlotInv, Recoverable, RecoveredOnceRecoverable
<1> QED
  BY <1>1, InitFec, NextFec, PTL DEF MCSpec

==============================================================================
