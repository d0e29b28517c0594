---------------------------- MODULE ServicesProofs ----------------------------
(***************************************************************************)
(* The services around the protocol, for every set of neighbours, segment  *)
(* sizes and buffer sizes: the ARP cache and the reader of a connection.   *)
(***************************************************************************)
EXTENDS MCServices, FiniteSetTheorems, TLAPS

mcvars == <<service, vars, readvars, arpvars, checkvars>>

------------------------------------------------------------------------------
\* The least-number principle, as in TcpEndProofs, whose state is another.

\* A non-empty set of naturals has a least element.  The walks over the cache and the receive
\* queue stop at a first place.
LEMMA LeastNat ==
  ASSUME NEW T, T \subseteq Nat, T # {}
  PROVE  \E n \in T : \A m \in T : n <= m
<1> DEFINE Below == OpToRel(<, Nat)
<1>1. \A m, n \in Nat : m < n => <<m, n>> \in Below
  BY Zenon DEF OpToRel
<1>2. IsWellFoundedOn(Below, Nat)
  BY Zenon, NatLessThanWellFounded
<1> HIDE DEF Below
<1>3. PICK n \in T : \A m \in T : ~(<<m, n>> \in Below)
  BY Zenon, <1>2, WFMin
<1>4. ASSUME NEW m \in T PROVE n <= m
  <2>1. m \in Nat /\ n \in Nat
    BY Zenon
  <2>2. ~(m < n)
    BY Zenon, <1>1, <1>3, <2>1
  <2> QED BY <2>1, <2>2
<1> QED BY Zenon, <1>4

\* Of a sequence of L elements there is a longest prefix with a property the empty
\* one has: where tcp_data_dequeue leaves its loop.
LEMMA LongestPrefix ==
  ASSUME NEW L \in Nat, NEW S, 0 \in S
  PROVE  \E n \in 0..L : n \in S /\ (n < L => n + 1 \notin S)
<1> DEFINE T == {n \in 1..L : n \notin S}
<1>1. CASE T = {}
  <2>1. L \in S
    BY <1>1
  <2> QED BY <2>1
<1>2. CASE T # {}
  <2>1. T \subseteq Nat
    OBVIOUS
  <2>2. PICK n \in T : \A m \in T : n <= m
    <3> HIDE DEF T
    <3> QED BY Zenon, <1>2, <2>1, LeastNat
  <2>3. n - 1 \in 0..L /\ n - 1 < L /\ n - 1 + 1 = n
    OBVIOUS
  <2>4. n - 1 \in S
    BY <2>2, <2>3
  <2> QED BY Zenon, <2>3, <2>4
<1> QED BY Zenon, <1>1, <1>2

------------------------------------------------------------------------------
\* The ARP cache.

\* A hardware address neighbour n has announced after at most k moves.
Announced(mac, n, k) == \E v \in 0..k : mac = Neigh!Mac(n, v)

Macs == {Neigh!Mac(n, v) : n \in Neighbours, v \in Nat}
Halves == (Neighbours \union {Us}) \X Nat

\* Entries say of a neighbour what it has announced, and there is one for each.
CacheInv(cache, mv) ==
  /\ cache \in Seq([sip: Neighbours, smac: Macs])
  /\ \A i \in 1..Len(cache) : Announced(cache[i].smac, cache[i].sip, mv[cache[i].sip])
  /\ \A i, j \in 1..Len(cache) : cache[i].sip = cache[j].sip => i = j

\* So do the packets that come.
InboxInv(in, mv) == \A m \in in : m.sip \in Neighbours /\ Announced(m.smac, m.sip, mv[m.sip])

\* The sender's pointer leads to the entry of its destination.
TxInv(t, cache, mv) ==
  /\ t \in [pc: {"idle", "copy", "send"}, daddr: Neighbours \union {Us}, entry: Nat, high: Halves]
  /\ t.pc # "idle" => /\ t.daddr \in Neighbours /\ t.entry \in 1..Len(cache)
                      /\ cache[t.entry].sip = t.daddr
  /\ t.pc = "send" => \E v \in 0..mv[t.daddr] : t.high = <<t.daddr, v>>

FramesInv(fs, mv) ==
  \A f \in fs : /\ f.daddr \in Neighbours
                /\ \A h \in 1..2 : \E v \in 0..mv[f.daddr] : f.dmac[h] = Neigh!Mac(f.daddr, v)[h]

ArpInv ==
  /\ moves \in [Neighbours -> Nat] /\ requests \subseteq Neighbours /\ waiting \subseteq Neighbours
  /\ CacheInv(arp_cache, moves) /\ InboxInv(inbox, moves)
  /\ TxInv(tx, arp_cache, moves) /\ FramesInv(frames, moves)

\* The elements of a sequence.
LEMMA ElementsOf ==
  ASSUME NEW S, NEW s \in Seq(S)
  PROVE  \A i \in 1..Len(s) : s[i] \in S
OBVIOUS

\* The cache starts empty and nothing is on its way.
LEMMA InitArp == MCInit => ArpInv
BY DEF MCInit, Neigh!Init, ArpInv, Neigh!Idle, CacheInv, InboxInv, TxInv, FramesInv, Halves

\* arp_get_hwaddr finds the entry of the address it is asked for.
LEMMA HwAddr ==
  ASSUME NEW sip, Neigh!arp_get_hwaddr(sip) # 0, ArpInv
  PROVE  /\ Neigh!arp_get_hwaddr(sip) \in 1..Len(arp_cache)
         /\ arp_cache[Neigh!arp_get_hwaddr(sip)].sip = sip
<1> DEFINE E == Neigh!Entries(sip)
<1>1. E # {} /\ Neigh!arp_get_hwaddr(sip) = CHOOSE i \in E : \A j \in E : i <= j
  BY Zenon DEF Neigh!arp_get_hwaddr
<1>2. E \subseteq 1..Len(arp_cache) /\ \A i \in E : arp_cache[i].sip = sip
  BY DEF Neigh!Entries, ArpInv, CacheInv
<1> HIDE DEF E
<1>3. \E i \in E : \A j \in E : i <= j
  <2>1. E \subseteq Nat
    BY <1>2
  <2> QED
    BY Zenon, <1>1, <2>1, LeastNat
<1> QED
  BY Zenon, <1>1, <1>2, <1>3

\* update_arp_translation_table changes the entry of the sender and keeps the others.
LEMMA UpdatedCache ==
  ASSUME ArpInv, NEW m \in inbox
  PROVE  /\ CacheInv(Neigh!Updated(m), moves) /\ Len(Neigh!Updated(m)) = Len(arp_cache)
         /\ \A i \in 1..Len(arp_cache) : Neigh!Updated(m)[i].sip = arp_cache[i].sip
<1> DEFINE Entry == [sip: Neighbours, smac: Macs]
           at == Neigh!arp_get_hwaddr(m.sip)
           up == Neigh!Updated(m)
<1>0. /\ arp_cache \in Seq(Entry) /\ m.sip \in Neighbours /\ moves[m.sip] \in Nat
      /\ Announced(m.smac, m.sip, moves[m.sip])
      /\ \A i \in 1..Len(arp_cache) :
           Announced(arp_cache[i].smac, arp_cache[i].sip, moves[arp_cache[i].sip])
      /\ \A i, j \in 1..Len(arp_cache) : arp_cache[i].sip = arp_cache[j].sip => i = j
  BY Zenon DEF ArpInv, CacheInv, InboxInv
<1>1. m.smac \in Macs
  BY <1>0 DEF Announced, Macs
<1>2. \A i \in 1..Len(arp_cache) : i = at => arp_cache[i].sip = m.sip
  BY HwAddr
<1>3. up = [i \in 1..Len(arp_cache) |->
              IF i = at THEN [arp_cache[i] EXCEPT !.smac = m.smac] ELSE arp_cache[i]]
  BY <1>0 DEF Neigh!Updated
<1> HIDE DEF up, at
<1>4. \A i \in 1..Len(arp_cache) :
        /\ up[i] \in Entry /\ up[i].sip = arp_cache[i].sip
        /\ up[i].smac = IF i = at THEN m.smac ELSE arp_cache[i].smac
  <2>1. m.smac \in Macs
    BY Zenon, <1>1
  <2>2. \A i \in 1..Len(arp_cache) : arp_cache[i] \in [sip: Neighbours, smac: Macs]
    BY Zenon, <1>0, ElementsOf
  <2>3. \A i \in 1..Len(arp_cache) :
          /\ up[i] \in [sip: Neighbours, smac: Macs] /\ up[i].sip = arp_cache[i].sip
          /\ up[i].smac = IF i = at THEN m.smac ELSE arp_cache[i].smac
    BY Zenon, <1>3, <2>1, <2>2
  <2> QED
    BY Zenon, <2>3
<1>5. up \in Seq(Entry) /\ Len(up) = Len(arp_cache)
  BY <1>0, <1>3, <1>4
<1>6. \A i \in 1..Len(arp_cache) : Announced(up[i].smac, up[i].sip, moves[up[i].sip])
  BY <1>0, <1>2, <1>4
<1>7. CacheInv(up, moves)
  BY Zenon, <1>0, <1>4, <1>5, <1>6 DEF CacheInv
<1> QED
  BY Zenon, <1>4, <1>5, <1>7 DEF up

\* arp_rcv: a sender that has no entry gets one, at the end of the cache.
LEMMA ArpReceives ==
  ASSUME ArpInv, NEW m \in inbox, Neigh!arp_rcv(m)
  PROVE  ArpInv'
<1> DEFINE Entry == [sip: Neighbours, smac: Macs]
           e == [sip |-> m.sip, smac |-> m.smac]
           up == Neigh!Updated(m)
<1>0. /\ arp_cache \in Seq(Entry) /\ m.sip \in Neighbours /\ moves[m.sip] \in Nat
      /\ Announced(m.smac, m.sip, moves[m.sip]) /\ TxInv(tx, arp_cache, moves)
  BY Zenon DEF ArpInv, CacheInv, InboxInv
<1>1. /\ moves' = moves /\ requests' = requests /\ waiting' = waiting /\ tx' = tx
      /\ frames' = frames /\ inbox' \subseteq inbox
      /\ \/ arp_cache' = up
         \/ Neigh!Entries(m.sip) = {} /\ arp_cache' = Append(up, e)
  BY Zenon DEF Neigh!arp_rcv, Neigh!insert_arp_translation_table, Neigh!Merge
<1>2. CacheInv(up, moves) /\ Len(up) = Len(arp_cache)
      /\ \A i \in 1..Len(arp_cache) : up[i].sip = arp_cache[i].sip
  BY Zenon, UpdatedCache
<1>3. e \in Entry /\ e.sip = m.sip /\ e.smac = m.smac
  <2>1. m.smac \in Macs
    BY <1>0 DEF Announced, Macs
  <2> QED
    BY Zenon, <1>0, <2>1
<1> HIDE DEF up, e
<1>4. /\ CacheInv(arp_cache', moves) /\ Len(arp_cache) <= Len(arp_cache')
      /\ \A i \in 1..Len(arp_cache) : arp_cache'[i].sip = arp_cache[i].sip
  <2>1. CASE arp_cache' = up
    BY <1>0, <1>2, <2>1
  <2>2. CASE Neigh!Entries(m.sip) = {} /\ arp_cache' = Append(up, e)
    <3>1. \A i \in 1..Len(arp_cache) : up[i].sip # m.sip
      BY <1>0, <1>2, <2>2 DEF Neigh!Entries
    <3>2. up \in Seq(Entry)
      BY Zenon, <1>2 DEF CacheInv
    <3>3. /\ Append(up, e) \in Seq(Entry) /\ Len(Append(up, e)) = Len(arp_cache) + 1
          /\ \A i \in 1..Len(arp_cache) : Append(up, e)[i] = up[i]
          /\ Append(up, e)[Len(arp_cache) + 1] = e
      BY <1>2, <1>3, <3>2
    <3> DEFINE c == Append(up, e)
               L == Len(arp_cache)
    <3>4. L \in Nat
      BY <1>0
    <3> HIDE DEF c, L
    <3>5. \A i \in 1..Len(c) : Announced(c[i].smac, c[i].sip, moves[c[i].sip])
      BY SMTT(40), <1>0, <1>2, <1>3, <3>3, <3>4 DEF CacheInv, c, L
    <3>6. \A i, j \in 1..Len(c) : c[i].sip = c[j].sip => i = j
      BY SMTT(40), <1>2, <1>3, <3>1, <3>3, <3>4 DEF CacheInv, c, L
    <3>7. CacheInv(c, moves)
      BY Zenon, <3>3, <3>5, <3>6 DEF CacheInv, c
    <3> QED
      BY SMTT(40), <1>0, <1>2, <2>2, <3>3, <3>7 DEF c
  <2> QED
    BY Zenon, <1>1, <2>1, <2>2
<1>5. TxInv(tx, arp_cache', moves)
  BY <1>0, <1>4 DEF TxInv
<1> QED
  BY Zenon, <1>1, <1>4, <1>5 DEF ArpInv, InboxInv

\* The sender: it looks the address up and copies it in two halves.
LEMMA ArpSends ==
  ASSUME ArpInv, Neigh!Sender \/ Neigh!Copies
  PROVE  ArpInv'
<1>0. TxInv(tx, arp_cache, moves) /\ CacheInv(arp_cache, moves) /\ FramesInv(frames, moves)
      /\ moves \in [Neighbours -> Nat]
  BY Zenon DEF ArpInv
<1>1. moves' = moves /\ arp_cache' = arp_cache /\ inbox' = inbox
  BY Zenon DEF Neigh!Sender, Neigh!Copies, Neigh!NotResolved, Neigh!Resolved, Neigh!CopyHigh, Neigh!CopyLowAndSend
<1>2. ASSUME NEW d \in Neighbours, Neigh!NotResolved(d) PROVE ArpInv'
  BY Zenon, <1>1, <1>2 DEF Neigh!NotResolved, Neigh!arp_request, ArpInv
<1>3. ASSUME NEW d \in Neighbours, Neigh!Resolved(d) PROVE ArpInv'
  <2> DEFINE at == Neigh!arp_get_hwaddr(d)
  <2>1. at \in 1..Len(arp_cache) /\ arp_cache[at].sip = d
    BY Zenon, <1>3, HwAddr DEF Neigh!Resolved
  <2>2. tx' = [tx EXCEPT !.pc = "copy", !.daddr = d, !.entry = at]
        /\ frames' = frames /\ requests' = requests /\ waiting' = waiting
    BY Zenon, <1>3 DEF Neigh!Resolved
  <2> HIDE DEF at
  <2>3. TxInv(tx', arp_cache, moves)
    <3>1. at \in Nat
      BY <2>1
    <3> QED
      BY ZenonT(40), <1>0, <2>1, <2>2, <3>1 DEF TxInv
  <2> QED
    BY Zenon, <1>1, <2>2, <2>3 DEF ArpInv
<1>4. CASE Neigh!CopyHigh
  <2>1. /\ tx.pc = "copy" /\ tx' = [tx EXCEPT !.pc = "send", !.high = arp_cache[tx.entry].smac[1]]
        /\ frames' = frames /\ requests' = requests /\ waiting' = waiting
    BY Zenon, <1>4 DEF Neigh!CopyHigh
  <2>2. tx.daddr \in Neighbours /\ tx.entry \in 1..Len(arp_cache) /\ arp_cache[tx.entry].sip = tx.daddr
        /\ moves[tx.daddr] \in Nat
    BY Zenon, <1>0, <2>1 DEF TxInv
  <2>3. PICK v \in 0..moves[tx.daddr] : arp_cache[tx.entry].smac = Neigh!Mac(tx.daddr, v)
    <3>1. Announced(arp_cache[tx.entry].smac, tx.daddr, moves[tx.daddr])
      BY Zenon, <1>0, <2>2 DEF CacheInv
    <3> QED
      BY Zenon, <3>1 DEF Announced
  <2>4. tx' = [tx EXCEPT !.pc = "send", !.high = <<tx.daddr, v>>] /\ v \in Nat
    BY <2>1, <2>2, <2>3 DEF Neigh!Mac
  <2>5. TxInv(tx', arp_cache, moves)
    <3>1. <<tx.daddr, v>> \in Halves
      BY Zenon, <2>2, <2>4 DEF Halves
    <3> QED
      BY Zenon, <1>0, <2>2, <2>3, <2>4, <3>1 DEF TxInv
  <2> QED
    BY Zenon, <1>1, <2>1, <2>5 DEF ArpInv
<1>5. CASE Neigh!CopyLowAndSend
  <2>1. /\ tx.pc = "send" /\ tx' = Neigh!Idle /\ requests' = requests /\ waiting' \subseteq waiting
        /\ frames' = frames \union {[daddr |-> tx.daddr,
                                     dmac |-> <<tx.high, arp_cache[tx.entry].smac[2]>>]}
    BY Zenon, <1>5 DEF Neigh!CopyLowAndSend
  <2>2. tx.daddr \in Neighbours /\ tx.entry \in 1..Len(arp_cache) /\ arp_cache[tx.entry].sip = tx.daddr
        /\ moves[tx.daddr] \in Nat
    BY SMTT(40), <1>0, <2>1 DEF TxInv
  <2>3. PICK v \in 0..moves[tx.daddr] : arp_cache[tx.entry].smac = Neigh!Mac(tx.daddr, v)
    <3>1. Announced(arp_cache[tx.entry].smac, tx.daddr, moves[tx.daddr])
      BY Zenon, <1>0, <2>2 DEF CacheInv
    <3> QED
      BY Zenon, <3>1 DEF Announced
  <2>4. PICK w \in 0..moves[tx.daddr] : tx.high = <<tx.daddr, w>>
    BY Zenon, <1>0, <2>1 DEF TxInv
  <2> DEFINE f == [daddr |-> tx.daddr, dmac |-> <<tx.high, arp_cache[tx.entry].smac[2]>>]
  <2>5. f.daddr = tx.daddr /\ f.dmac[1] = Neigh!Mac(tx.daddr, w)[1] /\ f.dmac[2] = Neigh!Mac(tx.daddr, v)[2]
    BY Zenon, <2>3, <2>4 DEF Neigh!Mac
  <2> HIDE DEF f
  <2>6. \A h \in 1..2 : \E x \in 0..moves[f.daddr] : f.dmac[h] = Neigh!Mac(f.daddr, x)[h]
    <3>1. \A h \in 1..2 : h = 1 \/ h = 2
      OBVIOUS
    <3> QED
      BY Zenon, <2>5, <3>1
  <2>7. FramesInv(frames \union {f}, moves)
    BY SMTT(40), <1>0, <2>2, <2>5, <2>6 DEF FramesInv
  <2>8. frames' = frames \union {f}
    BY Zenon, <2>1 DEF f
  <2>9. TxInv(tx', arp_cache, moves)
    BY Zenon, <2>1 DEF TxInv, Neigh!Idle, Halves
  <2> QED
    BY Zenon, <1>1, <2>1, <2>7, <2>8, <2>9 DEF ArpInv
<1> QED
  BY Zenon, <1>2, <1>3, <1>4, <1>5 DEF Neigh!Sender, Neigh!Copies

\* The neighbours and the link.
LEMMA ArpLink ==
  ASSUME ArpInv,
         \/ Neigh!Lose
         \/ \E n \in Neighbours : Neigh!Answers(n) \/ Neigh!Moves(n)
         \/ \E n \in Neighbours, dip \in Neighbours \union {Us} : Neigh!Asks(n, dip)
  PROVE  ArpInv'
<1>0. moves \in [Neighbours -> Nat] /\ InboxInv(inbox, moves)
  BY Zenon DEF ArpInv
<1>1. CASE Neigh!Lose
  <2>1. /\ inbox' \subseteq inbox /\ requests' \subseteq requests /\ moves' = moves
        /\ arp_cache' = arp_cache /\ tx' = tx /\ waiting' = waiting /\ frames' = frames
    BY Zenon, <1>1 DEF Neigh!Lose
  <2> QED
    BY Zenon, <2>1 DEF ArpInv, InboxInv
<1>2. ASSUME NEW n \in Neighbours, NEW p, p.sip = n, p.smac = Neigh!Mac(n, moves[n]),
             inbox' = inbox \union {p}, requests' \subseteq requests,
             moves' = moves, arp_cache' = arp_cache, tx' = tx, waiting' = waiting, frames' = frames
      PROVE  ArpInv'
  <2>1. moves[n] \in 0..moves[n]
    BY <1>0
  <2>2. InboxInv(inbox', moves)
    BY Zenon, <1>0, <1>2, <2>1 DEF InboxInv, Announced
  <2> QED
    BY Zenon, <1>2, <2>2 DEF ArpInv
<1>3. ASSUME NEW n \in Neighbours, NEW dip, Neigh!Answers(n) \/ Neigh!Asks(n, dip) PROVE ArpInv'
  <2>1. \A o, d : /\ Neigh!Packet(o, n, d).sip = n
                  /\ Neigh!Packet(o, n, d).smac = Neigh!Mac(n, moves[n])
    BY Zenon DEF Neigh!Packet
  <2>2. \E o, d : inbox' = inbox \union {Neigh!Packet(o, n, d)}
    BY <1>3, Zenon DEF Neigh!Answers, Neigh!Asks
  <2>3. /\ requests' \subseteq requests /\ moves' = moves /\ arp_cache' = arp_cache /\ tx' = tx
        /\ waiting' = waiting /\ frames' = frames
    BY Zenon, <1>3 DEF Neigh!Answers, Neigh!Asks
  <2> QED
    BY Zenon, <1>2, <2>1, <2>2, <2>3
<1>4. ASSUME NEW n \in Neighbours, Neigh!Moves(n) PROVE ArpInv'
  <2>1. /\ moves' \in [Neighbours -> Nat] /\ \A x \in Neighbours : moves[x] <= moves'[x]
        /\ inbox' = inbox /\ requests' = requests
        /\ arp_cache' = arp_cache /\ tx' = tx /\ waiting' = waiting /\ frames' = frames
    BY <1>0, <1>4 DEF Neigh!Moves
  <2>2. \A x \in Neighbours : 0..moves[x] \subseteq 0..moves'[x]
    BY SMTT(40), <1>0, <2>1
  <2>3. \A mac : \A x \in Neighbours : Announced(mac, x, moves[x]) => Announced(mac, x, moves'[x])
    BY Zenon, <2>2 DEF Announced
  <2>4. InboxInv(inbox, moves')
    BY Zenon, <1>0, <2>3 DEF InboxInv
  <2>5. CacheInv(arp_cache, moves')
    <3>1. \A i \in 1..Len(arp_cache) : arp_cache[i].sip \in Neighbours
      <4>1. \A i \in 1..Len(arp_cache) : arp_cache[i] \in [sip: Neighbours, smac: Macs]
        BY Zenon, ElementsOf DEF ArpInv, CacheInv
      <4> QED
        BY Zenon, <4>1
    <3> QED
      BY Zenon, <2>3, <3>1 DEF ArpInv, CacheInv
  <2>6. TxInv(tx, arp_cache, moves')
    <3>1. TxInv(tx, arp_cache, moves)
      BY Zenon DEF ArpInv
    <3>2. tx.pc = "send" => \E v \in 0..moves'[tx.daddr] : tx.high = <<tx.daddr, v>>
      BY Zenon, <2>2, <3>1 DEF TxInv
    <3> QED
      BY Zenon, <3>1, <3>2 DEF TxInv
  <2>7. FramesInv(frames, moves')
    BY <2>2, Zenon DEF ArpInv, FramesInv
  <2> QED
    BY SMTT(40), <2>1, <2>4, <2>5, <2>6, <2>7 DEF ArpInv
<1> QED
  BY Zenon, <1>1, <1>3, <1>4

\* Every step of every service keeps it.
LEMMA NextArp == ArpInv /\ [MCNext]_mcvars => ArpInv'
<1> SUFFICES ASSUME ArpInv, [MCNext]_mcvars PROVE ArpInv'
  BY Zenon
<1>1. CASE Neigh!Next
  BY Zenon, <1>1, ArpSends, ArpReceives, ArpLink DEF Neigh!Next, Neigh!Receives
<1>2. CASE arp_cache' = arp_cache /\ tx' = tx /\ waiting' = waiting /\ frames' = frames
           /\ requests' = requests /\ inbox' = inbox /\ moves' = moves
  BY <1>2 DEF ArpInv
<1> QED
  BY Zenon, <1>1, <1>2 DEF MCNext, mcvars, arpvars

\* A neighbour has one cache entry, however often requests and replies repeat: arp_rcv merges
\* before it inserts.
THEOREM ServicesOneEntry == MCSpec => []OneEntryEach
<1>1. ArpInv => OneEntryEach
  <2> SUFFICES ASSUME ArpInv PROVE OneEntryEach
    BY Zenon
  <2>1. DOMAIN arp_cache = 1..Len(arp_cache)
    BY DEF ArpInv, CacheInv
  <2> QED
    BY Zenon, <2>1 DEF ArpInv, CacheInv, OneEntryEach, Neigh!OneEntryEach
<1>2. MCSpec => MCInit /\ [][MCNext]_mcvars
  BY Zenon DEF MCSpec, mcvars
<1> QED
  BY <1>1, <1>2, InitArp, NextArp, PTL

\* Each half of the address dst_neigh_output puts on a frame is one its neighbour announced,
\* whatever arp_rcv does while netdev_transmit copies.
THEOREM ServicesFrameHalves == MCSpec => []FrameHalvesAnnounced
<1>1. ArpInv => FrameHalvesAnnounced
  BY Zenon DEF ArpInv, FramesInv, FrameHalvesAnnounced, Neigh!FrameHalvesAnnounced
<1>2. MCSpec => MCInit /\ [][MCNext]_mcvars
  BY Zenon DEF MCSpec, mcvars
<1> QED
  BY <1>1, <1>2, InitArp, NextArp, PTL

------------------------------------------------------------------------------
\* The bytes of a receive queue.

\* An sk_buff of the receive queue.
Skb == [dlen: Nat, psh: BOOLEAN]

\* What Size sums up, skb by skb.
Upto(q) == CHOOSE u : u = [i \in 0..Len(q) |-> IF i = 0 THEN 0 ELSE u[i - 1] + q[i].dlen]

\* Size is the last of these sums.
LEMMA SizeIsSum ==
  ASSUME NEW q
  PROVE  Read!Size(q) = Upto(q)[Len(q)]
BY Zenon DEF Read!Size, Upto

\* For n elements u grows from a as v does from b.
SameSteps(u, a, v, b, n) ==
  /\ \A i \in 0..n : u[a + i] \in Int /\ v[b + i] \in Int
  /\ \A i \in 0..(n - 1) :
       \E x \in Int : u[a + (i + 1)] = u[a + i] + x /\ v[b + (i + 1)] = v[b + i] + x

\* Two sums whose summands agree, the one from a and the other from b.
LEMMA SameSummands ==
  ASSUME NEW u, NEW a \in Nat, NEW v, NEW b \in Nat, NEW n \in Nat, SameSteps(u, a, v, b, n)
  PROVE  u[a + n] - u[a] = v[b + n] - v[b]
<1> DEFINE T == {i \in 0..n : u[a + i] - u[a] # v[b + i] - v[b]}
<1>0. a + 0 = a /\ b + 0 = b /\ n \in 0..n
  OBVIOUS
<1> SUFFICES ASSUME T # {} PROVE FALSE
  BY Zenon, <1>0
<1>1. PICK i \in T : \A j \in T : i <= j
  <2>1. T \subseteq Nat
    OBVIOUS
  <2> HIDE DEF T
  <2> QED
    BY Zenon, <2>1, LeastNat
<1>2. i \in 0..n /\ u[a + i] - u[a] # v[b + i] - v[b]
  BY Zenon
<1>3. u[a] \in Int /\ v[b] \in Int
  BY <1>0 DEF SameSteps
<1>4. i # 0
  BY <1>0, <1>2, <1>3
<1>5. PICK j \in 0..(n - 1) : i = j + 1 /\ j \in 0..n /\ j < i
  <2>1. i - 1 \in 0..(n - 1) /\ i = (i - 1) + 1 /\ i - 1 \in 0..n /\ i - 1 < i
    BY <1>2, <1>4
  <2> QED
    BY Zenon, <2>1
<1>6. j \notin T
  BY <1>1, <1>2, <1>5
<1>7. u[a + j] - u[a] = v[b + j] - v[b]
  BY Zenon, <1>5, <1>6
<1>8. PICK x \in Int : u[a + i] = u[a + j] + x /\ v[b + i] = v[b + j] + x
  BY Zenon, <1>5 DEF SameSteps
<1>9. u[a + j] \in Int /\ v[b + j] \in Int
  BY Zenon, <1>5 DEF SameSteps
<1> HIDE DEF T
<1> QED
  BY SMTT(40), <1>2, <1>3, <1>7, <1>8, <1>9

\* u does not fall up to n.
Grows(u, n) == (\A i \in 0..n : u[i] \in Nat) /\ \A i \in 1..n : u[i - 1] <= u[i]

\* A sum of lengths does not fall.
LEMMA SumsGrow ==
  ASSUME NEW f, NEW n \in Nat, Grows(f, n), NEW k \in 0..n, NEW m \in k..n
  PROVE  f[k] <= f[m]
<1> DEFINE T == {i \in k..n : f[k] > f[i]}
<1>0. (\A i \in 0..n : f[i] \in Nat) /\ \A i \in 1..n : f[i - 1] <= f[i]
  BY Zenon DEF Grows
<1> SUFFICES ASSUME T # {} PROVE FALSE
  BY <1>0
<1>1. PICK i \in T : \A j \in T : i <= j
  <2>1. T \subseteq Nat
    OBVIOUS
  <2> HIDE DEF T
  <2> QED
    BY ZenonT(40), <2>1, LeastNat
<1>2. i \in k..n /\ f[k] > f[i] /\ i # k
  BY <1>0
<1>3. i - 1 \in k..n /\ i - 1 \notin T /\ i \in 1..n
  BY <1>1, <1>2
<1>4. f[k] <= f[i - 1]
  <2>1. f[k] \in Int /\ f[i - 1] \in Int
    BY SMTT(40), <1>0, <1>3
  <2> QED
    BY SMTT(40), <1>3, <2>1
<1>5. f[i - 1] <= f[i] /\ f[k] \in Int /\ f[i] \in Int /\ f[i - 1] \in Int
  BY SMTT(40), <1>0, <1>2, <1>3
<1> QED
  BY <1>2, <1>4, <1>5

\* The recursive function of Size exists.
LEMMA UptoExists ==
  ASSUME NEW q \in Seq(Skb), NEW n \in 0..Len(q)
  PROVE  \E u : u = [i \in 0..n |-> IF i = 0 THEN 0 ELSE u[i - 1] + q[i].dlen]
<1> DEFINE Is(u, k) == u = [i \in 0..k |-> IF i = 0 THEN 0 ELSE u[i - 1] + q[i].dlen]
           T == {k \in 0..Len(q) : ~\E u : Is(u, k)}
<1>0. Len(q) \in Nat
  OBVIOUS
<1>1. T # {} => FALSE
  <2> SUFFICES ASSUME T # {} PROVE FALSE
    BY Zenon
  <2>1. T \subseteq Nat
    BY <1>0
  <2>2. PICK k \in T : \A j \in T : k <= j
    <3> HIDE DEF T
    <3> QED
      BY Zenon, <2>1, LeastNat
  <2>3. k \in 0..Len(q) /\ ~\E u : Is(u, k)
    BY Zenon, <2>2
  <2>4. k # 0
    <3>1. PICK z : z = [i \in 0..0 |-> 0]
      BY Zenon
    <3>2. Is(z, 0)
      <4>1. \A i \in 0..0 : i = 0
        OBVIOUS
      <4> QED
        BY Zenon, <3>1, <4>1
    <3> HIDE DEF Is
    <3> QED
      BY Zenon, <2>3, <3>2
  <2>5. k - 1 \in 0..Len(q) /\ k - 1 \notin T /\ k \in Nat \ {0}
    <3> HIDE DEF T
    <3> QED
      BY <1>0, <2>2, <2>3, <2>4
  <2>6. PICK u : Is(u, k - 1)
    BY Zenon, <2>5
  <2>7. PICK v : v = [i \in 0..k |-> IF i = k THEN u[k - 1] + q[k].dlen ELSE u[i]]
    BY Zenon
  <2>8. ASSUME NEW i \in 0..k
        PROVE  (IF i = k THEN u[k - 1] + q[k].dlen ELSE u[i]) = IF i = 0 THEN 0 ELSE v[i - 1] + q[i].dlen
    <3>1. CASE i = k
      <4>1. k - 1 \in 0..k /\ k - 1 # k
        BY <2>5
      <4>2. v[k - 1] = u[k - 1]
        BY Zenon, <2>7, <4>1
      <4> QED
        BY Zenon, <2>4, <3>1, <4>2
    <3>2. CASE i # k /\ i # 0
      <4>1. i \in 0..(k - 1) /\ i - 1 \in 0..k /\ i - 1 # k
        BY <2>5, <3>2
      <4>2. u[i] = u[i - 1] + q[i].dlen
        BY Zenon, <2>6, <3>2, <4>1
      <4>3. v[i - 1] = u[i - 1]
        BY Zenon, <2>7, <4>1
      <4> QED
        BY Zenon, <3>2, <4>2, <4>3
    <3>3. CASE i # k /\ i = 0
      <4>1. 0 \in 0..(k - 1)
        BY <2>5
      <4>2. u[0] = 0
        BY Zenon, <2>6, <4>1
      <4> QED
        BY Zenon, <3>3, <4>2
    <3> QED
      BY Zenon, <3>1, <3>2, <3>3
  <2>9. Is(v, k)
    BY Zenon, <2>7, <2>8
  <2> HIDE DEF Is
  <2> QED
    BY Zenon, <2>3, <2>9
<1> QED
  BY Zenon, <1>1

\* So Upto is what Size defines it to be.
LEMMA UptoIs ==
  ASSUME NEW q \in Seq(Skb)
  PROVE  /\ Upto(q)[0] = 0
         /\ \A i \in 1..Len(q) : Upto(q)[i] = Upto(q)[i - 1] + q[i].dlen
         /\ \A i \in 0..Len(q) : Upto(q)[i] \in Nat
<1> DEFINE u == Upto(q)
           L == Len(q)
<1>0. L \in Nat /\ L \in 0..Len(q)
  OBVIOUS
<1>1. u = [i \in 0..L |-> IF i = 0 THEN 0 ELSE u[i - 1] + q[i].dlen]
  <2>1. \E x : x = [i \in 0..L |-> IF i = 0 THEN 0 ELSE x[i - 1] + q[i].dlen]
    BY Zenon, <1>0, UptoExists
  <2> QED
    BY Zenon, <2>1 DEF Upto
<1>2. \A i \in 1..L : q[i].dlen \in Nat
  <2>1. \A i \in 1..L : q[i] \in Skb
    BY Zenon, ElementsOf
  <2> QED
    BY Zenon, <2>1 DEF Skb
<1> HIDE DEF u, L
<1>3. u[0] = 0 /\ \A i \in 1..L : u[i] = u[i - 1] + q[i].dlen
  BY <1>0, <1>1
<1>4. \A i \in 0..L : u[i] \in Nat
  <2> DEFINE T == {i \in 0..L : u[i] \notin Nat}
  <2> SUFFICES ASSUME T # {} PROVE FALSE
    BY Zenon
  <2>1. PICK i \in T : \A j \in T : i <= j
    <3>1. T \subseteq Nat
      BY <1>0
    <3> HIDE DEF T
    <3> QED
      BY Zenon, <3>1, LeastNat
  <2>2. i \in 1..L /\ u[i] \notin Nat
    BY <1>0, <1>3
  <2>3. i - 1 \in 0..L /\ i - 1 \notin T
    BY SMTT(40), <1>0, <2>1, <2>2
  <2>4. u[i - 1] \in Nat
    BY Zenon, <2>3
  <2>5. u[i] = u[i - 1] + q[i].dlen /\ q[i].dlen \in Nat
    BY Zenon, <1>2, <1>3, <2>2
  <2> HIDE DEF T
  <2> QED
    BY <2>2, <2>4, <2>5
<1> QED
  BY Zenon, <1>3, <1>4 DEF u, L

\* Lengths that agree have the same sums, from wherever they are counted.
LEMMA SumsAgree ==
  ASSUME NEW q \in Seq(Skb), NEW r \in Seq(Skb), NEW k \in Nat, k + Len(r) <= Len(q),
         NEW m \in 0..Len(r), \A i \in (m + 1)..Len(r) : r[i].dlen = q[k + i].dlen,
         NEW n \in m..Len(r)
  PROVE  Upto(r)[n] - Upto(r)[m] = Upto(q)[k + n] - Upto(q)[k + m]
<1> DEFINE d == n - m
<1>0. d \in Nat /\ n \in Nat /\ m \in Nat /\ Len(r) \in Nat /\ Len(q) \in Nat /\ k + m \in Nat
      /\ m + d = n /\ (k + m) + d = k + n
  OBVIOUS
<1>1. \A i \in 0..d : m + i \in 0..Len(r) /\ (k + m) + i \in 0..Len(q)
  BY SMTT(40), <1>0
<1>2. \A i \in 0..d : Upto(r)[m + i] \in Int /\ Upto(q)[(k + m) + i] \in Int
  <2>1. \A s \in Seq(Skb) : \A i \in 0..Len(s) : Upto(s)[i] \in Int
    BY SMTT(40), UptoIs
  <2> QED
    BY Zenon, <1>1, <2>1
<1>3. ASSUME NEW i \in 0..(d - 1)
      PROVE  \E x \in Int : /\ Upto(r)[m + (i + 1)] = Upto(r)[m + i] + x
                            /\ Upto(q)[(k + m) + (i + 1)] = Upto(q)[(k + m) + i] + x
  <2>1. /\ m + (i + 1) \in 1..Len(r) /\ m + (i + 1) \in (m + 1)..Len(r)
        /\ (k + m) + (i + 1) \in 1..Len(q) /\ (k + m) + (i + 1) = k + (m + (i + 1))
        /\ (m + (i + 1)) - 1 = m + i /\ ((k + m) + (i + 1)) - 1 = (k + m) + i
    BY <1>0
  <2>2. r[m + (i + 1)] \in Skb
    BY Zenon, <2>1, ElementsOf
  <2>3. r[m + (i + 1)].dlen \in Int /\ r[m + (i + 1)].dlen = q[(k + m) + (i + 1)].dlen
    <3>1. r[m + (i + 1)].dlen \in Int
      BY <2>2 DEF Skb
    <3>2. r[m + (i + 1)].dlen = q[k + (m + (i + 1))].dlen
      BY Zenon, <2>1
    <3> QED
      BY ZenonT(40), <2>1, <3>1, <3>2
  <2>4. Upto(r)[m + (i + 1)] = Upto(r)[m + i] + r[m + (i + 1)].dlen
    BY ZenonT(40), <2>1, UptoIs
  <2>5. Upto(q)[(k + m) + (i + 1)] = Upto(q)[(k + m) + i] + q[(k + m) + (i + 1)].dlen
    BY Zenon, <2>1, UptoIs
  <2> QED
    BY Zenon, <2>3, <2>4, <2>5
<1> HIDE DEF d
<1>4. Upto(r)[m + d] - Upto(r)[m] = Upto(q)[(k + m) + d] - Upto(q)[k + m]
  <2>1. \A i \in 0..(d - 1) : \E x \in Int : /\ Upto(r)[m + (i + 1)] = Upto(r)[m + i] + x
                                             /\ Upto(q)[(k + m) + (i + 1)] = Upto(q)[(k + m) + i] + x
    BY Zenon, <1>3
  <2>2. SameSteps(Upto(r), m, Upto(q), k + m, d)
    BY Zenon, <1>2, <2>1 DEF SameSteps
  <2> QED
    BY SMTT(40), <1>0, <2>2, SameSummands
<1> QED
  BY Zenon, <1>0, <1>4

\* The size of the first skbs, and of the rest.
LEMMA SizeOfPrefix ==
  ASSUME NEW q \in Seq(Skb), NEW n \in 0..Len(q)
  PROVE  Read!Size(SubSeq(q, 1, n)) = Upto(q)[n]
<1> DEFINE r == SubSeq(q, 1, n)
<1>1. r \in Seq(Skb) /\ Len(r) = n /\ \A i \in 1..n : r[i] = q[i]
  OBVIOUS
<1> HIDE DEF r
<1>2. Upto(r)[n] - Upto(r)[0] = Upto(q)[0 + n] - Upto(q)[0 + 0]
  <2>1. 0 \in Nat /\ 0 + Len(r) <= Len(q) /\ 0 \in 0..Len(r) /\ n \in 0..Len(r)
        /\ \A i \in (0 + 1)..Len(r) : r[i].dlen = q[0 + i].dlen
    BY <1>1
  <2> QED
    BY ZenonT(40), <1>1, <2>1, SumsAgree
<1>3. Upto(r)[n] \in Nat /\ Upto(q)[n] \in Nat /\ Upto(r)[0] = 0 /\ Upto(q)[0] = 0
  <2>1. n \in 0..Len(r)
    BY <1>1
  <2> QED
    BY Zenon, <1>1, <2>1, UptoIs
<1>4. Upto(r)[n] = Upto(q)[n]
  BY SMTT(40), <1>2, <1>3
<1> QED
  BY Zenon, <1>1, <1>4, SizeIsSum DEF r

\* The size of a queue with more at its end.
LEMMA SizeOfConcat ==
  ASSUME NEW q \in Seq(Skb), NEW r \in Seq(Skb)
  PROVE  Read!Size(q \o r) = Read!Size(q) + Read!Size(r) /\ Read!Size(q) \in Nat /\ Read!Size(r) \in Nat
<1> DEFINE c == q \o r
           k == Len(q)
           n == Len(r)
<1>1. /\ c \in Seq(Skb) /\ k \in Nat /\ n \in Nat /\ Len(c) = k + n
      /\ (\A i \in 1..k : q[i] = c[i]) /\ (\A i \in 1..n : r[i] = c[k + i])
  OBVIOUS
<1>2. Read!Size(c) = Upto(c)[k + n] /\ Read!Size(q) = Upto(q)[k] /\ Read!Size(r) = Upto(r)[n]
  BY Zenon, <1>1, SizeIsSum
<1> HIDE DEF c
<1>3. Upto(q)[k] - Upto(q)[0] = Upto(c)[0 + k] - Upto(c)[0 + 0]
  <2>1. 0 \in Nat /\ 0 + Len(q) <= Len(c) /\ 0 \in 0..Len(q) /\ k \in 0..Len(q)
        /\ \A i \in (0 + 1)..Len(q) : q[i].dlen = c[0 + i].dlen
    BY <1>1
  <2> QED
    BY ZenonT(40), <1>1, <2>1, SumsAgree
<1>4. Upto(r)[n] - Upto(r)[0] = Upto(c)[k + n] - Upto(c)[k + 0]
  <2>1. k + Len(r) <= Len(c) /\ 0 \in 0..Len(r) /\ n \in 0..Len(r)
        /\ \A i \in (0 + 1)..Len(r) : r[i].dlen = c[k + i].dlen
    BY <1>1
  <2> QED
    BY ZenonT(40), <1>1, <2>1, SumsAgree
<1>5. /\ Upto(q)[k] \in Nat /\ Upto(r)[n] \in Nat /\ Upto(c)[k] \in Nat /\ Upto(c)[k + n] \in Nat
      /\ Upto(q)[0] = 0 /\ Upto(r)[0] = 0 /\ Upto(c)[0] = 0
  <2>1. k \in 0..Len(q) /\ n \in 0..Len(r) /\ k \in 0..Len(c) /\ k + n \in 0..Len(c)
    BY <1>1
  <2> QED
    BY Zenon, <1>1, <2>1, UptoIs
<1>6. Upto(c)[k + n] = Upto(q)[k] + Upto(r)[n]
  <2>1. 0 + k = k /\ 0 + 0 = 0 /\ k + 0 = k
    BY <1>1
  <2> HIDE DEF k, n
  <2> QED
    BY SMTT(40), <1>3, <1>4, <1>5, <2>1
<1> QED
  BY Zenon, <1>2, <1>5, <1>6 DEF c

\* A queue of the same lengths has the same size.
LEMMA SizeOfSame ==
  ASSUME NEW q \in Seq(Skb), NEW r \in Seq(Skb), Len(q) = Len(r),
         \A i \in 1..Len(q) : r[i].dlen = q[i].dlen
  PROVE  Read!Size(q) = Read!Size(r)
<1> DEFINE n == Len(r)
<1>1. n \in Nat /\ n \in 0..Len(r) /\ 0 \in 0..Len(r) /\ 0 + Len(r) <= Len(q) /\ 0 \in Nat
      /\ \A i \in (0 + 1)..Len(r) : r[i].dlen = q[0 + i].dlen
  OBVIOUS
<1>2. Upto(r)[n] - Upto(r)[0] = Upto(q)[0 + n] - Upto(q)[0 + 0]
  BY ZenonT(40), <1>1, SumsAgree
<1>3. Upto(r)[n] \in Nat /\ Upto(q)[n] \in Nat /\ Upto(q)[0] = 0 /\ Upto(r)[0] = 0
  BY Zenon, <1>1, UptoIs
<1>4. Read!Size(q) = Upto(q)[n] /\ Read!Size(r) = Upto(r)[n]
  BY Zenon, SizeIsSum
<1> HIDE DEF n
<1> QED
  BY SMTT(40), <1>1, <1>2, <1>3, <1>4

\* tcp_data_dequeue eats the longest prefix that the buffer has room for.
LEMMA EatenIsPrefix ==
  ASSUME NEW q \in Seq(Skb), NEW room \in Nat
  PROVE  /\ Read!Eaten(q, room) \in 0..Len(q)
         /\ Upto(q)[Read!Eaten(q, room)] <= room
         /\ Read!Eaten(q, room) < Len(q) => Upto(q)[Read!Eaten(q, room) + 1] > room
<1> DEFINE L == Len(q)
           u == Upto(q)
           S == {i \in 0..L : u[i] <= room}
<1>0. /\ L \in Nat /\ u[0] = 0 /\ (\A i \in 0..L : u[i] \in Nat)
      /\ \A i \in 1..L : u[i - 1] <= u[i]
  <2>1. \A i \in 1..L : q[i] \in Skb
    BY Zenon, ElementsOf
  <2>2. u[0] = 0 /\ (\A i \in 0..L : u[i] \in Nat) /\ \A i \in 1..L : u[i] = u[i - 1] + q[i].dlen
    BY Zenon, UptoIs
  <2>3. \A i \in 1..L : q[i].dlen \in Nat
    BY Zenon, <2>1 DEF Skb
  <2> HIDE DEF u
  <2>4. ASSUME NEW i \in 1..L PROVE u[i - 1] <= u[i]
    <3>1. i - 1 \in 0..L
      OBVIOUS
    <3> QED
      BY SMTT(40), <2>2, <2>3, <3>1
  <2> QED
    BY <2>2, <2>4
<1>1. \A i \in 0..L : Read!Size(SubSeq(q, 1, i)) = u[i]
  BY Zenon, SizeOfPrefix
<1> HIDE DEF u
<1>2. PICK n \in 0..L : n \in S /\ (n < L => n + 1 \notin S)
  <2>1. 0 \in S
    BY <1>0
  <2> HIDE DEF S, L
  <2> QED
    BY ZenonT(40), <1>0, <2>1, LongestPrefix
<1>3. u[n] <= room /\ (n < L => u[n + 1] > room)
  <2>1. n < L => n + 1 \in 0..L
    BY <1>0
  <2> QED
    BY SMTT(40), <1>0, <1>2, <2>1
<1>6. Grows(u, L)
  BY Zenon, <1>0 DEF Grows
<1>4. {i \in DOMAIN q : Read!Size(SubSeq(q, 1, i)) <= room} = 1..n
  <2>1. DOMAIN q = 1..L
    OBVIOUS
  <2>2. ASSUME NEW i \in 1..L PROVE u[i] <= room <=> i <= n
    <3>1. i \in 0..L /\ n \in 0..L /\ u[i] \in Nat /\ u[n] \in Nat
      BY <1>0
    <3>2. CASE i <= n
      <4>1. n \in i..L
        BY <3>2
      <4>2. u[i] <= u[n]
        BY SMTT(40), <1>0, <1>6, <3>1, <4>1, SumsGrow
      <4> QED
        BY SMTT(40), <1>3, <3>1, <3>2, <4>2
    <3>3. CASE i > n
      <4>1. n < L /\ n + 1 \in 0..L /\ i \in (n + 1)..L
        BY SMTT(40), <3>1, <3>3
      <4>2. u[n + 1] <= u[i] /\ u[n + 1] \in Nat
        BY SMTT(40), <1>0, <1>6, <4>1, SumsGrow
      <4> QED
        BY SMTT(40), <1>3, <3>1, <3>3, <4>1, <4>2
    <3> QED
      BY SMTT(40), <3>1, <3>2, <3>3
  <2>3. \A i \in 1..L : i \in 0..L /\ (i \in 1..n <=> i <= n)
    OBVIOUS
  <2>4. 1..n \subseteq 1..L
    BY <1>0
  <2> HIDE DEF L
  <2> QED
    BY SMTT(40), <1>1, <2>1, <2>2, <2>3, <2>4
<1>5. Read!Eaten(q, room) = n
  <2>1. Cardinality(1..n) = n
    <3>1. n \in Nat
      BY <1>0
    <3>2. 1 \in Int /\ n \in Int
      BY <3>1
    <3>3. Cardinality(1..n) = IF 1 > n THEN 0 ELSE n - 1 + 1
      BY Zenon, <3>2, FS_Interval
    <3> QED
      BY SMTT(40), <3>1, <3>3
  <2> QED
    BY ZenonT(40), <1>4, <2>1 DEF Read!Eaten, Read!Cardinality, Cardinality
<1> QED
  BY Zenon, <1>2, <1>3, <1>5 DEF u

\* A queue without its first n skbs.
LEMMA TailOf ==
  ASSUME NEW S, NEW q \in Seq(S), NEW n \in 0..Len(q)
  PROVE  LET tail == SubSeq(q, n + 1, Len(q))
         IN  /\ tail \in Seq(S) /\ Len(tail) = Len(q) - n /\ (tail # <<>> <=> n < Len(q))
             /\ \A i \in 1..(Len(q) - n) : tail[i] = q[n + i]
<1> DEFINE tail == SubSeq(q, n + 1, Len(q))
           L == Len(q)
<1>0. L \in Nat /\ n \in Nat /\ n <= L
  OBVIOUS
<1>1. tail \in Seq(S)
  BY <1>0
<1>2. Len(tail) = L - n
  BY <1>0
<1>3. \A i \in 1..(L - n) : tail[i] = q[n + i]
  BY <1>0
<1> HIDE DEF tail
<1>4. tail # <<>> <=> n < L
  BY SMTT(40), <1>0, <1>1, <1>2
<1> QED
  BY SMTT(40), <1>1, <1>2, <1>3, <1>4 DEF tail

\* What tcp_data_dequeue leaves: the bytes the buffer had no room for.
LEMMA RestOfQueue ==
  ASSUME NEW q \in Seq(Skb), NEW room \in Nat
  PROVE  LET rest == Read!Rest(q, room)
         IN  /\ rest \in Seq(Skb) /\ Read!Size(q) \in Nat /\ (rest # <<>> => q # <<>>)
             /\ Read!Size(rest) = IF Read!Size(q) < room THEN 0 ELSE Read!Size(q) - room
<1> DEFINE n == Read!Eaten(q, room)
           L == Len(q)
           u == Upto(q)
           tail == SubSeq(q, n + 1, L)
<1>0. L \in Nat /\ n \in 0..L /\ u[n] <= room /\ (n < L => u[n + 1] > room) /\ Read!Size(q) = u[L]
  <2>1. L \in Nat
    OBVIOUS
  <2>2. Read!Size(q) = u[L]
    BY Zenon, SizeIsSum
  <2> QED
    BY Zenon, <2>1, <2>2, EatenIsPrefix
<1>1. u[0] = 0 /\ (\A i \in 0..L : u[i] \in Nat) /\ \A i \in 1..L : u[i] = u[i - 1] + q[i].dlen
  BY Zenon, UptoIs
<1>2. Read!Size(SubSeq(q, 1, n)) = u[n]
  BY Zenon, <1>0, SizeOfPrefix
<1>3. Read!Rest(q, room) = IF tail = <<>> THEN tail ELSE [tail EXCEPT ![1].dlen = @ - (room - u[n])]
  BY Zenon, <1>2 DEF Read!Rest
<1>4. /\ tail \in Seq(Skb) /\ Len(tail) = L - n /\ (tail # <<>> <=> n < L)
      /\ \A i \in 1..(L - n) : tail[i] = q[n + i]
  BY Zenon, <1>0, TailOf
<1>5. u[L] \in Nat /\ u[n] \in Nat
  BY <1>0, <1>1
<1>6. \A i \in 1..L : q[i] \in Skb
  BY Zenon, ElementsOf
<1> HIDE DEF n, tail
<1>7. CASE n = L
  <2>1. Read!Rest(q, room) = <<>>
    BY SMTT(40), <1>0, <1>3, <1>4, <1>7
  <2>2. <<>> \in Seq(Skb) /\ Len(<<>>) = 0
    OBVIOUS
  <2>3. Read!Size(<<>>) = 0
    BY ZenonT(40), <2>2, SizeIsSum, UptoIs
  <2>4. Read!Size(q) <= room
    BY Zenon, <1>0, <1>7
  <2> HIDE DEF u
  <2>5. 0 = IF Read!Size(q) < room THEN 0 ELSE Read!Size(q) - room
    BY SMTT(40), <1>0, <1>5, <2>4
  <2> QED
    BY Zenon, <1>0, <1>5, <2>1, <2>2, <2>3, <2>5
<1>8. CASE n < L
  <2> DEFINE left == q[n + 1].dlen - (room - u[n])
             rest == [tail EXCEPT ![1].dlen = left]
  <2>1. Read!Rest(q, room) = rest
    <3>1. tail[1] = q[n + 1] /\ tail # <<>> /\ 1 \in DOMAIN tail
      BY SMTT(40), <1>0, <1>4, <1>8
    <3> QED
      BY Zenon, <1>3, <3>1
  <2>2. n + 1 \in 1..L /\ n + 1 \in 0..L /\ q[n + 1] \in Skb
    BY SMTT(40), <1>0, <1>6, <1>8
  <2>3. q[n + 1].dlen \in Nat
    BY Zenon, <2>2 DEF Skb
  <2>4. u[n + 1] = u[n] + q[n + 1].dlen
    BY SMTT(40), <1>0, <1>1, <2>2
  <2>5. left \in Nat /\ left = u[n + 1] - room
    <3> HIDE DEF u
    <3> QED
      BY SMTT(40), <1>0, <1>5, <1>8, <2>3, <2>4
  <2> HIDE DEF left
  <2>6. /\ rest \in Seq(Skb) /\ Len(rest) = L - n /\ rest[1].dlen = left
        /\ \A i \in 2..(L - n) : rest[i] = q[n + i]
    <3>1. tail[1] \in Skb /\ 1 \in 1..Len(tail)
      BY SMTT(40), <1>0, <1>4, <1>8, ElementsOf
    <3>2. [tail[1] EXCEPT !.dlen = left] \in Skb /\ [tail[1] EXCEPT !.dlen = left].dlen = left
      BY Zenon, <2>5, <3>1 DEF Skb
    <3>3. rest = [tail EXCEPT ![1] = [tail[1] EXCEPT !.dlen = left]]
      BY Zenon, <3>1
    <3> QED
      BY SMTT(40), <1>0, <1>4, <3>1, <3>2, <3>3
  <2> HIDE DEF rest
  <2>7. Upto(rest)[L - n] - Upto(rest)[1] = u[n + (L - n)] - u[n + 1]
    <3>1. n \in Nat /\ n + Len(rest) <= Len(q) /\ 1 \in 0..Len(rest) /\ L - n \in 1..Len(rest)
          /\ \A i \in (1 + 1)..Len(rest) : rest[i].dlen = q[n + i].dlen
      BY SMTT(40), <1>0, <1>8, <2>6
    <3> QED
      BY ZenonT(40), <2>6, <3>1, SumsAgree
  <2>8. Upto(rest)[1] = left /\ Upto(rest)[L - n] \in Nat /\ n + (L - n) = L
    <3>1. 1 \in 1..Len(rest) /\ 1 - 1 = 0 /\ L - n \in 0..Len(rest)
      BY SMTT(40), <1>0, <1>8, <2>6
    <3>2. Upto(rest)[0] = 0 /\ Upto(rest)[1] = Upto(rest)[1 - 1] + rest[1].dlen /\ Upto(rest)[L - n] \in Nat
      BY Zenon, <2>6, <3>1, UptoIs
    <3> QED
      BY SMTT(40), <1>0, <2>5, <2>6, <3>1, <3>2
  <2>9. Read!Size(rest) = Upto(rest)[L - n]
    BY SMTT(40), <2>6, SizeIsSum
  <2>10. u[n + 1] \in Nat
    BY Zenon, <1>1, <2>2
  <2>11. u[n + 1] <= u[L]
    <3>1. Upto(rest)[1] <= Upto(rest)[L - n]
      <4>1. Grows(Upto(rest), L - n)
        <5>1. \A i \in 1..(L - n) : rest[i] \in Skb
          BY Zenon, <2>6, ElementsOf
        <5>2. \A i \in 1..(L - n) : rest[i].dlen \in Nat
          BY Zenon, <5>1 DEF Skb
        <5>3. (\A i \in 0..(L - n) : Upto(rest)[i] \in Nat)
              /\ \A i \in 1..(L - n) : Upto(rest)[i] = Upto(rest)[i - 1] + rest[i].dlen
          BY Zenon, <2>6, UptoIs
        <5>4. ASSUME NEW i \in 1..(L - n) PROVE Upto(rest)[i - 1] <= Upto(rest)[i]
          <6>1. i - 1 \in 0..(L - n) /\ i \in 0..(L - n)
            BY <1>0
          <6> QED
            BY SMTT(40), <5>2, <5>3, <6>1
        <5> QED
          BY Zenon, <5>3, <5>4 DEF Grows
      <4>2. L - n \in Nat /\ 1 \in 0..(L - n) /\ L - n \in 1..(L - n)
        BY SMTT(40), <1>0, <1>8
      <4> QED
        BY SMTT(40), <4>1, <4>2, SumsGrow
    <3> HIDE DEF u
    <3> QED
      BY SMTT(40), <1>5, <2>5, <2>7, <2>8, <2>10, <3>1
  <2>12. Read!Size(rest) = u[L] - room
    <3> HIDE DEF u
    <3>1. Upto(rest)[L - n] - left = u[L] - u[n + 1]
      BY Zenon, <2>7, <2>8
    <3>2. Read!Size(rest) - left = u[L] - u[n + 1] /\ Read!Size(rest) \in Nat
      BY Zenon, <2>8, <2>9, <3>1
    <3> HIDE DEF L
    <3> QED
      BY SMTT(40), <1>5, <2>5, <2>10, <3>2
  <2>13. ~(u[L] < room)
    <3> HIDE DEF u
    <3> QED
      BY SMTT(40), <1>0, <1>5, <1>8, <2>10, <2>11
  <2>14. q # <<>>
    BY SMTT(40), <1>0, <1>8
  <2> HIDE DEF u
  <2> QED
    BY SMTT(40), <1>0, <1>5, <2>1, <2>6, <2>12, <2>13, <2>14
<1> QED
  BY SMTT(40), <1>0, <1>7, <1>8

------------------------------------------------------------------------------
\* The reader of a connection.

Queues == Seq(Skb)

RcvType == [state: {"ESTABLISHED", "CLOSE_WAIT", "TIME_WAIT", "CLOSING"}, queue: Queues,
            psh: BOOLEAN, fin: BOOLEAN, pollin: BOOLEAN]

ReaderType == [pc: {"idle", "asleep", "woken"}, want: Nat, rlen: Nat]

\* A queue is polled, and its bytes with the n of the reader's and those returned are all.
Exact(r, n, g) == g + n + Read!Size(r.queue) = arrived
Polled(r) == r.queue # <<>> \/ (r.fin /\ r.state \in {"ESTABLISHED", "CLOSE_WAIT"}) => r.pollin

ReadInv ==
  /\ rcv \in RcvType /\ reader \in ReaderType /\ got \in Nat /\ arrived \in Nat
  /\ reader.rlen <= reader.want /\ (reader.pc = "idle" => reader.rlen = 0)
  /\ Exact(rcv, reader.rlen, got) /\ Polled(rcv)

\* Nothing has arrived.
LEMMA InitRead == MCInit => ReadInv
<1> SUFFICES ASSUME MCInit PROVE ReadInv
  BY Zenon
<1>1. <<>> \in Seq(Skb) /\ Len(<<>>) = 0
  OBVIOUS
<1>2. Read!Size(<<>>) = 0
  BY Zenon, <1>1, SizeIsSum, UptoIs
<1> QED
  BY <1>1, <1>2 DEF MCInit, Read!Init, ReadInv, RcvType, ReaderType, Exact, Polled, Queues

\* The fields tcp_data_queue sets keep their types.
LEMMA RcvFilled ==
  ASSUME NEW r \in RcvType, NEW q \in Queues,
         NEW x, x = [r EXCEPT !.pollin = TRUE, !.queue = q]
  PROVE  x \in RcvType /\ x.queue = q /\ x.pollin = TRUE
BY Zenon DEF RcvType

\* A turn of tcp_receive moves bytes from the queue to the reader, and clears POLLIN only when
\* it has emptied the queue.
LEMMA TurnExact ==
  ASSUME ReadInv, NEW want \in Nat, NEW rlen \in 0..want, rlen = reader.rlen, NEW nonblock \in BOOLEAN,
         Read!Turn(want, rlen, nonblock)
  PROVE  ReadInv'
<1> DEFINE room == want - rlen
           rest == Read!Rest(rcv.queue, room)
           size == Read!Size(rcv.queue)
           r == Read!tcp_data_dequeue(rcv, room)
           total == IF size < room THEN rlen + size ELSE want
<1>0. room \in Nat /\ rcv \in RcvType /\ reader \in ReaderType /\ rcv.queue \in Seq(Skb)
      /\ got \in Nat /\ arrived \in Nat /\ Exact(rcv, rlen, got) /\ Polled(rcv) /\ rlen \in Nat
  BY DEF ReadInv, RcvType, Queues
<1>1. /\ rest \in Queues /\ size \in Nat /\ (rest # <<>> => rcv.queue # <<>>)
      /\ Read!Size(rest) = IF size < room THEN 0 ELSE size - room
  BY Zenon, <1>0, RestOfQueue DEF Queues
<1>2. /\ r \in RcvType /\ r.queue = rest /\ r.state = rcv.state /\ r.fin = rcv.fin
      /\ r.pollin = Read!Pollin(rcv, rest)
  <2>1. \A p \in BOOLEAN : Read!Pollin(rcv, rest) \in BOOLEAN
    BY Zenon, <1>0 DEF Read!Pollin, RcvType
  <2> DEFINE p == rcv.psh \/ \E i \in 1..Read!Eaten(rcv.queue, room) : rcv.queue[i].psh
             o == Read!Pollin(rcv, rest)
  <2>2. p \in BOOLEAN /\ o \in BOOLEAN
    BY Zenon, <2>1
  <2>3. r = [rcv EXCEPT !.queue = rest, !.psh = p, !.pollin = o]
    BY Zenon, <1>0 DEF Read!tcp_data_dequeue, RcvType
  <2> HIDE DEF p, o, rest, r
  <2>4. rcv \in RcvType /\ rest \in Queues
    BY Zenon, <1>0, <1>1
  <2>5. r \in RcvType /\ r.queue = rest /\ r.state = rcv.state /\ r.fin = rcv.fin /\ r.pollin = o
    BY Zenon, <2>2, <2>3, <2>4 DEF RcvType
  <2> QED
    BY Zenon, <2>5 DEF o
<1>3. total \in 0..want /\ total \in Nat /\ total + Read!Size(rest) = rlen + size
  <2> HIDE DEF rest, size
  <2> QED
    BY SMTT(40), <1>0, <1>1
<1>4. Polled(r)
  BY Zenon, <1>0, <1>1, <1>2 DEF Polled, Read!Pollin
<1>5. Exact(r, total, got)
  <2>1. Read!Size(rest) \in Nat
    <3> HIDE DEF rest, size
    <3> QED
      BY SMTT(40), <1>0, <1>1
  <2>2. got + rlen + size = arrived
    BY Zenon, <1>0 DEF Exact
  <2>3. r.queue = rest
    BY Zenon, <1>2
  <2>4. \A a, b, c, d, e \in Nat : a + b = c + d /\ e + c + d = arrived => e + a + b = arrived
    BY SMTT(40), <1>0
  <2> DEFINE left == Read!Size(rest)
  <2>5. left \in Nat /\ size \in Nat /\ total \in Nat /\ rlen \in Nat /\ got \in Nat
        /\ total + left = rlen + size /\ got + rlen + size = arrived
    BY Zenon, <1>0, <1>1, <1>3, <2>1, <2>2
  <2> HIDE DEF left, size, total, rest, r
  <2>6. got + total + left = arrived
    BY <2>4, <2>5
  <2> QED
    BY Zenon, <2>3, <2>6 DEF Exact, left
<1>6. \/ Read!Returns([r EXCEPT !.psh = FALSE], total) \/ Read!Sleeps(r, want, total)
  BY Zenon DEF Read!Turn
<1> HIDE DEF r, total, rest, size
<1>7. CASE Read!Returns([r EXCEPT !.psh = FALSE], total)
  <2> DEFINE x == [r EXCEPT !.psh = FALSE]
  <2>1. x \in RcvType /\ x.queue = r.queue /\ x.fin = r.fin /\ x.pollin = r.pollin /\ x.state = r.state
    BY Zenon, <1>2 DEF RcvType
  <2>2. rcv' = x /\ got' = got + total /\ arrived' = arrived
        /\ reader' = [reader EXCEPT !.pc = "idle", !.rlen = 0, !.want = 0]
    BY Zenon, <1>7 DEF Read!Returns
  <2>3. reader' \in ReaderType /\ reader'.pc = "idle" /\ reader'.rlen = 0 /\ reader'.want = 0
    BY ZenonT(40), <1>0, <2>2 DEF ReaderType
  <2> HIDE DEF x
  <2>4. Exact(x, 0, got + total) /\ Polled(x)
    <3>1. Read!Size(r.queue) \in Nat
      BY Zenon, <1>2, SizeOfConcat DEF RcvType, Queues
    <3> QED
      BY SMTT(40), <1>0, <1>3, <1>4, <1>5, <2>1, <3>1 DEF Exact, Polled
  <2> QED
    BY SMTT(40), <1>0, <1>3, <2>1, <2>2, <2>3, <2>4 DEF ReadInv, Exact, Polled
<1>8. CASE Read!Sleeps(r, want, total)
  <2>1. rcv' = r /\ got' = got /\ arrived' = arrived
        /\ reader' = [reader EXCEPT !.pc = "asleep", !.want = want, !.rlen = total]
    BY Zenon, <1>8 DEF Read!Sleeps
  <2>2. reader' \in ReaderType /\ reader'.pc = "asleep" /\ reader'.rlen = total /\ reader'.want = want
    BY ZenonT(40), <1>0, <1>3, <2>1 DEF ReaderType
  <2> QED
    BY SMTT(40), <1>0, <1>2, <1>3, <1>4, <1>5, <2>1, <2>2 DEF ReadInv, Exact, Polled
<1> QED
  BY Zenon, <1>6, <1>7, <1>8

\* tcp_data_queue: what arrives is counted and polled; FEC may have cost it its PSH.
LEMMA ArrivesExact ==
  ASSUME ReadInv, NEW skbs \in Read!Batches, NEW rebuilt \in Rebuilt, Read!DataArrives(skbs, rebuilt)
  PROVE  ReadInv'
<1> DEFINE new == IF rebuilt THEN [skbs EXCEPT ![1].psh = FALSE] ELSE skbs
<1>0. rcv \in RcvType /\ reader \in ReaderType /\ rcv.queue \in Seq(Skb)
      /\ got \in Nat /\ arrived \in Nat /\ reader.rlen \in Nat
      /\ got + reader.rlen + Read!Size(rcv.queue) = arrived
  BY Zenon DEF ReadInv, RcvType, ReaderType, Queues, Exact
<1>1. skbs \in Seq(Skb) /\ 1 \in 1..Len(skbs)
  <2>1. Read!Skbs \subseteq Skb
    BY Zenon, ServicesAssumption DEF ServicesAssumption, Read!Skbs, Skb
  <2>2. PICK s \in Skb, t \in Skb : skbs = <<s>> \/ skbs = <<s, t>>
    BY <2>1 DEF Read!Batches
  <2>3. <<s>> \in Seq(Skb) /\ Len(<<s>>) = 1 /\ <<s, t>> \in Seq(Skb) /\ Len(<<s, t>>) = 2
    OBVIOUS
  <2>4. skbs \in Seq(Skb) /\ (Len(skbs) = 1 \/ Len(skbs) = 2)
    BY ZenonT(40), <2>2, <2>3
  <2>5. 1 \in 1..1 /\ 1 \in 1..2
    OBVIOUS
  <2> QED
    BY <2>4, <2>5, Zenon
<1>2. new \in Seq(Skb) /\ Len(new) = Len(skbs) /\ \A i \in 1..Len(skbs) : new[i].dlen = skbs[i].dlen
  <2>1. skbs[1] \in Skb
    BY Zenon, <1>1, ElementsOf
  <2>2. [skbs[1] EXCEPT !.psh = FALSE] \in Skb /\ [skbs[1] EXCEPT !.psh = FALSE].dlen = skbs[1].dlen
    BY ZenonT(40), <2>1 DEF Skb
  <2>3. [skbs EXCEPT ![1].psh = FALSE] = [skbs EXCEPT ![1] = [skbs[1] EXCEPT !.psh = FALSE]]
    BY Zenon, <1>1
  <2> QED
    BY SMTT(40), <1>1, <2>2, <2>3
<1>3. rcv' = [rcv EXCEPT !.pollin = TRUE, !.queue = rcv.queue \o new]
      /\ arrived' = arrived + Read!Size(skbs) /\ got' = got /\ reader' = Read!tcp_recv_notify
  BY Zenon, <1>0 DEF Read!DataArrives, RcvType
<1> HIDE DEF new
<1>4. Read!Size(new) = Read!Size(skbs)
  BY Zenon, <1>1, <1>2, SizeOfSame
<1>5. /\ Read!Size(rcv.queue \o new) = Read!Size(rcv.queue) + Read!Size(new)
      /\ Read!Size(rcv.queue) \in Nat /\ Read!Size(new) \in Nat
  BY SMTT(40), <1>0, <1>2, SizeOfConcat
<1>6. rcv.queue \o new \in Queues
  BY SMTT(40), <1>0, <1>2 DEF Queues
<1>7. rcv' \in RcvType /\ rcv'.queue = rcv.queue \o new /\ rcv'.pollin = TRUE
  <2> DEFINE c == rcv.queue \o new
  <2>1. c \in Queues /\ rcv' = [rcv EXCEPT !.pollin = TRUE, !.queue = c]
    BY Zenon, <1>3, <1>6
  <2> HIDE DEF c
  <2>2. rcv' \in RcvType /\ rcv'.queue = c /\ rcv'.pollin = TRUE
    BY Zenon, <1>0, <2>1, RcvFilled
  <2> QED
    BY Zenon, <2>2 DEF c
<1>8. reader' \in ReaderType /\ reader'.rlen = reader.rlen /\ reader'.want = reader.want
      /\ (reader'.pc = "idle" => reader.pc = "idle")
  BY Zenon, <1>0, <1>3 DEF Read!tcp_recv_notify, ReaderType
<1>9. /\ got' + reader'.rlen + Read!Size(rcv'.queue) = arrived' /\ arrived' \in Nat /\ got' \in Nat
  <2>1. PICK k, m, n : k = Read!Size(rcv.queue) /\ m = Read!Size(new) /\ n = reader.rlen
    BY Zenon
  <2>2. got \in Nat /\ n \in Nat /\ arrived \in Nat /\ k \in Nat /\ m \in Nat /\ got + n + k = arrived
    BY Zenon, <1>0, <1>5, <2>1
  <2>3. got + n + (k + m) = arrived + m /\ arrived + m \in Nat
    BY SMTT(40), <2>2
  <2> QED
    BY Zenon, <1>3, <1>4, <1>5, <1>7, <1>8, <2>1, <2>2, <2>3
<1>10. reader.rlen <= reader.want /\ (reader.pc = "idle" => reader.rlen = 0)
  BY Zenon DEF ReadInv
<1> QED
  BY Zenon, <1>7, <1>8, <1>9, <1>10 DEF ReadInv, Exact, Polled

\* The other steps move no byte.
LEMMA OthersExact ==
  ASSUME ReadInv, rcv' \in RcvType, rcv'.queue = rcv.queue, Polled(rcv'),
         reader' \in ReaderType, reader'.rlen = reader.rlen, reader'.want = reader.want,
         reader'.pc = "idle" => reader.pc = "idle", got' = got, arrived' = arrived
  PROVE  ReadInv'
BY Zenon DEF ReadInv, Exact, Polled

\* Every step of every service keeps the count.
LEMMA NextRead == ReadInv /\ [MCNext]_mcvars => ReadInv'
<1> SUFFICES ASSUME ReadInv, [MCNext]_mcvars PROVE ReadInv'
  BY Zenon
<1>0. rcv \in RcvType /\ reader \in ReaderType /\ Polled(rcv) /\ got \in Nat /\ arrived \in Nat
      /\ reader.rlen \in 0..reader.want /\ reader.want \in Nat /\ (reader.pc = "idle" => reader.rlen = 0)
  BY DEF ReadInv, ReaderType
<1>1. Read!tcp_recv_notify \in ReaderType /\ Read!tcp_recv_notify.rlen = reader.rlen
      /\ Read!tcp_recv_notify.want = reader.want
      /\ (Read!tcp_recv_notify.pc = "idle" => reader.pc = "idle")
  BY Zenon, <1>0 DEF Read!tcp_recv_notify, ReaderType
<1>2. ASSUME NEW want \in ReadSizes, NEW nonblock \in NonBlock, Read!Read(want, nonblock) PROVE ReadInv'
  <2>0. want \in Nat /\ nonblock \in BOOLEAN /\ reader.rlen = 0 /\ reader.pc = "idle" /\ 0 \in 0..want
    BY SMTT(40), <1>0, <1>2, ServicesAssumption DEF Read!Read
  <2>1. CASE Read!Turn(want, 0, nonblock)
    BY Zenon, <2>0, <2>1, TurnExact
  <2>2. ASSUME NEW x \in RcvType, x.queue = rcv.queue, Polled(x), Read!Returns(x, 0) PROVE ReadInv'
    <3>1. rcv' = x /\ got' = got + 0 /\ arrived' = arrived
          /\ reader' = [reader EXCEPT !.pc = "idle", !.rlen = 0, !.want = 0]
      BY Zenon, <2>2 DEF Read!Returns
    <3>2. reader' \in ReaderType /\ reader'.pc = "idle" /\ reader'.rlen = 0 /\ reader'.want = 0
      BY Zenon, <1>0, <3>1 DEF ReaderType
    <3>3. got' = got
      BY <1>0, <3>1
    <3> QED
      BY SMTT(40), <1>0, <2>0, <2>2, <3>1, <3>2, <3>3 DEF ReadInv, Exact, Polled
  <2>3. [rcv EXCEPT !.fin = FALSE] \in RcvType /\ [rcv EXCEPT !.fin = FALSE].queue = rcv.queue
        /\ Polled([rcv EXCEPT !.fin = FALSE])
    BY Zenon, <1>0 DEF RcvType, Polled
  <2> QED
    BY ZenonT(40), <1>0, <1>2, <2>1, <2>2, <2>3 DEF Read!Read
<1>3. CASE Read!Resume
  <2>1. FALSE \in BOOLEAN
    BY Zenon
  <2> QED
    BY ZenonT(40), <1>0, <1>3, <2>1, TurnExact DEF Read!Resume
<1>4. CASE Read!SpuriousWakeup
  <2>1. reader' \in ReaderType /\ reader'.rlen = reader.rlen /\ reader'.want = reader.want
        /\ reader'.pc # "idle" /\ rcv' = rcv /\ got' = got /\ arrived' = arrived
    BY Zenon, <1>0, <1>4 DEF Read!SpuriousWakeup, ReaderType
  <2> QED
    BY Zenon, <1>0, <2>1, OthersExact
<1>5. \A r \in RcvType :
        /\ Read!FinAcked(r) \in RcvType /\ Read!FinAcked(r).queue = r.queue
        /\ Read!FinAcked(r).pollin = r.pollin
        /\ r.state \in {"CLOSING", "TIME_WAIT"} => Read!FinAcked(r).state = "TIME_WAIT"
  <2> TAKE r \in RcvType
  <2>1. CASE r.state = "CLOSING"
    <3>1. Read!FinAcked(r) = [r EXCEPT !.state = "TIME_WAIT"]
      BY Zenon, <2>1 DEF Read!FinAcked
    <3> QED
      BY Zenon, <3>1 DEF RcvType
  <2>2. CASE r.state = "TIME_WAIT"
    <3>1. Read!FinAcked(r) = [r EXCEPT !.fin = TRUE]
      BY Zenon, <2>2 DEF Read!FinAcked
    <3> QED
      BY Zenon, <2>2, <3>1 DEF RcvType
  <2>3. CASE r.state \notin {"CLOSING", "TIME_WAIT"}
    <3>1. Read!FinAcked(r) = r
      BY Zenon, <2>3 DEF Read!FinAcked
    <3> QED
      BY Zenon, <2>3, <3>1
  <2> QED
    BY Zenon, <2>1, <2>2, <2>3
<1>6. ASSUME NEW empty \in BOOLEAN, Read!FinArrives(empty) PROVE ReadInv'
  <2> DEFINE r == IF empty THEN Read!FinAcked(rcv) ELSE rcv
             st == IF r.state = "ESTABLISHED" THEN "CLOSE_WAIT" ELSE r.state
  <2>1. r \in RcvType /\ r.queue = rcv.queue
    BY Zenon, <1>0, <1>5
  <2>2. rcv' = [r EXCEPT !.state = st, !.fin = TRUE, !.pollin = TRUE]
        /\ reader' = Read!tcp_recv_notify /\ arrived' = arrived /\ got' = got
    BY Zenon, <1>6, <2>1 DEF Read!FinArrives, RcvType
  <2> HIDE DEF r
  <2>3. st \in {"ESTABLISHED", "CLOSE_WAIT", "TIME_WAIT", "CLOSING"}
    BY Zenon, <2>1 DEF RcvType
  <2> HIDE DEF st
  <2>4. rcv' \in RcvType /\ rcv'.queue = rcv.queue /\ rcv'.pollin = TRUE
    BY ZenonT(40), <2>1, <2>2, <2>3 DEF RcvType
  <2> QED
    BY Zenon, <1>1, <2>2, <2>4, OthersExact DEF Polled
<1>7. CASE Read!LateSegment \/ Read!ResetArrives \/ Read!LingerExpires
  <2>1. CASE Read!LateSegment
    <3>1. rcv' = Read!FinAcked(rcv) /\ rcv.state \in {"CLOSING", "TIME_WAIT"} /\ reader' = reader
          /\ arrived' = arrived /\ got' = got
      BY Zenon, <2>1 DEF Read!LateSegment
    <3>2. rcv' \in RcvType /\ rcv'.queue = rcv.queue /\ rcv'.pollin = rcv.pollin
          /\ rcv'.state = "TIME_WAIT"
      BY Zenon, <1>0, <1>5, <3>1
    <3> QED
      BY Zenon, <1>0, <3>1, <3>2, OthersExact DEF Polled
  <2>2. CASE Read!ResetArrives \/ Read!LingerExpires
    <3>1. rcv' \in RcvType /\ rcv'.queue = rcv.queue /\ rcv'.pollin = rcv.pollin
          /\ rcv'.state \in {"TIME_WAIT", "CLOSING"} /\ got' = got /\ arrived' = arrived
      BY Zenon, <1>0, <2>2 DEF Read!ResetArrives, Read!LingerExpires, RcvType
    <3>2. reader' = reader \/ reader' = Read!tcp_recv_notify
      BY Zenon, <2>2 DEF Read!ResetArrives, Read!LingerExpires
    <3> QED
      BY Zenon, <1>0, <1>1, <3>1, <3>2, OthersExact DEF Polled
  <2> QED
    BY Zenon, <1>7, <2>1, <2>2
<1>8. CASE rcv' = rcv /\ reader' = reader /\ arrived' = arrived /\ got' = got
  BY SMTT(40), <1>8 DEF ReadInv, Exact, Polled
<1> QED
  BY SMTT(40), <1>2, <1>3, <1>4, <1>6, <1>7, <1>8, ArrivesExact DEF MCNext, Read!Next, mcvars, readvars

\* Reads neither lose nor repeat bytes, however segments, wake-ups and short buffers fall on
\* tcp_receive and tcp_data_dequeue.
THEOREM ServicesReadsExact == MCSpec => []ReadsAreExact
<1>1. ReadInv => ReadsAreExact
  BY SMTT(40) DEF ReadInv, Exact, ReadsAreExact, Read!ReadsAreExact
<1>2. MCSpec => MCInit /\ [][MCNext]_mcvars
  BY Zenon DEF MCSpec, mcvars
<1> QED
  BY <1>1, <1>2, InitRead, NextRead, PTL

\* POLLIN is set while data waits, or an unreported FIN that tcp_read will look at:
\* tcp_data_dequeue clears it only when neither does.
THEOREM ServicesPollSees == MCSpec => []PollSeesData
<1>1. ReadInv => PollSeesData
  BY Zenon DEF ReadInv, Polled, PollSeesData, Read!PollSeesData
<1>2. MCSpec => MCInit /\ [][MCNext]_mcvars
  BY Zenon DEF MCSpec, mcvars
<1> QED
  BY <1>1, <1>2, InitRead, NextRead, PTL
===============================================================================
