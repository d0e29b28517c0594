--------------------------------- MODULE Arp ---------------------------------
(***************************************************************************)
(* Address resolution on the way out: dst_neigh_output, the ARP cache and  *)
(* arp_rcv, with the neighbours that answer.                               *)
(*                                                                         *)
(* The netdev thread runs arp_rcv while the thread of a sender is in       *)
(* netdev_transmit.  arp_get_hwaddr hands out a pointer into the cache and *)
(* drops the lock, so the six bytes are copied unlocked: in two moves, one *)
(* per half of a hardware address.                                         *)
(***************************************************************************)
EXTENDS Integers, Sequences, FiniteSets

CONSTANTS
  Neighbours,     \* IP addresses of the hosts on the link
  Us,             \* our own IP address
  Movers,         \* the neighbours whose hardware address changes
  MaxMoves,       \* bound: how often it does
  MaxLoss,        \* bound: ARP packets lost
  MaxCalls        \* bound: unsolicited ARP packets of the neighbours

VARIABLES
  arp_cache,      \* list of entries: sip and smac
  tx,             \* the thread in ip_output: pc, destination, entry, bytes copied
  waiting,        \* destinations whose packet the upper layer still has to send
  frames,         \* IP frames written to the device
  requests,       \* our ARP requests on the link
  replies,        \* our answers to requests for our address
  inbox,          \* ARP packets on their way to us
  moves,          \* how often each neighbour changed its address
  lost, calls

vars == <<arp_cache, tx, waiting, frames, requests, replies, inbox, moves, lost, calls>>

\* The two halves of the address neighbour n has after v moves.
Mac(n, v) == <<<<n, v>>, <<n, v>>>>

Idle == [pc |-> "idle", daddr |-> Us, entry |-> 0, high |-> <<Us, 0>>]

Init ==
  /\ arp_cache = <<>> /\ tx = Idle /\ waiting = Neighbours
  /\ frames = {} /\ requests = {} /\ replies = {} /\ inbox = {}
  /\ moves = [n \in Neighbours |-> 0] /\ lost = 0 /\ calls = 0

------------------------------------------------------------------------------
\* The sender.

Entries(sip) == {i \in DOMAIN arp_cache : arp_cache[i].sip = sip}

\* Mutant: the first entry will do.
arp_get_hwaddr_First(sip) == IF arp_cache = <<>> THEN 0 ELSE 1

\* The place of the entry the pointer leads into, 0 for NULL.
arp_get_hwaddr(sip) ==
  IF Entries(sip) = {} THEN 0 ELSE CHOOSE i \in Entries(sip) : \A j \in Entries(sip) : i <= j

\* Mutant: an unknown address is not asked for.
arp_request_None(daddr) == requests

arp_request(daddr) == requests \union {daddr}

\* dst_neigh_output without an entry: ask, and return -1; the packet stays
\* with the upper layer, which retries.
NotResolved(daddr) ==
  /\ tx.pc = "idle" /\ daddr \in waiting /\ arp_get_hwaddr(daddr) = 0
  /\ requests' = arp_request(daddr)
  /\ UNCHANGED <<arp_cache, tx, waiting, frames, replies, inbox, moves, lost, calls>>

Resolved(daddr) ==
  /\ tx.pc = "idle" /\ daddr \in waiting /\ arp_get_hwaddr(daddr) # 0
  /\ tx' = [tx EXCEPT !.pc = "copy", !.daddr = daddr, !.entry = arp_get_hwaddr(daddr)]
  /\ UNCHANGED <<arp_cache, waiting, frames, requests, replies, inbox, moves, lost, calls>>

\* netdev_transmit: memcpy(hdr->dmac, dst_hw), then tun_write.
CopyHigh ==
  /\ tx.pc = "copy"
  /\ tx' = [tx EXCEPT !.pc = "send", !.high = arp_cache[tx.entry].smac[1]]
  /\ UNCHANGED <<arp_cache, waiting, frames, requests, replies, inbox, moves, lost, calls>>

CopyLowAndSend ==
  /\ tx.pc = "send"
  /\ frames' = frames \union {[daddr |-> tx.daddr, dmac |-> <<tx.high, arp_cache[tx.entry].smac[2]>>]}
  /\ waiting' = waiting \ {tx.daddr}
  /\ tx' = Idle
  /\ UNCHANGED <<arp_cache, requests, replies, inbox, moves, lost, calls>>

------------------------------------------------------------------------------
\* arp_rcv, in the netdev thread.

\* update_arp_translation_table
Updated(m) ==
  [i \in DOMAIN arp_cache |->
     IF i = arp_get_hwaddr(m.sip) THEN [arp_cache[i] EXCEPT !.smac = m.smac] ELSE arp_cache[i]]

\* Mutant: what update_arp_translation_table found is forgotten.
Merge_Never(m) == FALSE

Merge(m) == Entries(m.sip) # {}

insert_arp_translation_table(cache, m) == Append(cache, [sip |-> m.sip, smac |-> m.smac])

\* The answer goes to the address in the request.
arp_reply(m) == replies \union {[dip |-> m.sip, dmac |-> m.smac]}

\* A packet for another host only refreshes an entry that is there.
arp_rcv(m) ==
  /\ arp_cache' = IF m.dip = Us /\ ~Merge(m)
                  THEN insert_arp_translation_table(Updated(m), m) ELSE Updated(m)
  /\ replies' = IF m.dip = Us /\ m.opcode = "request" THEN arp_reply(m) ELSE replies
  /\ inbox' = inbox \ {m}
  /\ UNCHANGED <<tx, waiting, frames, requests, moves, lost, calls>>

------------------------------------------------------------------------------
\* The link and the neighbours.

Packet(opcode, n, dip) == [opcode |-> opcode, sip |-> n, smac |-> Mac(n, moves[n]), dip |-> dip]

\* A neighbour hears our broadcast and replies.
Answers(n) ==
  /\ n \in requests
  /\ requests' = requests \ {n}
  /\ inbox' = inbox \union {Packet("reply", n, Us)}
  /\ UNCHANGED <<arp_cache, tx, waiting, frames, replies, moves, lost, calls>>

\* A neighbour asks for us or for another host.
Asks(n, dip) ==
  /\ calls < MaxCalls /\ calls' = calls + 1
  /\ inbox' = inbox \union {Packet("request", n, dip)}
  /\ UNCHANGED <<arp_cache, tx, waiting, frames, requests, replies, moves, lost>>

\* Another interface takes over the neighbour's IP address.
Moves(n) ==
  /\ n \in Movers /\ moves[n] < MaxMoves
  /\ moves' = [moves EXCEPT ![n] = @ + 1]
  /\ UNCHANGED <<arp_cache, tx, waiting, frames, requests, replies, inbox, lost, calls>>

Lose ==
  /\ lost < MaxLoss /\ lost' = lost + 1
  /\ \/ \E n \in requests : requests' = requests \ {n} /\ UNCHANGED inbox
     \/ \E m \in inbox : inbox' = inbox \ {m} /\ UNCHANGED requests
  /\ UNCHANGED <<arp_cache, tx, waiting, frames, replies, moves, calls>>

Sender == \E d \in Neighbours : NotResolved(d) \/ Resolved(d)
Copies == CopyHigh \/ CopyLowAndSend
Receives == \E m \in inbox : arp_rcv(m)

Next ==
  \/ Sender \/ Copies \/ Receives \/ Lose
  \/ \E n \in Neighbours : Answers(n) \/ Moves(n)
  \/ \E n \in Neighbours, dip \in Neighbours \union {Us} : Asks(n, dip)

Spec == Init /\ [][Next]_vars

\* The upper layer retries each packet, threads run, and what is not lost is
\* answered and arrives.
Fairness ==
  /\ WF_vars(Copies) /\ WF_vars(Receives)
  /\ \A n \in Neighbours : WF_vars(Answers(n)) /\ SF_vars(NotResolved(n)) /\ SF_vars(Resolved(n))

------------------------------------------------------------------------------
\* Properties.

\* A neighbour has one cache entry, however often requests and replies repeat:
\* update_arp_translation_table merges before insert_arp_translation_table adds.
OneEntryEach ==
  \A i, j \in DOMAIN arp_cache : arp_cache[i].sip = arp_cache[j].sip => i = j

\* Each half of a frame's destination address is one that the destination itself
\* has announced: entries are not mixed up and an unresolved address is not used.
FrameHalvesAnnounced ==
  \A f \in frames, h \in 1..2 : \E v \in 0..moves[f.daddr] : f.dmac[h] = Mac(f.daddr, v)[h]

\* A frame goes to an address its destination has announced, although the cache
\* is rewritten while netdev_transmit copies from it: arp_get_hwaddr "returns the
\* HW address of the given source IP address".
FrameToItsNeighbour ==
  \A f \in frames : \E v \in 0..MaxMoves : f.dmac = Mac(f.daddr, v)

\* A packet that dst_neigh_output could not send goes out after retries: "Inform
\* upper layer that traffic was not sent, retry later".
AllOut == \A d \in Neighbours : \E f \in frames : f.daddr = d
RetriedPacketGoesOut == <>[]AllOut
==============================================================================
