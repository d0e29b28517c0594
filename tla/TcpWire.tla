------------------------------- MODULE TcpWire -------------------------------
(***************************************************************************)
(* What travels between two Level-IP sockets, and the constants every      *)
(* module of the connection model shares.                                  *)
(*                                                                         *)
(* Payload bytes are abstracted to the place they have in the sender's     *)
(* byte stream: a run [pos |-> p, len |-> n] stands for the bytes number   *)
(* p .. p+n-1 the application wrote, and pos = 0 for bytes that are no     *)
(* part of any stream (freed memory, zero padding, a decoding of           *)
(* inconsistent symbols).  Sequence numbers are relative to the initial    *)
(* one, so that byte p belongs at sequence number p; they are integers     *)
(* here, the 32-bit wrap-around is outside this model.                     *)
(***************************************************************************)
EXTENDS Integers, Sequences

CONSTANTS
  Fec,          \* TRUE: FEC was negotiated, both sockets carry a tcp_fec
  Mss,          \* tsk->smss, the payload of a full segment without FEC
  Sym,          \* fec->sym_len, the payload of a full segment with FEC
  K,            \* fec->k, source symbols in a full block
  R,            \* fec->r, repair symbols in a block
  RxBlocks,     \* TCP_FEC_RX_BLOCKS, receive slots of the block ring
  RcvWnd,       \* tcb->rcv_wnd, a constant of the stack
  BigSegment    \* the 1000 bytes above which a segment counts for delacks

ASSUME WireAssumption ==
  /\ Fec \in BOOLEAN
  /\ Mss \in Nat \ {0} /\ Sym \in Nat \ {0} /\ K \in Nat \ {0} /\ R \in Nat \ {0}
  /\ RxBlocks \in Nat \ {0} /\ RcvWnd \in Nat \ {0} /\ BigSegment \in Nat

Ends == {"A", "B"}
Peer(e) == IF e = "A" THEN "B" ELSE "A"

Run(p, n) == [pos |-> p, len |-> n]
Nothing == Run(0, 0)

\* The coding tag of a segment.  A repair's tag also holds the repair header
\* and what the parity was computed from, the sequence of its source symbols.
NoTag == [type |-> "none"]
SourceTag(b, i) == [type |-> "source", block |-> b, index |-> i]
RepairTag(b, i, k, base, tail, srcs) ==
  [type |-> "repair", block |-> b, index |-> i, k |-> k, base_seq |-> base,
   tail_len |-> tail, srcs |-> srcs]

\* A segment on the wire: sequence number, acknowledgment, payload, flags, tag.
Segment(seq, ack, run, psh, fin, rst, tag) ==
  [seq |-> seq, ack |-> ack, run |-> run, psh |-> psh, fin |-> fin,
   rst |-> rst, tag |-> tag]

\* A buffer of the write queue.  seq = 0 until it is transmitted.
Skb(run, psh, fin, tag) ==
  [run |-> run, psh |-> psh, fin |-> fin, tag |-> tag, seq |-> 0, end_seq |-> 0]

\* tcp_transmit_skb: the segment leaves with the given sequence number and
\* acknowledges what this socket has received in order.
tcp_transmit_skb(s, skb, seq) ==
  [s EXCEPT !.out = @ \union
     {Segment(seq, s.rcv_nxt, skb.run, skb.psh, skb.fin, FALSE, skb.tag)}]

\* tcp_send_ack: an empty segment at snd_nxt.
tcp_send_ack(s) ==
  tcp_transmit_skb(s, Skb(Nothing, FALSE, FALSE, NoTag), s.snd_nxt)

==============================================================================
