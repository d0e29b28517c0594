-------------------------------- MODULE FecTx --------------------------------
(***************************************************************************)
(* The sender half of FEC (tcp_send and tcp_fec_* of src/tcp_output.c).    *)
(*                                                                         *)
(* fec->enc is the sequence of source symbols registered with the encoder; *)
(* tx_filled is its length.  A full symbol is registered by a pointer into *)
(* its skb, a ragged one is copied to the staging buffer.                  *)
(*                                                                         *)
(* tcp_fec_send_repair returns what write() on the tap returned, the       *)
(* number of bytes of the frame (or -1 while the ARP entry is missing).    *)
(* tcp_fec_emit_block takes every value but 0 for a failure and leaves at  *)
(* its first repair, so that repair 0 is all a block ever emits, and       *)
(* tx_block_id, tx_filled and the encoder are never reset.                 *)
(***************************************************************************)
EXTENDS TcpWire

MinOf(a, b) == IF a <= b THEN a ELSE b

TxBlockId == 0

\* The index tcp_send writes into the tag of chunk i of a write: tx_filled,
\* which stays at k once the block is full.
tx_index(s, i) == MinOf(K, Len(s.enc) + i - 1)

\* The encoder reads a full symbol through a pointer into its skb; the pointer
\* dangles once the ACK of that skb has freed it.
Dangling(src, wq) ==
  src.len = Sym /\ \A j \in DOMAIN wq : wq[j].run.pos # src.pos

\* What the encoder reads for its sources: freed memory may still hold the
\* old bytes (intact) or something else.
EncoderReads(enc, wq, intact) ==
  [i \in DOMAIN enc |-> IF Dangling(enc[i], wq) /\ ~intact THEN Run(0, Sym)
                                                            ELSE enc[i]]

\* One repair segment, stamped with the current snd_nxt.  Its payload, the
\* repair header and the parity, is in the tag.
tcp_fec_send_repair(s, snd_nxt, tail, intact) ==
  Segment(snd_nxt, s.rcv_nxt, Nothing, FALSE, FALSE, FALSE,
          RepairTag(TxBlockId, 0, Len(s.enc), s.tx_base_seq, tail,
                    EncoderReads(s.enc, s.write_queue, intact)))

tcp_fec_emit_block(s, snd_nxt, tails, intact) ==
  [s EXCEPT !.out = @ \union {tcp_fec_send_repair(s, snd_nxt, t, intact) : t \in tails}]

\* The repairs tcp_send emits while it registers the chunks runs: after each
\* chunk that leaves the block full, with its length as tail_len.  The forced
\* flush before the next chunk repeats it.
EmittedTails(s, runs) ==
  {runs[i].len : i \in {j \in DOMAIN runs : Len(s.enc) + j >= K}}

\* The FEC part of tcp_send: s is the socket before the write, q the socket
\* after its chunks are queued.  The first symbol of a block pins tx_base_seq.
\* A block that is full at the start is flushed before the first chunk goes out.
\* A ragged chunk that finds the block full is copied behind the end of the
\* staging buffer; what lies there in the heap is no part of this model.
tcp_fec_register(s, q, runs, intact) ==
  LET all == s.enc \o runs
      f   == [q EXCEPT
                !.enc         = SubSeq(all, 1, MinOf(K, Len(all))),
                !.tx_base_seq = IF s.enc = <<>> THEN s.snd_nxt ELSE @,
                !.tx_tail_len = runs[Len(runs)].len]
      forced == IF Len(s.enc) >= K THEN {s.tx_tail_len} ELSE {}
  IN  tcp_fec_emit_block(tcp_fec_emit_block(f, s.snd_nxt, forced, intact),
                         q.snd_nxt, EmittedTails(s, runs), intact)

\* Parity for a partial block, before the FIN is queued.
tcp_fec_flush(s, intact) ==
  IF s.fec /\ s.enc # <<>> THEN tcp_fec_emit_block(s, s.snd_nxt, {s.tx_tail_len}, intact) ELSE s

==============================================================================
