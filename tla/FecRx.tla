-------------------------------- MODULE FecRx --------------------------------
(***************************************************************************)
(* The receiver half of FEC (tcp_fec_* of src/tcp_input.c): the ring of    *)
(* block slots, the recovery of missing source symbols and their splicing  *)
(* into the byte stream.                                                   *)
(*                                                                         *)
(* The codec is abstracted to what its algebra guarantees: from k of the   *)
(* k+r symbols of one encoding it returns the encoded sources; symbols     *)
(* that are not of one encoding with the same k decode to no stream bytes. *)
(***************************************************************************)
EXTENDS TcpReassembly, FiniteSets

Least(S) == CHOOSE x \in S : \A y \in S : x <= y

NoParity == [k |-> 0, srcs |-> <<>>]

FreeSlot ==
  [active |-> FALSE, block_id |-> 0, recovered |-> FALSE, blk_k |-> 0,
   base_seq |-> 0, tail_len |-> 0,
   src |-> [i \in 0..K-1 |-> Nothing], red |-> [j \in 0..R-1 |-> NoParity]]

\* The slot of a block: the one it occupies, else the first inactive one, else
\* the one with the smallest block id, which is evicted.
SlotOf(rx, b) ==
  LET held == {i \in DOMAIN rx : rx[i].active /\ rx[i].block_id = b}
      free == {i \in DOMAIN rx : ~rx[i].active}
      old  == {i \in DOMAIN rx : \A j \in DOMAIN rx : rx[i].block_id <= rx[j].block_id}
  IN  CASE held # {} -> Least(held)
        [] held = {} /\ free # {} -> Least(free)
        [] OTHER -> Least(old)

\* Mutant: an evicted slot keeps the symbols of its old block.
tcp_fec_rx_slot_Stale(rx, b) == [rx[SlotOf(rx, b)] EXCEPT !.active = TRUE, !.block_id = b, !.recovered = FALSE]

\* The buffer of a slot, which is allocated when the slot is first used, is there:
\* without it the segment would be handled as one without a tag.
tcp_fec_rx_slot(rx, b) ==
  LET blk == rx[SlotOf(rx, b)]
  IN  IF blk.active /\ blk.block_id = b THEN blk
      ELSE [FreeSlot EXCEPT !.active = TRUE, !.block_id = b]

BlockSize(blk) == IF blk.blk_k # 0 THEN blk.blk_k ELSE K
MissingSources(blk) == {i \in 0..BlockSize(blk)-1 : blk.src[i] = Nothing}
HeldRepairs(blk) == {j \in 0..R-1 : blk.red[j] # NoParity}

\* The repairs the decoder takes to make up k points: the lowest ones.
UsedRepairs(blk) ==
  {j \in HeldRepairs(blk) :
     Cardinality({x \in HeldRepairs(blk) : x < j}) < Cardinality(MissingSources(blk))}

\* fec_decoder_recover: all the symbols used belong to one encoding.
OneEncoding(blk) ==
  \A j \in UsedRepairs(blk) :
    /\ blk.red[j] = blk.red[Least(UsedRepairs(blk))]
    /\ blk.red[j].k = BlockSize(blk)
    /\ \A i \in (0..BlockSize(blk)-1) \ MissingSources(blk) :
         blk.src[i] = blk.red[j].srcs[i+1]

Decoded(blk, i) ==
  IF OneEncoding(blk) THEN blk.red[Least(UsedRepairs(blk))].srcs[i+1] ELSE Run(0, Sym)

\* The first n bytes of a symbol; beyond its own length a symbol is padding.
FirstBytes(sym, n) == IF n <= sym.len THEN Run(sym.pos, n) ELSE Run(0, n)

SpliceLen(blk, i) ==
  IF i = BlockSize(blk) - 1 /\ 0 < blk.tail_len /\ blk.tail_len < Sym
  THEN blk.tail_len ELSE Sym

tcp_fec_splice(s, blk, i) ==
  tcp_data_queue(s, blk.base_seq + i * Sym, FirstBytes(Decoded(blk, i), SpliceLen(blk, i)))

\* The loop over the symbols of the block: those that were missing are spliced.
Spliced(s, blk) ==
  LET upto[i \in 0..BlockSize(blk)] ==
        IF i = 0 THEN s
        ELSE IF i - 1 \in MissingSources(blk) THEN tcp_fec_splice(upto[i - 1], blk, i - 1)
        ELSE upto[i - 1]
  IN  upto[BlockSize(blk)]

\* tcp_fec_rx_recover on the block blk, which sits in slot n.
tcp_fec_rx_recover(s, n, blk) ==
  LET missing == MissingSources(blk)
      done == [blk EXCEPT !.recovered = TRUE,
                 !.src = [i \in DOMAIN @ |-> IF i \in missing THEN Decoded(blk, i) ELSE @[i]]]
      keep(b) == [s EXCEPT !.rx[n] = b]
  IN  CASE blk.recovered \/ BlockSize(blk) > K -> keep(blk)
        [] ~blk.recovered /\ missing = {} -> keep([blk EXCEPT !.recovered = TRUE])
        [] ~blk.recovered /\ missing # {} /\ BlockSize(blk) <= K
             /\ Cardinality(HeldRepairs(blk)) >= Cardinality(missing) ->
             tcp_send_ack(Spliced(keep(done), blk))
        [] OTHER -> keep(blk)

\* A source symbol not seen before.  A short one is taken for the block's last.
RegisterSource(blk, m) ==
  LET i == m.tag.index
  IN  IF blk.src[i] # Nothing THEN blk
      ELSE [blk EXCEPT
              !.src[i]   = m.run,
              !.base_seq = m.seq - i * Sym,
              !.tail_len = IF m.run.len < Sym THEN m.run.len ELSE @,
              !.blk_k    = IF m.run.len < Sym THEN i + 1 ELSE @]

\* A repair's header overrides what the slot knows of its block.
RegisterRepair(blk, m) ==
  [blk EXCEPT
     !.base_seq = m.tag.base_seq, !.tail_len = m.tag.tail_len, !.blk_k = m.tag.k,
     !.red[m.tag.index] = IF @ = NoParity THEN [k |-> m.tag.k, srcs |-> m.tag.srcs] ELSE @]

\* Mutant: recovery is tried when a repair arrives, but not when a source does.
tcp_fec_input_RepairsOnly(s, m) ==
  LET n   == SlotOf(s.rx, m.tag.block)
      blk == tcp_fec_rx_slot(s.rx, m.tag.block)
  IN  CASE m.tag.type = "none" -> s
        [] m.tag.type = "source" /\ m.tag.index >= K -> [s EXCEPT !.rx[n] = blk]
        [] m.tag.type = "source" /\ m.tag.index < K ->
             [s EXCEPT !.rx[n] = RegisterSource(blk, m)]
        [] m.tag.type = "repair" -> tcp_fec_rx_recover(s, n, RegisterRepair(blk, m))

\* tcp_fec_input: what a tagged segment does to the ring and to the stream.  A
\* source whose index is k or more only claims the slot.
tcp_fec_input(s, m) ==
  LET n   == SlotOf(s.rx, m.tag.block)
      blk == tcp_fec_rx_slot(s.rx, m.tag.block)
  IN  CASE m.tag.type = "none" -> s
        [] m.tag.type = "source" /\ m.tag.index >= K -> [s EXCEPT !.rx[n] = blk]
        [] m.tag.type = "source" /\ m.tag.index < K ->
             tcp_fec_rx_recover(s, n, RegisterSource(blk, m))
        [] m.tag.type = "repair" -> tcp_fec_rx_recover(s, n, RegisterRepair(blk, m))

==============================================================================
