------------------------------- MODULE TcpSack --------------------------------
(***************************************************************************)
(* What a receiver accepts and what it says about it: the window test, the *)
(* out-of-order queue and the SACK option of the duplicate ACKs.  Sequence *)
(* numbers wrap at Width, and the comparisons are the code's, between      *)
(* unsigned numbers.                                                       *)
(*                                                                         *)
(* The stream comes in segments of the lengths Lens, in any order and any  *)
(* number of times; a segment is named by its place in the stream.         *)
(***************************************************************************)
EXTENDS Integers, Sequences, SequencesExt, FiniteSets, FiniteSetsExt

CONSTANTS Lens,           \* the length of each segment of the stream
          FirstSeq,       \* the sequence number of its first byte
          Width,          \* sequence numbers are taken modulo Width
          Window,         \* tcb->rcv_wnd
          SacksAllowed    \* tsk->sacks_allowed: 4, or 3 next to timestamps

VARIABLES rcv_nxt, ofo_queue, sacks, sacklen, ack

vars == <<rcv_nxt, ofo_queue, sacks, sacklen, ack>>

Offset(i) == MapThenSumSet(LAMBDA j : Lens[j], 1..(i - 1))
SegSeq(i) == (FirstSeq + Offset(i)) % Width
EndSeq(i) == (SegSeq(i) + Lens[i]) % Width

NoBlock == [left |-> 0, right |-> 0]

Init ==
  /\ rcv_nxt = FirstSeq /\ ofo_queue = <<>>
  /\ sacks = [n \in 1..4 |-> NoBlock] /\ sacklen = 0
  /\ ack = [dup |-> FALSE, room |-> 0, blocks |-> <<>>]

\* Mutant: the left edge of the window is not part of it.
tcp_verify_segment_LeftEdgeOut(i) ==
  Window > 0 /\ SegSeq(i) > rcv_nxt /\ SegSeq(i) <= (rcv_nxt + Window) % Width

tcp_verify_segment(i) ==
  Window > 0 /\ SegSeq(i) >= rcv_nxt /\ SegSeq(i) <= (rcv_nxt + Window) % Width

\* Before the first buffer that lies wholly behind it, unless it is there already.
tcp_data_insert_ordered(q, i) ==
  LET stops == {n \in 1..Len(q) : \/ SegSeq(i) = SegSeq(q[n])
                                  \/ SegSeq(i) < SegSeq(q[n]) /\ EndSeq(i) <= SegSeq(q[n])}
  IN  IF stops = {} THEN Append(q, i)
      ELSE IF SegSeq(q[Min(stops)]) = SegSeq(i) THEN q
      ELSE InsertAt(q, Min(stops), i)

RECURSIVE tcp_consume_ofo_queue(_, _)
\* <<rcv_nxt, ofo_queue>> after the head of the queue has been taken while it is next.
tcp_consume_ofo_queue(nxt, q) ==
  IF q = <<>> \/ SegSeq(Head(q)) # nxt THEN <<nxt, q>>
  ELSE tcp_consume_ofo_queue(EndSeq(Head(q)), Tail(q))

------------------------------------------------------------------------------
\* The blocks.  left = 0 marks a block that has not begun, right = 0 one without end.

\* One buffer of the walk: it begins the current block, continues it, or begins the
\* next one; with no block left the walk is over.
Walk(w, i) ==
  LET begun == IF w.sacks[w.sb].left = 0
               THEN [w EXCEPT !.sacks[w.sb].left = SegSeq(i), !.len = @ + 1] ELSE w
      right == begun.sacks[w.sb].right
  IN  IF w.over THEN w
      ELSE IF right \in {0, SegSeq(i)} THEN [begun EXCEPT !.sacks[w.sb].right = EndSeq(i)]
      ELSE IF begun.len >= SacksAllowed THEN [begun EXCEPT !.over = TRUE]
      ELSE [begun EXCEPT !.sb = begun.len + 1, !.len = @ + 1,
              !.sacks[begun.len + 1] = [left |-> SegSeq(i), right |-> EndSeq(i)]]

tcp_calculate_sacks(q) ==
  FoldLeft(Walk, [sacks |-> [sacks EXCEPT ![sacklen + 1] = NoBlock],
                  sb |-> sacklen + 1, len |-> sacklen, over |-> FALSE], q)

\* Mutant: only the blocks are counted.
tcp_options_len_BlocksOnly(blocks, len) == 8 * len

\* The bytes set aside for the option.
tcp_options_len(blocks, len) ==
  LET n == Cardinality({b \in 1..len : blocks[b].left # 0})
  IN  IF len = 0 THEN 0 ELSE 4 * ((8 * n + 2 + 3) \div 4)

\* tcp_send_ack with tcp_write_options: the blocks leave, the last one first.
tcp_send_ack(dup, blocks, len) ==
  IF blocks[1].left = 0
  THEN /\ ack' = [dup |-> dup, room |-> tcp_options_len(blocks, len), blocks |-> <<>>]
       /\ sacks' = blocks /\ sacklen' = len
  ELSE /\ ack' = [dup |-> dup, room |-> tcp_options_len(blocks, len),
                  blocks |-> Reverse(SubSeq(blocks, 1, len))]
       /\ sacks' = [n \in 1..4 |-> IF n <= len THEN NoBlock ELSE blocks[n]]
       /\ sacklen' = 0

------------------------------------------------------------------------------
\* tcp_data_queue: the next segment in sequence is delivered with what it unlocks.
InOrder(i) ==
  /\ tcp_verify_segment(i) /\ SegSeq(i) = rcv_nxt
  /\ \E drained \in {tcp_consume_ofo_queue(EndSeq(i), ofo_queue)} :
       rcv_nxt' = drained[1] /\ ofo_queue' = drained[2]
  /\ ack' = [ack EXCEPT !.dup = FALSE]
  /\ UNCHANGED <<sacks, sacklen>>

\* Any other one waits, and is answered at once.  The array of blocks has four places.
OutOfOrder(i) ==
  /\ tcp_verify_segment(i) /\ SegSeq(i) # rcv_nxt /\ sacklen < 4
  /\ ofo_queue' = tcp_data_insert_ordered(ofo_queue, i)
  /\ \E w \in {tcp_calculate_sacks(ofo_queue')} : tcp_send_ack(TRUE, w.sacks, w.len)
  /\ UNCHANGED rcv_nxt

\* A segment outside the window is only acknowledged, as data is after a while.
PlainAck(i) ==
  /\ ~tcp_verify_segment(i) \/ rcv_nxt # FirstSeq
  /\ tcp_send_ack(FALSE, sacks, sacklen)
  /\ UNCHANGED <<rcv_nxt, ofo_queue>>

Next == \E i \in DOMAIN Lens : InOrder(i) \/ OutOfOrder(i) \/ PlainAck(i)

Spec == Init /\ [][Next]_vars

------------------------------------------------------------------------------
\* Properties.

\* The bytes that wait out of order, as places in the stream.
Held == UNION {Offset(i)..(Offset(i) + Lens[i] - 1) : i \in ToSet(ofo_queue)}

\* The places where a run of them begins, and where the run from b ends.
Begins == {b \in Held : b - 1 \notin Held}
RunEnd(b) == Min({e \in b..(Offset(Len(Lens)) + Lens[Len(Lens)]) : e \notin Held})

\* tcp_calculate_sacks and tcp_write_options: every duplicate ACK reports the first runs
\* of out-of-order data, whole and no others, as many as are allowed, in an option area
\* of exactly the size tcp_options_len set aside; and no block stays for a later ACK.
SackExact ==
  ack.dup =>
    LET all   == SetToSortSeq(Begins, <)
        first == SubSeq(all, 1, Min({Len(all), SacksAllowed}))
        block(b) == [left |-> (FirstSeq + b) % Width, right |-> (FirstSeq + RunEnd(b)) % Width]
    IN  /\ ack.blocks = Reverse([n \in DOMAIN first |-> block(first[n])])
        /\ ack.room = 4 + 8 * Len(ack.blocks)
        /\ sacklen = 0

\* tcp_verify_segment never turns away the segment that continues the stream, whatever
\* waits out of order: the transfer cannot get stuck at the window test.
NextAccepted == \A i \in DOMAIN Lens : SegSeq(i) = rcv_nxt => tcp_verify_segment(i)

===============================================================================
