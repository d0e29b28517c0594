------------------------------- MODULE Checksum -------------------------------
(***************************************************************************)
(* The Internet checksum (utils.c) and its uses: the header that           *)
(* ip_output builds and ip_rcv verifies, and the segment with its          *)
(* pseudo-header, whose checksum only the peer verifies.  A word has W     *)
(* values and an accumulator W * W, as 2^16 and 2^32 in the code; the      *)
(* program adds words as the little-endian host loads them, which only     *)
(* swaps the bytes of the result, and an odd last byte as a word.          *)
(***************************************************************************)
EXTENDS Integers, Sequences

CONSTANTS
  W,             \* values of a word
  Words,         \* words of a text
  MaxWords,      \* bound: words of a text
  Addresses

\* The protocol number and the length of a text are words.
ASSUME ChecksumAssumption ==
  /\ W \in Nat /\ W > 6 /\ Words \subseteq 0..W-1 /\ MaxWords \in 0..W-1
  /\ Addresses \subseteq Nat \ {0}

VARIABLES words, saddr, daddr

checkvars == <<words, saddr, daddr>>

ChecksumInit == words = <<>> /\ saddr = 0 /\ daddr = 0

\* Any connection, and any text for it.
Connect ==
  /\ saddr = 0 /\ UNCHANGED words
  /\ saddr' \in Addresses /\ daddr' \in Addresses

Extend ==
  /\ saddr # 0 /\ UNCHANGED <<saddr, daddr>>
  /\ Len(words) < MaxWords
  /\ \E w \in Words : words' = Append(words, w)

ChecksumNext == Connect \/ Extend

ChecksumSpec == ChecksumInit /\ [][ChecksumNext]_checkvars

------------------------------------------------------------------------------
sum_every_16bits(ws) ==
  LET upto[i \in 0..Len(ws)] == IF i = 0 THEN 0 ELSE (upto[i - 1] + ws[i]) % (W * W) IN upto[Len(ws)]

\* Mutant: folded once, which may leave a carry.
Fold_Once(n) == ((n % W) + (n \div W)) % W

Fold(n) ==
  LET once(m) == (m % W) + (m \div W)
      fold[m \in 0..(W * W)] == IF m < W THEN m ELSE fold[once(m)]
  IN  fold[n]

checksum(ws, start_sum) == W - 1 - Fold((start_sum + sum_every_16bits(ws)) % (W * W))

\* The addresses are added as whole accumulators.
tcp_udp_checksum(s, d, proto, len, ws) == checksum(ws, (s + d + proto + len) % (W * W))

ip_send_check(ws) == checksum(ws, 0)

ip_rcv_accepts(ws) == checksum(ws, 0) = 0

------------------------------------------------------------------------------
\* RFC 1071: the sum in one's complement, the carry added at every step.
OnesSum(ws) ==
  LET upto[i \in 0..Len(ws)] ==
        IF i = 0 THEN 0
        ELSE LET n == upto[i - 1] + ws[i] IN IF n >= W THEN n - W + 1 ELSE n
  IN  upto[Len(ws)]

PseudoHeader == <<saddr \div W, saddr % W, daddr \div W, daddr % W, 6, Len(words)>>

\* ip_rcv takes the header of ip_output, and rejects it with another word in
\* place of one of its own (but for the two forms of zero).
HeaderVerifies ==
  LET header == words \o <<ip_send_check(words)>>
  IN  /\ ip_rcv_accepts(header)
      /\ \A i \in DOMAIN header, w \in Words :
           ip_rcv_accepts([header EXCEPT ![i] = w]) => (w - header[i]) % (W - 1) = 0

\* The checksum of a segment makes the sum over pseudo-header and text all ones.
SegmentVerifies ==
  LET csum == tcp_udp_checksum(saddr, daddr, 6, Len(words), words)
  IN  OnesSum(PseudoHeader \o words \o <<csum>>) = W - 1

\* What the stack sends is accepted, here and by any peer, and what was damaged
\* is not (checksum, ip_rcv).
ChecksumVerifies == HeaderVerifies /\ SegmentVerifies
===============================================================================
