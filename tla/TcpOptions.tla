------------------------------ MODULE TcpOptions -----------------------------
(***************************************************************************)
(* The options of a SYN as bytes: what tcp_syn_options and tcp_write_syn_  *)
(* options put into a header and what tcp_walk_options reads from one.     *)
(*                                                                         *)
(* A behaviour fills an option area, either with the stack's own SYN       *)
(* options or option by option in any order, as another TCP might, and may *)
(* lose its last bytes.  placed records which options went in.             *)
(***************************************************************************)
EXTENDS Integers, Sequences, SequencesExt, FiniteSets

CONSTANTS MaxOptions     \* bound: options placed one by one

VARIABLES area, placed

vars == <<area, placed>>

TCP_OPT_END == 0
TCP_OPT_NOOP == 1
TCP_OPT_MSS == 2
TCP_OPT_SACK_OK == 4
TCP_OPT_TS == 8
TCP_OPT_FEC_PERM == 30
TCP_OPTLEN_FEC_PERM == 8
TCP_OPT_MAX == 40

Hi(n) == n \div 256
Lo(n) == n % 256

\* struct tcp_opt_mss and struct tcp_opt_fec_perm in network order.
MssOption(mss) == <<TCP_OPT_MSS, 4, Hi(mss), Lo(mss)>>
FecPermOption(version, k, r, sym_len) ==
  <<TCP_OPT_FEC_PERM, TCP_OPTLEN_FEC_PERM, version, k, r, 0, Hi(sym_len), Lo(sym_len)>>

OurFecPerm == FecPermOption(1, 8, 2, 512)
SackOkOption == <<TCP_OPT_NOOP, TCP_OPT_NOOP, TCP_OPT_SACK_OK, 2>>

------------------------------------------------------------------------------
\* Writing: tcp_syn_options decides what goes in and how long the area is.
\* FEC-PERM is the first to go when the area would not fit.

SynLength(sackok, fec) ==
  4 + (IF sackok THEN 4 ELSE 0) + (IF fec THEN TCP_OPTLEN_FEC_PERM ELSE 0)

tcp_syn_options(rmss, sackok, fecok) ==
  LET fec == fecok /\ SynLength(sackok, TRUE) <= TCP_OPT_MAX
      len == SynLength(sackok, fec)
  IN  [mss |-> rmss, sack |-> sackok, fec |-> fec, optlen |-> 4 * ((len + 3) \div 4)]

tcp_write_syn_options(opts) ==
  LET written == MssOption(opts.mss)
                   \o (IF opts.fec THEN OurFecPerm ELSE <<>>)
                   \o (IF opts.sack THEN SackOkOption ELSE <<>>)
  IN  written \o [i \in 1..(opts.optlen - Len(written)) |-> TCP_OPT_NOOP]

------------------------------------------------------------------------------
\* Reading.

Nothing == [mss |-> 0, sack_ok |-> FALSE, ts_seen |-> FALSE, fec_perm |-> FALSE]

\* The mss field is overwritten by every valid MSS option; a 536 byte MSS
\* is not larger than the default and is passed over.
ValidMss(mss) == mss > 536 /\ mss <= 1460

SameGeometry(opt) == opt = [OurFecPerm EXCEPT ![6] = opt[6]]

\* What one length-prefixed option says, to the caller that holds `out`.
Record(out, opt) ==
  CASE opt[1] = TCP_OPT_MSS /\ opt[2] = 4 /\ ValidMss(opt[3] * 256 + opt[4]) ->
         [out EXCEPT !.mss = opt[3] * 256 + opt[4]]
    [] opt[1] = TCP_OPT_SACK_OK -> [out EXCEPT !.sack_ok = TRUE]
    [] opt[1] = TCP_OPT_TS -> [out EXCEPT !.ts_seen = TRUE]
    [] opt[1] = TCP_OPT_FEC_PERM /\ opt[2] = TCP_OPTLEN_FEC_PERM ->
         [out EXCEPT !.fec_perm = @ \/ SameGeometry(opt)]
    [] OTHER -> out

\* Mutant: an option the walk does not know is skipped byte by byte.
Stride_ByKind(a, i) ==
  CASE a[i] = TCP_OPT_END -> 0
    [] a[i] \in {TCP_OPT_MSS, TCP_OPT_SACK_OK, TCP_OPT_TS, TCP_OPT_FEC_PERM} ->
         IF i = Len(a) \/ i + a[i + 1] - 1 > Len(a) THEN 0 ELSE a[i + 1]
    [] OTHER -> 1

\* The length of the option at offset i, 0 where the walk has to stop.
Stride(a, i) ==
  CASE a[i] = TCP_OPT_END -> 0
    [] a[i] = TCP_OPT_NOOP -> 1
    [] a[i] \notin {TCP_OPT_END, TCP_OPT_NOOP} /\ i < Len(a) ->
         IF a[i + 1] < 2 \/ i + a[i + 1] - 1 > Len(a) THEN 0 ELSE a[i + 1]
    [] OTHER -> 0

\* The offsets the walk visits before it stops, in order.
Offsets(a) ==
  LET visit[i \in 1..(Len(a) + 1)] ==
        IF i > Len(a) \/ Stride(a, i) = 0 THEN <<>>
        ELSE <<i>> \o visit[i + Stride(a, i)]
  IN  visit[1]

tcp_walk_options(a) ==
  LET read(out, i) ==
        IF a[i] = TCP_OPT_NOOP THEN out ELSE Record(out, SubSeq(a, i, i + Stride(a, i) - 1))
  IN  FoldLeft(read, Nothing, Offsets(a))

------------------------------------------------------------------------------
\* The options another TCP may place: the bytes and what they tell us.

Option(bytes, says) == [bytes |-> bytes, says |-> says]

Foreign ==
  {Option(<<TCP_OPT_END>>, "end"),
   Option(<<TCP_OPT_NOOP>>, "nothing"),
   Option(MssOption(1460), "mss"),
   Option(MssOption(536), "nothing"),
   Option(<<TCP_OPT_SACK_OK, 2>>, "sack_ok"),
   Option(<<TCP_OPT_TS, 10, 0, 0, 1, 2, 0, 0, 4, 2>>, "ts_seen"),
   Option(OurFecPerm, "fec_perm"),
   Option(FecPermOption(1, 4, 2, 512), "nothing"),
   Option(FecPermOption(1, 8, 2, 1024), "nothing"),
   Option(<<77, 4, TCP_OPT_SACK_OK, 2>>, "nothing")}

Init == area = <<>> /\ placed = <<>>

\* The stack's own SYN.
WriteSyn(sackok, fecok) ==
  /\ area = <<>>
  /\ area' = tcp_write_syn_options(tcp_syn_options(1460, sackok, fecok))
  /\ placed' = <<"mss">> \o (IF fecok THEN <<"fec_perm">> ELSE <<>>)
                         \o (IF sackok THEN <<"sack_ok">> ELSE <<>>)

\* One option more, in a foreign SYN.
Place(opt) ==
  /\ Len(placed) < MaxOptions /\ ~Contains(placed, "cut") /\ Len(area) + Len(opt.bytes) <= TCP_OPT_MAX
  /\ area' = area \o opt.bytes
  /\ placed' = Append(placed, opt.says)

\* The last option, at least two bytes long, loses its last byte.
Truncate ==
  /\ placed # <<>> /\ Len(area) > 1
  /\ \E opt \in Foreign :
       /\ opt.says = Last(placed) /\ Len(opt.bytes) > 1
       /\ IsSuffix(opt.bytes, area)
  /\ area' = Front(area)
  /\ placed' = Append(Front(placed), "cut")

Next ==
  \/ \E sackok, fecok \in BOOLEAN : WriteSyn(sackok, fecok)
  \/ \E opt \in Foreign : Place(opt)
  \/ Truncate

Spec == Init /\ [][Next]_vars

------------------------------------------------------------------------------
\* Properties.

\* tcp_walk_options finds every option that stands before the end of the list
\* and nothing else, in whatever order a peer writes them, and an option cut
\* short ends the list: "the walk stays in sync regardless of option ordering".
WalkFindsWhatWasPlaced ==
  LET before == {i \in DOMAIN placed : \A j \in 1..i : placed[j] \notin {"end", "cut"}}
      said == {placed[i] : i \in before}
  IN  tcp_walk_options(area) =
        [mss |-> IF "mss" \in said THEN 1460 ELSE 0, sack_ok |-> "sack_ok" \in said,
         ts_seen |-> "ts_seen" \in said, fec_perm |-> "fec_perm" \in said]

\* Not so: "the existing SACK_OK parse case does not advance the option pointer, so any
\* option after it would be shadowed" (tcp_write_syn_options).  tcp_walk_options steps
\* over every option by its length, and finds a FEC-PERM that comes after SACK_OK.
SackOkShadows ==
  LET at(says) == {i \in DOMAIN placed : placed[i] = says}
  IN  (\E i \in at("sack_ok") : \A j \in at("fec_perm") : i < j) => ~tcp_walk_options(area).fec_perm
==============================================================================
