------------------------------- MODULE FecCodec -------------------------------
(***************************************************************************)
(* The block codec (fec_codec.c) between one encoder and one decoder.  The *)
(* decoder gets any of the symbols of the current block, in any order and  *)
(* more than once; both ends are reset together for the next block.  A     *)
(* symbol is one byte: the byte lanes are independent (see FecGF).         *)
(***************************************************************************)
EXTENDS FecGF

CONSTANTS Symbols,     \* the bytes sources are drawn from
          Ks, Rs,      \* the numbers of sources and of redundant symbols asked for
          MaxK,        \* only blocks with at most MaxK sources
          MaxR,        \* and MaxR redundant symbols get data
          RedXs        \* vectors of evaluation points a caller may pass

VARIABLES ctx,         \* struct fec_rs_ctx
          tried,       \* the parameters of the initialisation, <<>> before
          enc,         \* struct fec_encoder
          dec,         \* struct fec_decoder
          parity,      \* the redundant symbols generated for this block
          result,      \* what the last fec_decoder_recover returned
          recovered    \* and the sources it wrote

vars == <<ctx, tried, enc, dec, parity, result, recovered>>

FEC_BLK_MAX_K == 128
FEC_BLK_MAX_R == 32
NULL == <<>>
Absent == -1

Allowed(k, r) == k \in 1..FEC_BLK_MAX_K /\ r \in 1..FEC_BLK_MAX_R /\ k + r <= 255

SourceX(k) == [i \in 1..k |-> i]

RedundantX(k, r, red_x) == IF red_x = NULL THEN [i \in 1..r |-> k + i] ELSE red_x

\* The validation at the end of fec_encoder_init.
Valid(k, red_x) ==
  LET xs == SourceX(k) \o red_x
  IN  IsInjective(xs) /\ 0 \notin Range(red_x)

\* The state of a codec after an initialisation that was refused, or none at all.
NoCodec == [k |-> 0, r |-> 0]

fec_encoder_init(k, r, red_x) ==
  LET xs == RedundantX(k, r, red_x)
  IN  IF Allowed(k, r) /\ Valid(k, xs) THEN [k |-> k, r |-> r, red_x |-> xs, src |-> <<>>]
      ELSE NoCodec

\* The decoder does not look at the points.
fec_decoder_init(k, r, red_x) ==
  IF Allowed(k, r)
  THEN [k |-> k, r |-> r, red_x |-> RedundantX(k, r, red_x),
        src |-> [i \in 1..k |-> Absent], red |-> [j \in 1..r |-> Absent]]
  ELSE NoCodec

fec_encoder_add_source(e, data) ==
  IF Len(e.src) >= e.k THEN e ELSE [e EXCEPT !.src = Append(@, data)]

\* The sources are the values of a polynomial at 1..k; its values at red_x are the
\* redundant symbols.
fec_encoder_generate(e) ==
  LET coeffs == fec_poly_interpolate_coefficients(ctx, SourceX(e.k), e.src)
  IN  [j \in 1..e.r |-> fec_poly_encode_redundant(ctx, coeffs, e.red_x[j])]

fec_encoder_reset(e) == [e EXCEPT !.src = <<>>]

fec_decoder_add_source(d, i, data) ==
  IF d.src[i] # Absent THEN d ELSE [d EXCEPT !.src[i] = data]

fec_decoder_add_redundant(d, j, data) ==
  IF d.red[j] # Absent THEN d ELSE [d EXCEPT !.red[j] = data]

Present(f) == {i \in DOMAIN f : f[i] # Absent}

fec_decoder_recoverable(d) ==
  Cardinality(Present(d.red)) >= d.k - Cardinality(Present(d.src))

\* The first k symbols present, sources before redundant ones, as points <<x, y>>.
Survivors(d) ==
  LET present(p) == p[2] # Absent
      points == [i \in 1..d.k |-> <<i, d.src[i]>>] \o [j \in 1..d.r |-> <<d.red_x[j], d.red[j]>>]
  IN  SubSeq(SelectSeq(points, present), 1, d.k)

\* <<return value, sources written>>.  Only missing sources are written.
fec_decoder_recover(d) ==
  LET points  == Survivors(d)
      coeffs  == fec_poly_interpolate_coefficients(
                   ctx, [i \in 1..d.k |-> points[i][1]], [i \in 1..d.k |-> points[i][2]])
      missing == (1..d.k) \ Present(d.src)
  IN  IF missing = {} THEN <<0, <<>>>>
      ELSE IF ~ fec_decoder_recoverable(d) THEN <<-1, <<>>>>
      ELSE IF coeffs = <<>> THEN <<-1, <<>>>>
      ELSE <<0, [i \in missing |-> fec_poly_encode_redundant(ctx, coeffs, i)]>>

\* Mutant: the redundant symbols of the last block stay.
fec_decoder_reset_KeepsRedundant(d) == [d EXCEPT !.src = [i \in 1..d.k |-> Absent]]

fec_decoder_reset(d) ==
  [d EXCEPT !.src = [i \in 1..d.k |-> Absent], !.red = [j \in 1..d.r |-> Absent]]

------------------------------------------------------------------------------
NotYet == 1

Init ==
  /\ fec_rs_init(ctx)
  /\ tried = <<>> /\ enc = NoCodec /\ dec = NoCodec
  /\ parity = <<>> /\ result = NotYet /\ recovered = <<>>

\* Both ends are set up with the same parameters.  A codec whose points the encoder has
\* refused is not used.
Setup(k, r, red_x) ==
  /\ tried = <<>> /\ tried' = <<k, r, red_x>>
  /\ red_x # NULL => Len(red_x) = r
  /\ enc' = fec_encoder_init(k, r, red_x)
  /\ dec' = fec_decoder_init(k, r, red_x)
  /\ UNCHANGED <<ctx, parity, result, recovered>>

InUse == enc.k \in 1..MaxK /\ enc.r <= MaxR

AddSource(data) ==
  /\ InUse
  /\ enc' = fec_encoder_add_source(enc, data)
  /\ UNCHANGED <<ctx, tried, dec, parity, result, recovered>>

Generate ==
  /\ InUse /\ Len(enc.src) = enc.k
  /\ parity' = fec_encoder_generate(enc)
  /\ UNCHANGED <<ctx, tried, enc, dec, result, recovered>>

ReceiveSource(i) ==
  /\ InUse /\ i \in DOMAIN enc.src
  /\ dec' = fec_decoder_add_source(dec, i, enc.src[i])
  /\ UNCHANGED <<ctx, tried, enc, parity, result, recovered>>

ReceiveRedundant(j) ==
  /\ InUse /\ j \in DOMAIN parity
  /\ dec' = fec_decoder_add_redundant(dec, j, parity[j])
  /\ UNCHANGED <<ctx, tried, enc, parity, result, recovered>>

Recover ==
  /\ InUse
  /\ \E out \in {fec_decoder_recover(dec)} : result' = out[1] /\ recovered' = out[2]
  /\ UNCHANGED <<ctx, tried, enc, dec, parity>>

NextBlock ==
  /\ InUse /\ parity # <<>>
  /\ enc' = fec_encoder_reset(enc) /\ dec' = fec_decoder_reset(dec)
  /\ parity' = <<>> /\ result' = NotYet /\ recovered' = <<>>
  /\ UNCHANGED <<ctx, tried>>

Next ==
  \/ \E k \in Ks, r \in Rs, red_x \in RedXs \union {NULL} :
        Setup(k, r, red_x)
  \/ \E data \in Symbols : AddSource(data)
  \/ Generate
  \/ \E i \in 1..MaxK : ReceiveSource(i)
  \/ \E j \in 1..MaxR : ReceiveRedundant(j)
  \/ Recover
  \/ NextBlock

Spec == Init /\ [][Next]_vars

------------------------------------------------------------------------------
\* Any k of the k + r symbols of a block give back the sources that are missing, with
\* fewer fec_decoder_recover fails; whatever came before in earlier blocks, came twice
\* or came out of order (fec_decoder_recover, "always possible" in fec_codec.h).
AnyKSymbolsRecover ==
  [][Recover =>
       LET missing == (1..dec.k) \ Present(dec.src)
       IN  IF Cardinality(Present(dec.red)) < Cardinality(missing) THEN result' = -1
           ELSE /\ result' = 0 /\ DOMAIN recovered' = missing
                /\ \A i \in missing : i \in DOMAIN enc.src /\ recovered'[i] = enc.src[i]]_vars

\* With the sources as coefficients of a polynomial and its value at a point, each one
\* of them can be computed from the others (fec_poly_recover_missing_coefficient).
CoefficientRecovered ==
  (InUse /\ Len(enc.src) = enc.k) =>
    \A x \in 1..enc.k+1, m \in 0..enc.k-1 :
       fec_poly_recover_missing_coefficient(
         ctx, enc.src, m, x, fec_poly_encode_redundant(ctx, enc.src, x)) = enc.src[m+1]

\* fec_codec.h says of red_x: "If NULL, uses default values 1, 2, ..., r."
DefaultPointsFromOne ==
  (tried # <<>> /\ tried[3] = NULL /\ enc # NoCodec) =>
    enc.red_x = [j \in 1..enc.r |-> j]

==============================================================================
