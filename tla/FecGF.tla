-------------------------------- MODULE FecGF --------------------------------
(***************************************************************************)
(* The arithmetic of the erasure code (include/fec.h, src/fec.c): GF(256)  *)
(* by logarithm tables, evaluation and interpolation of polynomials.  The  *)
(* byte lanes of a packet are independent of each other, so a packet is    *)
(* one byte here.  Sequences of points and coefficients start at 1.        *)
(***************************************************************************)
EXTENDS Integers, Sequences, FiniteSets, SequencesExt

Byte == 0..255

\* Exclusive or of two numbers of nine bits.
Xor(a, b) ==
  LET bit(i) == 2^i * (((a \div 2^i) + (b \div 2^i)) % 2)
  IN  bit(0) + bit(1) + bit(2) + bit(3) + bit(4) + bit(5) + bit(6) + bit(7) + bit(8)

FEC_GF_PRIMITIVE_POLY == 285

\* n turns of the loop of fec_rs_init from x: x <<= 1, reduced when bit 8 comes up.
Turns[x \in Byte, n \in 0..16] ==
  IF n = 0 THEN x
  ELSE Turns[IF x >= 128 THEN Xor(2 * x, FEC_GF_PRIMITIVE_POLY) ELSE 2 * x, n - 1]

\* The 255 turns of the loop in 16 strides of 16, which keeps the recursion shallow.
Stride[r \in 0..15] == IF r = 0 THEN 1 ELSE Turns[Stride[r-1], 16]

\* The tables.  The second half of exp_lut repeats the first, so that the sum of two
\* logarithms needs no reduction; of a logarithm written twice the later one stays.
ExpTable == [i \in 0..511 |-> Turns[Stride[(i % 255) \div 16], (i % 255) % 16]]

LogTable(exp_lut) ==
  [x \in Byte |-> LET at == {i \in 0..254 : exp_lut[i] = x}
                  IN  IF at = {} THEN 0 ELSE Max(at)]

\* The context every function of the code takes.
fec_rs_init(ctx) ==
  \E exp_lut \in {ExpTable} : ctx = [exp_lut |-> exp_lut, log_lut |-> LogTable(exp_lut)]

gf256_add(a, b) == Xor(a, b)

gf256_mul(ctx, a, b) == IF a = 0 \/ b = 0 THEN 0 ELSE ctx.exp_lut[ctx.log_lut[a] + ctx.log_lut[b]]

\* Mutant: a negative difference of logarithms wraps at 256.
gf256_div_Wraps256(ctx, a, b) ==
  LET diff == ctx.log_lut[a] - ctx.log_lut[b]
  IN  IF a = 0 \/ b = 0 THEN 0 ELSE ctx.exp_lut[IF diff < 0 THEN diff + 256 ELSE diff]

gf256_div(ctx, a, b) ==
  LET diff == ctx.log_lut[a] - ctx.log_lut[b]
  IN  IF a = 0 \/ b = 0 THEN 0 ELSE ctx.exp_lut[IF diff < 0 THEN diff + 255 ELSE diff]

gf256_inv(ctx, a) == IF a = 0 THEN 0 ELSE ctx.exp_lut[255 - ctx.log_lut[a]]

------------------------------------------------------------------------------
\* The sequence itself; TLC computes its elements once instead of at every use.
Vector(s) == s \o <<>>

Sum(s) == FoldLeft(gf256_add, 0, s)
Product(ctx, s) == LET mul(a, b) == gf256_mul(ctx, a, b) IN FoldLeft(mul, 1, s)

\* P(x) for the coefficients a_0, a_1, ..., by Horner's rule from the last one on.
fec_poly_encode_redundant(ctx, coeffs, x) ==
  LET horner(a, y) == gf256_add(gf256_mul(ctx, y, x), a)
  IN  FoldRight(horner, SubSeq(coeffs, 1, Len(coeffs) - 1), coeffs[Len(coeffs)])

\* The coefficient with index m (from 0), from the others and one value y = P(x).
\* -1 is the error return.
fec_poly_recover_missing_coefficient(ctx, coeffs, m, x, y) ==
  LET power(i) == Product(ctx, [j \in 1..i |-> x])
      known == Sum([i \in 1..Len(coeffs) |->
                      IF i - 1 = m THEN 0 ELSE gf256_mul(ctx, coeffs[i], power(i - 1))])
  IN  IF power(m) = 0 THEN -1 ELSE gf256_mul(ctx, gf256_add(y, known), gf256_inv(ctx, power(m)))

\* omega(x) = (x + x_1)(x + x_2)...(x + x_n), lowest coefficient first.
TimesLinear(ctx, poly, x) ==
  Vector([i \in 1..Len(poly)+1 |->
            gf256_add(IF i = 1 THEN 0 ELSE poly[i-1],
                      IF i > Len(poly) THEN 0 ELSE gf256_mul(ctx, poly[i], x))])

Omega(ctx, xs) == LET times(p, x) == TimesLinear(ctx, p, x) IN FoldLeft(times, <<1>>, xs)

\* Synthetic division of omega by (x + xi), from the highest coefficient down.
Quotient(ctx, omega, xi) ==
  LET n == Len(omega) - 1
      q[i \in 1..n] == IF i = n THEN omega[n+1]
                       ELSE gf256_add(omega[i+1], gf256_mul(ctx, q[i+1], xi))
  IN  Vector([i \in 1..n |-> q[i]])

\* The barycentric weight of point i.
Weight(ctx, xs, i) ==
  Product(ctx, [j \in 1..Len(xs) |-> IF j = i THEN 1 ELSE gf256_add(xs[i], xs[j])])

\* The coefficients of the polynomial through the points, <<>> for the error return.
fec_poly_interpolate_coefficients(ctx, xs, ys) ==
  LET n == Len(xs)
      omega == Omega(ctx, xs)
      q == Vector([i \in 1..n |-> Quotient(ctx, omega, xs[i])])
      s == Vector([i \in 1..n |-> Weight(ctx, xs, i)])
      T(p, i) == gf256_mul(ctx, q[i][p], gf256_inv(ctx, s[i]))
  IN  IF ~ IsInjective(xs) \/ 0 \in Range(s) THEN <<>>
      ELSE Vector([p \in 1..n |-> Sum([i \in 1..n |-> gf256_mul(ctx, T(p, i), ys[i])])])

==============================================================================
