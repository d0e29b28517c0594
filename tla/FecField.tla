------------------------------- MODULE FecField -------------------------------
(***************************************************************************)
(* The table arithmetic of include/fec.h against the field it stands for:  *)
(* polynomials over GF(2), as sets of exponents, modulo                    *)
(* x^8 + x^4 + x^3 + x^2 + 1.  The tables never change after fec_rs_init,  *)
(* so the laws are checked once, on the context of the smallest codec      *)
(* before it is used, for all pairs of bytes.                              *)
(***************************************************************************)
EXTENDS FecCodec

Poly(x) == {i \in 0..7 : (x \div 2^i) % 2 = 1}

PolyProduct(p, q) == {d \in 0..14 : Cardinality({i \in p : d - i \in q}) % 2 = 1}

Plus(p, q) == (p \ q) \union (q \ p)

\* The remainder of p: the exponents 14 down to 8 are replaced one after the other.
Remainder(p) ==
  LET r[d \in 8..15] ==
        IF d = 15 THEN p
        ELSE IF d \in r[d+1] THEN Plus(r[d+1], {d, d-4, d-5, d-6, d-8})
        ELSE r[d+1]
  IN  r[8]

Fresh == tried = <<1, 1, NULL>> /\ enc.src = <<>> /\ result = NotYet

\* gf256_mul is the product in the field, although it only adds logarithms; so it is
\* commutative, associative and distributes over gf256_add.
MulIsFieldProduct ==
  Fresh => \A a, b \in Byte :
    Poly(gf256_mul(ctx, a, b)) = Remainder(PolyProduct(Poly(a), Poly(b)))

\* gf256_div undoes gf256_mul, also where the difference of the logarithms wraps.
DivUndoesMul ==
  Fresh => \A a \in Byte, b \in Byte \ {0} : gf256_div(ctx, gf256_mul(ctx, a, b), b) = a

\* The table arithmetic is that of the field, so that gf256_div always undoes
\* gf256_mul and fec_poly_recover_missing_coefficient gets a coefficient back from
\* the others and one value of the polynomial.
FieldArithmetic == MulIsFieldProduct /\ DivUndoesMul /\ CoefficientRecovered

===============================================================================
