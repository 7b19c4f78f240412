--------------------------- MODULE MCPolynomials ----------------------------
(***************************************************************************)
(* Polynomials over the integers modulo 17, which has roots of unity of    *)
(* order 16: a product has at most 16 coefficients.                        *)
(***************************************************************************)
EXTENDS Polynomials

P == 17

MCF == 0..P - 1
MCPlus(x, y) == (x + y) % P
MCNeg(x) == (P - x) % P
MCTimes(a, x) == (a * x) % P

InvTable == [x \in 0..P - 1 |-> IF x = 0 THEN 0 ELSE CHOOSE y \in 1..P - 1 : (x * y) % P = 1]
MCInv(x) == InvTable[x]

\* 3 generates the multiplicative group.
Powers == <<1, 3, 9, 10, 13, 5, 15, 11, 16, 14, 8, 7, 4, 12, 2, 6>>
MCRoot(n, e) == Powers[(((16 \div n) * e) % 16) + 1]

\* The draw 2 has a mask with a zero constant coefficient.
MCRand(s, i) ==
    IF s = 2 /\ i % 400 = 4 THEN 0 ELSE (Powers[((7 * i + 5 * s) % 16) + 1] + 3 * i * s + (i * i) \div 5) % P

MCKeyShares == {[p \in 0..1 |-> 7 * p + 4]}

Kinds == {"const", "public", "shared"}
MCCases ==
    [x : {<<1>>, <<5, 1, 7>>, <<3, 2, 0>>}, xkind : Kinds,
     y : {<<0>>, <<4>>, <<2, 3>>, <<0, 1>>, <<6, 1, 9>>}, ykind : Kinds]

\* A shared polynomial and the public polynomial x; two public polynomials without
\* leading zeros, whose product has one
MCDivisionCases ==
    [x : {<<5, 1, 7>>}, xkind : {"shared"}, y : {<<0, 1>>}, ykind : {"public"}]
    \cup [x : {<<1>>}, xkind : {"public"}, y : {<<6, 1, 9>>}, ykind : {"public"}]
=============================================================================
