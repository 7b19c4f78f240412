----------------------------- MODULE Polynomials ----------------------------
(***************************************************************************)
(* Polynomials whose coefficients are results of the fabric: public ones   *)
(* (DensePolynomialResult), secret shared ones (AuthenticatedDensePoly) and*)
(* the arkworks polynomials (DensePolynomial) that are mixed with them.    *)
(*                                                                         *)
(* A polynomial is the sequence of its coefficients as they are ALLOCATED: *)
(* the coefficient of x^j is element j + 1, and leading zeros stay, because*)
(* a circuit is built before its values are known.  Only an arkworks       *)
(* polynomial drops them.  A coefficient is a wire: << v >> once its gate  *)
(* wrote it, << >> if the gate never will.  A gate runs when all its inputs*)
(* are written, and its outputs are zipped with the ids allocated for them:*)
(* ids without an output stay unwritten.                                   *)
(*                                                                         *)
(* A program applies up to MaxOps operations to an accumulator and a fixed *)
(* operand, so that an operation also meets what others produce.           *)
(***************************************************************************)
EXTENDS Shares, Integers, SequencesExt

CONSTANTS
    Root(_, _),    \* Root(n, e): the e-th power of the generator of the domain of size n
    KeyShares,     \* the MAC keys to choose from
    Draws,         \* the random draws to choose from
    Cases,         \* the pairs of polynomials that programs start from
    Scalars,       \* the scalars to multiply by and to evaluate at
    Sizes,         \* degrees to extend to, and exponents t of moduli x^t
    MaxOps         \* bound on the operations of a program

VARIABLES
    draw,          \* the random draw of this behaviour
    acc,           \* the polynomial the program works on
    arg,           \* the operand it started with
    last,          \* the last operation: its name and its operands
    ops            \* the number of operations done

vars == <<key, draw, acc, arg, last, ops>>

---------------------------------------------------------------------------
(* Wires and gates                                                         *)

None == << >>
Available(ws) == \A k \in DOMAIN ws : ws[k] # None
Values(ws) == [k \in DOMAIN ws |-> ws[k][1]]
Wires(vs) == [k \in DOMAIN vs |-> << vs[k] >>]

\* The element of a singleton: Only({f(v) : v \in {e}}) is f(e), with e evaluated once.
Only(S) == CHOOSE u \in S : u = u

\* A batch gate with arity result ids.
GateBatch(inputs, arity, output) ==
    IF Available(inputs)
    THEN Only({[k \in 1..arity |-> IF k <= Len(out) THEN << out[k] >> ELSE None] :
                  out \in {output}})
    ELSE [k \in 1..arity |-> None]

\* Vec::resize
resize(s, n, z) == [k \in 1..n |-> IF k <= Len(s) THEN s[k] ELSE z]

\* A panic of the builder or of a gate ends the program.
Panic == [kind |-> "panic", coeffs |-> << >>]

\* from_coeffs asserts that there is a coefficient.
from_coeffs(kind, coeffs) ==
    IF coeffs = << >> THEN Panic ELSE [kind |-> kind, coeffs |-> coeffs]

zero_wire(kind) ==
    << IF kind = "shared" THEN [p \in Party |-> [share |-> Zero, mac |-> Zero]] ELSE Zero >>

\* Party 0 holds the value zero and party 1 the value one.
one_wire(kind) ==
    << IF kind = "shared"
       THEN [p \in Party |-> [share |-> IF p = 0 THEN Zero ELSE One, mac |-> key[p]]]
       ELSE One >>

zero(kind) == from_coeffs(kind, << zero_wire(kind) >>)
one(kind) == from_coeffs(kind, << one_wire(kind) >>)

degree(x) == IF x.coeffs = << >> THEN 0 ELSE Len(x.coeffs) - 1

extend_to_degree(x, n) ==
    from_coeffs(x.kind, resize(x.coeffs, n + 1, zero_wire(x.kind)))

rev(x) == from_coeffs(x.kind, Reverse(x.coeffs))

mod_xn(x, n) ==
    IF x = Panic THEN Panic
    ELSE from_coeffs(x.kind, SubSeq(x.coeffs, 1, IF n < Len(x.coeffs) THEN n ELSE Len(x.coeffs)))

---------------------------------------------------------------------------
(* The arkworks polynomials, on sequences of scalars without leading zeros *)

\* from_coefficients_vec
Trim(s) ==
    LET nonzero == {k \in DOMAIN s : s[k] # Zero}
    IN  SubSeq(s, 1, CHOOSE n \in 0..Len(s) : /\ n = 0 \/ n \in nonzero
                                              /\ \A k \in nonzero : k <= n)

Coeff(s, j) == IF j + 1 \in DOMAIN s THEN s[j + 1] ELSE Zero

ArkSub(a, b) ==
    Trim([k \in 1..(IF Len(a) < Len(b) THEN Len(b) ELSE Len(a)) |->
            Minus(Coeff(a, k - 1), Coeff(b, k - 1))])

ArkMul(a, b) ==
    IF a = << >> \/ b = << >> THEN << >>
    ELSE Trim([k \in 1..Len(a) + Len(b) - 1 |->
                SumSeq([i \in 1..k |-> Times(Coeff(a, i - 1), Coeff(b, k - i))])])

x_to_t(t) == [k \in 1..t + 1 |-> IF k = t + 1 THEN One ELSE Zero]

rev_coeffs(a) == Trim(Reverse(a))

\* Long division by a non-zero polynomial
RECURSIVE divide_with_q_and_r(_, _)
divide_with_q_and_r(a, b) ==
    IF Len(a) < Len(b) THEN [q |-> << >>, r |-> a]
    ELSE LET shift == Len(a) - Len(b)
             c == Times(a[Len(a)], Inv(b[Len(b)]))
             term == [k \in 1..shift + 1 |-> IF k = shift + 1 THEN c ELSE Zero]
         IN  Only({[q |-> [k \in 1..shift + 1 |-> Plus(Coeff(rest.q, k - 1), term[k])],
                    r |-> rest.r] :
                      rest \in {divide_with_q_and_r(d, b) : d \in {ArkSub(a, ArkMul(term, b))}}})

\* The extended Euclidean algorithm: f * a + g * b = gcd(a, b)
RECURSIVE compute_bezout_polynomials(_, _)
compute_bezout_polynomials(a, b) ==
    IF b = << >> THEN [f |-> << One >>, g |-> << >>]
    ELSE Only(UNION {{[f |-> up.g, g |-> ArkSub(up.f, ArkMul(d.q, up.g))] :
                         up \in {compute_bezout_polynomials(b, d.r)}} :
                            d \in {divide_with_q_and_r(a, b)}})

\* The inverse mod x^t as a sequence of scalars, or None where it panics: on
\* the zero polynomial, and where the constant coefficient has no inverse.
poly_inverse_mod_xt(a, t) ==
    Only({IF a = << >> \/ f = << >> \/ Times(a[1], f[1]) = Zero THEN None
          ELSE << [k \in DOMAIN f |-> Times(Inv(Times(a[1], f[1])), f[k])] >> :
             f \in {compute_bezout_polynomials(a, x_to_t(t)).f}})

---------------------------------------------------------------------------
(* Fourier transforms                                                      *)

\* Radix2EvaluationDomain::new(n).size()
DomainSize(n) == CHOOSE m \in {2^k : k \in 0..n} : m >= n /\ m < 2 * n

DFT(v, n, forward) ==
    LET scale == IF forward THEN One ELSE Inv(SumSeq([k \in 1..n |-> One]))
        e(j, k) == IF forward THEN j * k ELSE (n - k) * j
    IN  [k \in 1..n |-> Times(scale, SumSeq(
            [j \in 1..n |-> Times(Root(n, e(j - 1, k - 1) % n), Coeff(v, j - 1))]))]

\* Each party transforms its shares and its MACs.
fft_helper(v, n, forward) ==
    Only({[k \in 1..n |-> [p \in Party |-> [share |-> share[p][k], mac |-> mac[p][k]]]] :
             share \in {[p \in Party |-> DFT([k \in DOMAIN v |-> v[k][p].share], n, forward)]},
             mac \in {[p \in Party |-> DFT([k \in DOMAIN v |-> v[k][p].mac], n, forward)]}})

\* fft_with_domain and ifft_with_domain
transform(kind, ws, n, forward) ==
    GateBatch(ws, n, IF kind = "shared" THEN fft_helper(Values(ws), n, forward)
                     ELSE DFT(Values(ws), n, forward))

---------------------------------------------------------------------------
(* Arithmetic.  The first operand is the one that is shared, or a result,  *)
(* if any is: the source's commutative variants swap their operands.       *)

\* batch_add, batch_add_public and batch_add_constant
batch_add(kx, xs, ky, ys) ==
    LET x == Values(xs)
        y == Values(ys)
        term(k) == IF kx # "shared" THEN Plus(x[k], y[k])
                   ELSE IF ky = "shared" THEN Add(x[k], y[k]) ELSE AddPublic(x[k], Public(y[k]))
    IN  GateBatch(xs \o ys, Len(xs), [k \in DOMAIN x |-> term(k)])

\* batch_mul, batch_mul_public and batch_mul_constant
batch_mul(kx, xs, ky, ys, i) ==
    LET x == Values(xs)
        y == Values(ys)
    IN  GateBatch(xs \o ys, Len(xs),
            IF kx = "shared" /\ ky = "shared" THEN BatchMul(x, y, draw, i)
            ELSE [k \in DOMAIN x |-> IF kx = "shared" THEN MulPublic(Public(y[k]), x[k])
                                     ELSE Times(y[k], x[k])])

\* Mutant: the coefficients that do not overlap are always the first operand's.
poly_add_TopOfFirst(x, y) ==
    LET a == x.coeffs
        b == y.coeffs
        min == IF Len(a) < Len(b) THEN Len(a) ELSE Len(b)
    IN  from_coeffs(x.kind, batch_add(x.kind, SubSeq(a, 1, min), y.kind, SubSeq(b, 1, min))
                            \o SubSeq(a, min + 1, Len(a)))

\* Two polynomials of one kind: what does not overlap is carried over.
\* Otherwise both are padded to the longer one.
poly_add(x, y) ==
    LET a == x.coeffs
        b == y.coeffs
        min == IF Len(a) < Len(b) THEN Len(a) ELSE Len(b)
        max == IF Len(a) < Len(b) THEN Len(b) ELSE Len(a)
        top == IF Len(a) < Len(b) THEN b ELSE a
    IN  from_coeffs(x.kind,
            IF x.kind = y.kind
            THEN batch_add(x.kind, SubSeq(a, 1, min), y.kind, SubSeq(b, 1, min))
                 \o SubSeq(top, min + 1, max)
            ELSE batch_add(x.kind, resize(a, max, zero_wire(x.kind)),
                           y.kind, resize(b, max, zero_wire(y.kind))))

poly_neg(x) ==
    [x EXCEPT !.coeffs = GateBatch(x.coeffs, Len(x.coeffs),
        [k \in DOMAIN x.coeffs |-> IF x.kind = "shared" THEN Negate(x.coeffs[k][1])
                                   ELSE Neg(x.coeffs[k][1])])]

poly_sub(x, y) == poly_add(x, poly_neg(y))

\* Multiply in the image of the Fourier transform; the product is as long as
\* the domain.
poly_mul(x, y, i) ==
    IF Panic \in {x, y} THEN Panic
    ELSE LET d == degree(x) + degree(y)
             n == DomainSize(d + 1)
             image(z) == transform(z.kind, resize(z.coeffs, d + 1, zero_wire(z.kind)), n, TRUE)
         IN  Only({from_coeffs(x.kind, transform(x.kind, prod, n, FALSE)) :
                     prod \in {batch_mul(x.kind, a, y.kind, b, i) : a \in {image(x)}, b \in {image(y)}}})

\* Multiplication by a scalar, which is a wire of kind k
scalar_mul(x, w, k, i) ==
    LET n == Len(x.coeffs)
        ws == [j \in 1..n |-> w]
    IN  IF k = "shared" /\ x.kind # "shared"
        THEN from_coeffs("shared", batch_mul(k, ws, x.kind, x.coeffs, i))
        ELSE from_coeffs(x.kind, batch_mul(x.kind, x.coeffs, k, ws, i))

\* Horner's rule on a public polynomial; powers of the point on a shared one
eval(x, v) ==
    LET n == Len(x.coeffs)
        horner[k \in 1..n + 1] ==
            IF k = n + 1 THEN Zero ELSE Plus(Times(horner[k + 1], v), x.coeffs[k][1])
        powers == GateBatch(<< <<v>> >>, n, [k \in 1..n |-> Power(v, k - 1)])
        muls == batch_mul(x.kind, x.coeffs, "public", powers, 0)
    IN  IF x.kind = "shared" THEN GateBatch(muls, 1, << Sum(Values(muls)) >>)
        ELSE GateBatch(x.coeffs, 1, << horner[1] >>)

open(x) ==
    from_coeffs("public", GateBatch(x.coeffs, Len(x.coeffs),
        [k \in DOMAIN x.coeffs |-> Open(x.coeffs[k][1])]))

---------------------------------------------------------------------------
(* Inversion mod x^t and division                                          *)

\* A random shared polynomial of degree d
random(d, i) ==
    from_coeffs("shared",
        [k \in 1..d + 1 |-> << Deal(Rand(draw, i + 3 * k), draw, i + 3 * k + 1) >>])

\* The public inverse is one gate with t outputs.
inverse_public(x, t) ==
    IF x = Panic THEN Panic
    ELSE IF ~Available(x.coeffs) THEN from_coeffs("public", GateBatch(x.coeffs, t, << >>))
    ELSE Only({IF inv = None THEN Panic
               ELSE from_coeffs("public",
                    GateBatch(x.coeffs, t, SubSeq(inv[1], 1, IF t < Len(inv[1]) THEN t ELSE Len(inv[1])))) :
                  inv \in {poly_inverse_mod_xt(c, t) : c \in {Trim(Values(x.coeffs))}}})

\* Mutant: the mask is not taken off.
inverse_shared_KeepsMask(x, t, i) ==
    LET opened == {open(masked) : masked \in {poly_mul(random(t, i), x, i + 50)}}
    IN  Only({mod_xn(poly_mul(one("shared"), inv, i), t) :
                 inv \in {inverse_public(o, t) : o \in opened}})

\* Mask the polynomial by a random one, open the product, invert it in the
\* clear and multiply by the mask.
inverse_shared(x, t, i) ==
    LET opened == {open(masked) : masked \in {poly_mul(random(t, i), x, i + 50)}}
    IN  Only({mod_xn(poly_mul(random(t, i), inv, i), t) :
                 inv \in {inverse_public(o, t) : o \in opened}})

mul_inverse_mod_t(x, t, i) ==
    IF x.kind = "shared" THEN inverse_shared(x, t, i) ELSE inverse_public(x, t)

\* Two public polynomials are divided in one gate.
div_public(x, y) ==
    LET quotient(out) == from_coeffs("public",
                             GateBatch(x.coeffs \o y.coeffs, degree(x) - degree(y) + 1, out))
    IN  IF ~Available(x.coeffs \o y.coeffs) THEN quotient(<< >>)
        ELSE Only({CASE f = << >> -> quotient(<< >>)
                     [] f # << >> /\ g = << >> -> Panic
                     [] OTHER -> quotient(divide_with_q_and_r(f, g).q) :
                        f \in {Trim(Values(x.coeffs))}, g \in {Trim(Values(y.coeffs))}})

\* The inverse of rev(y) mod x^t, for each kind of divisor
inverse_of_rev(y, t, i) ==
    IF y.kind = "const"
    THEN Only({IF inv = None THEN Panic ELSE [kind |-> "const", coeffs |-> Wires(inv[1])] :
                  inv \in {poly_inverse_mod_xt(c, t) : c \in {rev_coeffs(Values(y.coeffs))}}})
    ELSE mul_inverse_mod_t(rev(y), t, i)

\* Mutant: the coefficients of the quotient stay reversed.
div_NotReversed(x, y, i) ==
    IF y.kind = "const" /\ y.coeffs = << >> THEN Panic
    ELSE IF degree(x) < degree(y) THEN zero(x.kind)
    ELSE IF x.kind = "public" THEN div_public(x, y)
    ELSE LET t == degree(x) - degree(y) + 1
         IN  Only({mod_xn(poly_mul(rev(x), inv, i + 250), t) : inv \in {inverse_of_rev(y, t, i)}})

\* rev(q) = rev(x) / rev(y) mod x^(n - m + 1), where n and m are the degrees.
div(x, y, i) ==
    LET t == degree(x) - degree(y) + 1
        rev_qs == {mod_xn(poly_mul(rev(x), inv, i + 250), t) : inv \in {inverse_of_rev(y, t, i)}}
    IN  IF y.kind = "const" /\ y.coeffs = << >> THEN Panic
        ELSE IF degree(x) < degree(y) THEN zero(x.kind)
        ELSE IF x.kind = "public" THEN div_public(x, y)
        ELSE Only({IF rev_q = Panic THEN Panic ELSE rev(rev_q) : rev_q \in rev_qs})

---------------------------------------------------------------------------
(* Programs                                                                *)

\* An allocated, shared or arkworks polynomial with the given coefficients
allocate(kind, cs, i) ==
    [kind |-> kind,
     coeffs |-> CASE kind = "const"  -> Wires(Trim(cs))
                  [] kind = "public" -> Wires(cs)
                  [] kind = "shared" -> [k \in DOMAIN cs |-> << Deal(cs[k], draw, i + 2 * k) >>]]

Init ==
    /\ key \in KeyShares
    /\ draw \in Draws
    /\ \E c \in Cases :
          /\ \/ acc = allocate(c.xkind, c.x, 1000)
             \/ c.x = << One >> /\ c.xkind # "const" /\ acc = one(c.xkind)
          /\ arg = allocate(c.ykind, c.y, 1100)
    /\ last = [op |-> "none", x |-> acc, y |-> arg, n |-> 0]
    /\ ops = 0

\* Where the operation takes its randomness from
Base == 400 * ops + 1

Pairs == {<<acc, arg>>, <<arg, acc>>}

Rank == [const |-> 0, public |-> 1, shared |-> 2]

\* The operation is there for this pair, in this order.
Mixed(x, y) == Rank[x.kind] > 0 /\ Rank[x.kind] >= Rank[y.kind]

Done(op, x, y, n, res) ==
    /\ acc' \in {res}
    /\ last' = [op |-> op, x |-> x, y |-> y, n |-> n]
    /\ ops' = ops + 1
    /\ UNCHANGED <<key, draw, arg>>

Running == ops < MaxOps /\ acc # Panic

AddPolys ==
    /\ Running
    /\ \E z \in Pairs : Mixed(z[1], z[2]) /\ Done("add", z[1], z[2], 0, poly_add(z[1], z[2]))

\* There is no shared polynomial minus a public one.
SubPolys ==
    /\ Running
    /\ \E z \in Pairs : /\ Mixed(z[1], z[2]) /\ <<z[1].kind, z[2].kind>> # <<"shared", "public">>
                        /\ Done("sub", z[1], z[2], 0, poly_sub(z[1], z[2]))

MulPolys ==
    /\ Running
    /\ \E z \in Pairs : Mixed(z[1], z[2]) /\ Done("mul", z[1], z[2], 0, poly_mul(z[1], z[2], Base))

\* A public polynomial is divided by a public one only.
DivPolys ==
    /\ Running
    /\ \E z \in Pairs : /\ Mixed(z[1], z[2]) /\ <<z[1].kind, z[2].kind>> # <<"public", "const">>
                        /\ Done("div", z[1], z[2], 0, div(z[1], z[2], Base))

\* Operations on the accumulator alone
NegPoly ==
    Running /\ acc.kind # "const" /\ Done("neg", acc, acc, 0, poly_neg(acc))

ScalePoly ==
    /\ Running /\ acc.kind # "const"
    /\ \E v \in Scalars, k \in {"public", "shared"} :
          LET w == << IF k = "shared" THEN Deal(v, draw, Base + 200) ELSE v >>
          IN  Done("scale", acc, acc, v, scalar_mul(acc, w, k, Base))

EvalPoly ==
    /\ Running /\ acc.kind # "const"
    /\ \E v \in Scalars : Done("eval", acc, acc, v, from_coeffs(acc.kind, eval(acc, v)))

ExtendPoly ==
    /\ Running /\ acc.kind # "const"
    /\ \E n \in Sizes : Done("extend", acc, acc, n, extend_to_degree(acc, n))

RevPoly ==
    Running /\ acc.kind # "const" /\ Done("rev", acc, acc, 0, rev(acc))

ModPoly ==
    /\ Running /\ acc.kind = "shared"
    /\ \E n \in Sizes : Done("mod", acc, acc, n, mod_xn(acc, n))

OpenPoly ==
    Running /\ acc.kind = "shared" /\ Done("open", acc, acc, 0, open(acc))

InvertPoly ==
    /\ Running /\ acc.kind # "const"
    /\ \E t \in Sizes : Done("invert", acc, acc, t, mul_inverse_mod_t(acc, t, Base))

Next ==
    \/ AddPolys \/ SubPolys \/ MulPolys \/ DivPolys
    \/ NegPoly \/ ScalePoly \/ EvalPoly \/ ExtendPoly
    \/ RevPoly \/ ModPoly \/ OpenPoly \/ InvertPoly

Spec == Init /\ [][Next]_vars

---------------------------------------------------------------------------
(* Properties.  They read polynomials in the clear and compare them with   *)
(* textbook definitions: a coefficient that was never written counts as    *)
(* zero.                                                                   *)

Complete(x) == Available(x.coeffs)

\* The coefficient of X^j in the clear
At(x, j) ==
    IF j + 1 \in DOMAIN x.coeffs /\ x.coeffs[j + 1] # None
    THEN LET v == x.coeffs[j + 1][1] IN IF x.kind = "shared" THEN Open(v) ELSE v
    ELSE Zero

\* The degrees of the longest product of two polynomials
Exponents(x, y) == 0..Len(x.coeffs) + Len(y.coeffs)

\* The degree in the clear, -1 for the zero polynomial
Degree(x) ==
    LET nonzero == {j \in 0..Len(x.coeffs) : At(x, j) # Zero}
    IN  IF nonzero = {} THEN -1 ELSE CHOOSE j \in nonzero : \A k \in nonzero : k <= j

\* The coefficient of X^j in x * y
Convolution(x, y, j) == SumSeq([i \in 1..j + 1 |-> Times(At(x, i - 1), At(y, j + 1 - i))])

\* The MACs of a shared polynomial are shares of the key times its values.
Authentic(x) ==
    x.kind = "shared" =>
        \A k \in DOMAIN x.coeffs : x.coeffs[k] # None =>
            LET v == x.coeffs[k][1]
            IN  Plus(v[0].mac, v[1].mac) = Times(MacKey, Open(v))

\* The coefficient of X^j that the last operation should have produced
Expected(j) ==
    LET x == last.x
        y == last.y
    IN  CASE last.op = "add" -> Plus(At(x, j), At(y, j))
          [] last.op = "sub" -> Minus(At(x, j), At(y, j))
          [] last.op = "mul" -> Convolution(x, y, j)
          [] last.op = "neg" -> Neg(At(x, j))
          [] last.op = "scale" -> Times(last.n, At(x, j))
          [] last.op = "eval" ->
                IF j > 0 THEN Zero
                ELSE SumSeq([k \in 1..Len(x.coeffs) |-> Times(Power(last.n, k - 1), At(x, k - 1))])
          [] last.op = "extend" -> IF j <= last.n THEN At(x, j) ELSE Zero
          [] last.op = "mod" -> IF j < last.n THEN At(x, j) ELSE Zero
          [] last.op = "rev" -> IF j < Len(x.coeffs) THEN At(x, degree(x) - j) ELSE Zero
          [] last.op = "open" -> At(x, j)

\* Sums, differences, products (through the Fourier transform), scalings,
\* evaluations, truncations and openings of public and shared polynomials, in
\* any order and of any mix of kinds, are those of the polynomials in the
\* clear; every coefficient gets written and the MACs of shared ones follow.
RingOperations ==
    last.op \notin {"none", "div", "invert"} /\ Complete(last.x) /\ Complete(last.y)
    => IF acc = Panic THEN last.op = "mod" /\ last.n = 0
       ELSE /\ Complete(acc) /\ Authentic(acc)
            /\ \A j \in Exponents(acc, last.x) : At(acc, j) = Expected(j)

\* q is the quotient of a floor division: the remainder x - q * y has a smaller
\* degree than y.
IsFloor(q, x, y) ==
    \A j \in Exponents(q, y) \cup 0..Len(x.coeffs) :
        Minus(At(x, j), Convolution(q, y, j)) # Zero => j < Degree(y)

\* The leading allocated coefficient is not zero, so degree() is the degree.
Tight(x) == At(x, degree(x)) # Zero

\* Divisions with a divisor whose leading allocated coefficient is not zero.  A
\* quotient all of whose coefficients get written is that of a floor division, with
\* MACs that fit.  Two kinds of division never panic and always write the whole
\* quotient: a shared polynomial by an arkworks one, and a public one whose own
\* leading coefficient is not zero by a public one.  A shared polynomial divided by
\* a public or a shared one may panic or stay unwritten: see FloorDivision.
QuotientExact ==
    last.op = "div" /\ Complete(last.x) /\ Complete(last.y) /\ Tight(last.y)
    => /\ last.y.kind = "const" \/ (last.x.kind = "public" /\ Tight(last.x))
             => acc # Panic /\ Complete(acc)
       /\ acc # Panic /\ Complete(acc) => Authentic(acc) /\ IsFloor(acc, last.x, last.y)

\* An inversion mod x^t that does not panic allocates t coefficients.  Those of a
\* public inverse, where one that never gets written counts as zero, and those of a
\* shared inverse that is written as a whole make x * inverse = 1 mod x^t, for the
\* extended Euclidean algorithm and for the masked opening, and the MACs fit.
\* Whether all of them get written is not said here: where the leading coefficients
\* of a public inverse are zero they do not, which FloorDivision runs into.
InverseModXt ==
    last.op = "invert" /\ acc # Panic /\ Complete(last.x)
    => /\ Len(acc.coeffs) = last.n
       /\ Authentic(acc)
       /\ acc.kind = "public" \/ Complete(acc) =>
             \A j \in 0..last.n - 1 : Convolution(acc, last.x, j) = IF j = 0 THEN One ELSE Zero

\* What the source documents of its divisions: for every divisor but zero the
\* quotient is that of a floor division, and a task that awaits it gets it.
\* Refuted for shared polynomials, whose quotient by x is never written since the
\* inverse it takes is not, and for public ones, whose products are padded with
\* leading zeros.
FloorDivision ==
    last.op = "div" /\ Complete(last.x) /\ Complete(last.y) /\ Degree(last.y) # -1
    => acc # Panic /\ Complete(acc) /\ IsFloor(acc, last.x, last.y)
=============================================================================
