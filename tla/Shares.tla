------------------------------- MODULE Shares -------------------------------
(***************************************************************************)
(* Additive secret shares with MACs (ScalarShare and PointShare) and the   *)
(* protocols that compute on them.  The source writes every operation once *)
(* for scalars (algebra/scalar/share.rs) and once for points               *)
(* (algebra/curve/share.rs) with the same text; Plus and Times being       *)
(* overloaded, one definition serves both.                                 *)
(*                                                                         *)
(* A sharing is a function from the parties to their local shares.  The    *)
(* shares of a value sum to it, and the MACs sum to the MAC key times it.  *)
(* A network round is evaluated in place: each party sends its share and   *)
(* both hold the sum.  That this is what the fabric delivers is the subject*)
(* of Dataflow and SerialExecutor.                                         *)
(***************************************************************************)
EXTENDS Field

CONSTANTS
    Rand(_, _)     \* Rand(s, i): the i-th random scalar of the draw s

VARIABLES
    key            \* each party's share of the MAC key

Party == 0..1

ShareOf(M) == [share : M, mac : M]

\* The MAC key, which no party ever holds.
MacKey == Plus(key[0], key[1])

---------------------------------------------------------------------------
(* ScalarShare and PointShare                                              *)

\* Mutant: both parties add the public value to their shares.
add_public_AllParties(x, rhs, p) ==
    [share |-> Plus(x.share, rhs),
     mac   |-> Plus(x.mac, Times(key[p], rhs))]

\* Mutant: the MACs do not follow the public value.
add_public_KeepMac(x, rhs, p) ==
    [share |-> IF p = 0 THEN Plus(x.share, rhs) ELSE x.share, mac |-> x.mac]

\* Only party 0 adds the public value to its share; both add to the MAC.
add_public(x, rhs, p) ==
    [share |-> IF p = 0 THEN Plus(x.share, rhs) ELSE x.share,
     mac   |-> Plus(x.mac, Times(key[p], rhs))]

sub_public(x, rhs, p) == add_public(x, Neg(rhs), p)

add(x, y) == [share |-> Plus(x.share, y.share), mac |-> Plus(x.mac, y.mac)]

neg(x) == [share |-> Neg(x.share), mac |-> Neg(x.mac)]

sub(x, y) == add(x, neg(y))

\* share * scalar, of a scalar share or of a point share
mul(x, rhs) == [share |-> Times(rhs, x.share), mac |-> Times(rhs, x.mac)]

\* ScalarShare * CurvePoint, which gives a PointShare
mul_point(x, rhs) == [share |-> Times(x.share, rhs), mac |-> Times(x.mac, rhs)]

sum(xs) == [share |-> SumSeq([k \in DOMAIN xs |-> xs[k].share]),
            mac   |-> SumSeq([k \in DOMAIN xs |-> xs[k].mac])]

---------------------------------------------------------------------------
(* The same operations on a sharing, party by party.  A public argument is *)
(* a function from the parties to their copies of it.                      *)

Public(v) == [p \in Party |-> v]

AddPublic(x, v) == [p \in Party |-> add_public(x[p], v[p], p)]
SubPublic(x, v) == [p \in Party |-> sub_public(x[p], v[p], p)]
PublicSub(v, x) == [p \in Party |-> add_public(neg(x[p]), v[p], p)]
Add(x, y)       == [p \in Party |-> add(x[p], y[p])]
Sub(x, y)       == [p \in Party |-> sub(x[p], y[p])]
Negate(x)       == [p \in Party |-> neg(x[p])]
MulPublic(v, x) == [p \in Party |-> mul(x[p], v[p])]
MulPoint(x, v)  == [p \in Party |-> mul_point(x[p], v[p])]
Sum(xs)         == [p \in Party |-> sum([k \in DOMAIN xs |-> xs[k][p]])]

\* open: both parties send their shares and hold the sum.
Open(x) == Plus(x[0].share, x[1].share)

---------------------------------------------------------------------------
(* The preprocessing phase, by the contract its trait states: shares of    *)
(* the value, with MACs under the key, uniformly split.  Each sharing uses *)
(* two random scalars of the draw, starting at the i-th.                   *)

Deal(v, s, i) ==
    [p \in Party |->
        IF p = 0 THEN [share |-> Rand(s, i), mac |-> Rand(s, i + 1)]
        ELSE [share |-> Minus(v, Rand(s, i)),
              mac   |-> Minus(Times(MacKey, v), Rand(s, i + 1))]]

\* A Beaver triple uses eight random scalars: a, b and three sharings.
next_triple(s, i) ==
    LET a == Rand(s, i)
        b == Rand(s, i + 1)
    IN  [a |-> Deal(a, s, i + 2), b |-> Deal(b, s, i + 4),
         c |-> Deal(Times(a, b), s, i + 6)]

---------------------------------------------------------------------------
(* Multiplication and what is built from it                                *)

\* The Beaver trick: [x * y] = de + d[b] + e[a] + [c].
Mul(x, y, s, i) ==
    LET t == next_triple(s, i)
        d == Open(Sub(x, t.a))
        e == Open(Sub(y, t.b))
        res(p) == add(add(mul(t.b[p], d), mul(t.a[p], e)), t.c[p])
    IN  [p \in Party |-> add_public(res(p), Times(d, e), p)]

\* The batch takes n triples, opens all 2n masked values in one message and
\* splits it; it adds the terms of the identity in another order.
BatchMul(xs, ys, s, i) ==
    LET n == Len(xs)
        t(k) == next_triple(s, i + 8 * (k - 1))
        masked(k) == IF k <= n THEN Sub(xs[k], t(k).a)
                     ELSE Sub(ys[k - n], t(k - n).b)
        opened == [k \in 1..2 * n |-> Open(masked(k))]
        d(k) == opened[k]
        e(k) == opened[k + n]
    IN  [k \in 1..n |-> Add(AddPublic(MulPublic(Public(d(k)), t(k).b),
                                      Public(Times(d(k), e(k)))),
                            Add(MulPublic(Public(e(k)), t(k).a), t(k).c))]

\* A shared scalar times a shared point: [x * yG] = deG + d[bG] + [a]eG + [c]G.
MulPointShares(x, y, s, i) ==
    LET t == next_triple(s, i)
        g == Public(Generator)
        bG == MulPoint(t.b, g)
        eG == Open(Sub(y, bG))
        d == Open(Sub(x, t.a))
    IN  Add(Add(AddPublic(MulPublic(Public(d), bG), Public(Times(d, eG))),
                MulPoint(t.a, Public(eG))), MulPoint(t.c, g))

BatchMulPointShares(xs, ys, s, i) ==
    LET n == Len(xs)
        g == Public(Generator)
        t == [k \in 1..n |-> next_triple(s, i + 8 * (k - 1))]
        bG == [k \in 1..n |-> MulPoint(t[k].b, g)]
        eG == [k \in 1..n |-> Open(Sub(ys[k], bG[k]))]
        d == [k \in 1..n |-> Open(Sub(xs[k], t[k].a))]
    IN  [k \in 1..n |-> Add(AddPublic(MulPublic(Public(d[k]), bG[k]),
                                      Public(Times(d[k], eG[k]))),
                            Add(MulPoint(t[k].a, Public(eG[k])),
                                MulPoint(t[k].c, g)))]

\* Mask each value by a random r, open r * x, and unmask its inverse by r.
BatchInverse(xs, s, i) ==
    LET n == Len(xs)
        r == [k \in 1..n |-> Deal(Rand(s, i + 3 * k), s, i + 3 * k + 1)]
        m == BatchMul(xs, r, s, i + 3 * n + 3)
    IN  [k \in 1..n |-> MulPublic(Public(Inv(Open(m[k]))), r[k])]

\* The masks of BatchInverse.  A zero mask has probability 1/|F|; the
\* protocol then returns a sharing of zero.
InverseMasks(n, s, i) == {Rand(s, i + 3 * k) : k \in 1..n}

\* Repeated squaring; the exponent 0 gives the shared zero wire.
Pow(x, exp, s) ==
    LET pow[e \in 0..exp] ==
            IF e = 0 THEN [p \in Party |-> [share |-> Zero, mac |-> Zero]]
            ELSE IF e = 1 THEN x
            ELSE LET half == pow[e \div 2]
                     res == Mul(half, half, s, 16 * e)
                 IN  IF e % 2 = 1 THEN Mul(res, x, s, 16 * e + 8) ELSE res
    IN  pow[exp]

---------------------------------------------------------------------------
(* Gadgets                                                                 *)

Two == Plus(One, One)

BitXor(x, y, s) ==
    Sub(Add(x, y), MulPublic(Public(Two), Mul(x, y, s, 0)))

BitXorPublic(v, y) ==
    LET twice == [p \in Party |-> Times(Two, v[p])]
    IN  AddPublic(Sub(y, MulPublic(twice, y)), v)

\* An element of bit_xor_public_batch, which multiplies first and doubles then.
BitXorPublicBatch(v, y) ==
    Sub(AddPublic(y, v), MulPublic(Public(Two), MulPublic(v, y)))

\* The masks of prefix_product: n + 1 scalars, of which no inverse pair of
\* the preprocessing phase holds a zero.
PrefixMasks(n, s) == [k \in 1..n + 1 |-> Rand(s, 5 * k)]

\* Blind value k between the inverse of mask k and mask k + 1, open, multiply
\* up the prefixes, and strip the first mask and the last one's inverse.
PrefixProduct(xs, s) ==
    LET n == Len(xs)
        b == [k \in 1..n + 1 |-> Deal(PrefixMasks(n, s)[k], s, 5 * k + 1)]
        inv == [k \in 1..n + 1 |-> Deal(Inv(PrefixMasks(n, s)[k]), s, 5 * k + 3)]
        partial == BatchMul([k \in 1..n |-> inv[k]], xs, s, 40)
        blinded == BatchMul(partial, [k \in 1..n |-> b[k + 1]], s, 60)
        opened == [k \in 1..n |-> Open(blinded[k])]
        prefix == [k \in 1..n |-> ProdSeq(SubSeq(opened, 1, k))]
        unblind == [k \in 1..n |-> MulPublic(Public(prefix[k]), b[1])]
    IN  BatchMul(unblind, [k \in 1..n |-> inv[k + 1]], s, 80)

---------------------------------------------------------------------------
(* The MAC check of an authenticated opening.  A hash commitment is bound  *)
(* to the committed values and the blinder.                                *)

commit(values, blinder) == [values |-> values, blinder |-> blinder]

verify(values, blinder, commitment) == commitment = commit(values, blinder)

\* Mutant: the sign of the MAC share is wrong.
MacCheck_AddsMac(x, value, p) == Plus(Times(key[p], value), x[p].mac)

\* A party's share of the check: key_share * opened_value - mac_share.
MacCheck(x, value, p) == Minus(Times(key[p], value), x[p].mac)

\* Mutant: the checks are not added up.
batch_verify_CommitmentOnly(mine, peer, blinder, commitment, zero) ==
    verify(peer, blinder, commitment)

\* Accept when the peer's commitment opens to what it sent and the two
\* shares of each check cancel.
batch_verify_mac_check(mine, peer, blinder, commitment, zero) ==
    /\ verify(peer, blinder, commitment)
    /\ \A k \in DOMAIN mine : Plus(mine[k], peer[k]) = zero
=============================================================================
