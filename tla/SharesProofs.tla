---------------------------- MODULE SharesProofs ----------------------------
(***************************************************************************)
(* What the operations of Shares do, for every field, every group that is  *)
(* a module over it, every MAC key and every draw: each of them takes      *)
(* authenticated sharings to an authenticated sharing of the plain result. *)
(***************************************************************************)
EXTENDS Shares, TLAPS, FiniteSetTheorems

\* x is a sharing of v over the carrier M whose MACs add up to the MAC key
\* times v.
Authentic(x, v, M) ==
    /\ x \in [Party -> ShareOf(M)]
    /\ Open(x) = v
    /\ Plus(x[0].mac, x[1].mac) = Times(MacKey, v)

---------------------------------------------------------------------------
(* Carriers                                                                *)

\* Carriers are closed under the operations.
LEMMA Closed ==
    ASSUME NEW M \in Carriers
    PROVE  /\ Neutral(M) \in M
           /\ \A x \in M : Neg(x) \in M
           /\ \A x, y \in M : Plus(x, y) \in M /\ Minus(x, y) \in M
           /\ \A a \in F, x \in M : Times(a, x) \in M
  BY GroupAssumption, ModuleAssumption DEF Minus

\* The scalars are a carrier, and so are the points.
LEMMA CarrierFacts == F \in Carriers /\ Points \in Carriers /\ Neutral(F) = Zero
  BY DEF Carriers, Neutral

\* Four summands may be regrouped: shares of a sum are sums of shares.
LEMMA Regroup ==
    ASSUME NEW M \in Carriers, NEW w \in M, NEW x \in M, NEW y \in M, NEW z \in M
    PROVE  Plus(Plus(w, x), Plus(y, z)) = Plus(Plus(w, y), Plus(x, z))
  <1> DEFINE yz == Plus(y, z)
             xz == Plus(x, z)
  <1>1. yz \in M /\ xz \in M
    BY Closed
  <1>2. Plus(Plus(w, x), yz) = Plus(w, Plus(x, yz))
    BY <1>1, GroupAssumption
  <1>3. Plus(x, yz) = Plus(Plus(x, y), z)
    BY GroupAssumption
  <1>4. Plus(Plus(x, y), z) = Plus(Plus(y, x), z)
    BY GroupAssumption
  <1>5. Plus(Plus(y, x), z) = Plus(y, xz)
    BY GroupAssumption
  <1>6. Plus(w, Plus(y, xz)) = Plus(Plus(w, y), xz)
    BY <1>1, GroupAssumption
  <1> QED BY <1>2, <1>3, <1>4, <1>5, <1>6

\* An equal summand cancels.
LEMMA Cancel ==
    ASSUME NEW M \in Carriers, NEW x \in M, NEW y \in M, NEW z \in M,
           Plus(x, y) = Plus(x, z)
    PROVE  y = z
  <1>1. ASSUME NEW u \in M PROVE Plus(Neg(x), Plus(x, u)) = u
    <2>1. Neg(x) \in M /\ Neutral(M) \in M
      BY Closed
    <2>2. Plus(Neg(x), Plus(x, u)) = Plus(Plus(Neg(x), x), u)
      BY <2>1, GroupAssumption
    <2>3. Plus(Neg(x), x) = Neutral(M)
      BY <2>1, GroupAssumption
    <2>4. Plus(Neutral(M), u) = u
      BY <2>1, GroupAssumption
    <2> QED BY <2>2, <2>3, <2>4
  <1> QED BY <1>1

\* What adds up to the neutral element with x is its negation.
LEMMA NegUnique ==
    ASSUME NEW M \in Carriers, NEW x \in M, NEW y \in M,
           Plus(x, y) = Neutral(M)
    PROVE  y = Neg(x)
  <1>1. Neg(x) \in M /\ Plus(x, Neg(x)) = Neutral(M)
    BY GroupAssumption
  <1> QED BY <1>1, Cancel

\* Negation distributes over a sum.
LEMMA NegPlus ==
    ASSUME NEW M \in Carriers, NEW x \in M, NEW y \in M
    PROVE  Neg(Plus(x, y)) = Plus(Neg(x), Neg(y))
  <1>1. Neg(x) \in M /\ Neg(y) \in M /\ Plus(x, y) \in M
        /\ Plus(Neg(x), Neg(y)) \in M /\ Neutral(M) \in M
    BY Closed
  <1>2. Plus(Plus(x, y), Plus(Neg(x), Neg(y)))
        = Plus(Plus(x, Neg(x)), Plus(y, Neg(y)))
    BY <1>1, Regroup
  <1>3. Plus(Plus(x, Neg(x)), Plus(y, Neg(y))) = Neutral(M)
    BY <1>1, GroupAssumption
  <1> QED BY <1>1, <1>2, <1>3, NegUnique

\* A multiple of the neutral element is neutral.
LEMMA TimesNeutral ==
    ASSUME NEW M \in Carriers, NEW a \in F
    PROVE  Times(a, Neutral(M)) = Neutral(M)
  <1> DEFINE n == Neutral(M)
             t == Times(a, n)
  <1>1. n \in M /\ t \in M
    BY Closed
  <1>2. Plus(n, n) = n /\ Plus(t, n) = t
    BY <1>1, GroupAssumption
  <1>3. Plus(t, t) = Times(a, Plus(n, n))
    BY <1>1, ModuleAssumption
  <1>4. Plus(t, t) = Plus(t, n)
    BY <1>2, <1>3
  <1> HIDE DEF n, t
  <1>5. t = n
    BY <1>1, <1>4, Cancel
  <1> QED BY <1>5 DEF t, n

\* The multiple of a negation is the negation of the multiple.
LEMMA TimesNeg ==
    ASSUME NEW M \in Carriers, NEW a \in F, NEW x \in M
    PROVE  Times(a, Neg(x)) = Neg(Times(a, x))
  <1>1. Neg(x) \in M /\ Times(a, x) \in M /\ Times(a, Neg(x)) \in M
    BY Closed
  <1>2. Plus(Times(a, x), Times(a, Neg(x))) = Times(a, Plus(x, Neg(x)))
    BY <1>1, ModuleAssumption
  <1>3. Times(a, Plus(x, Neg(x))) = Neutral(M)
    BY GroupAssumption, TimesNeutral
  <1> QED BY <1>1, <1>2, <1>3, NegUnique

\* A difference and what was subtracted add up to the minuend.
LEMMA MinusPlus ==
    ASSUME NEW M \in Carriers, NEW x \in M, NEW y \in M
    PROVE  Plus(Minus(x, y), y) = x /\ Plus(y, Minus(x, y)) = x
  <1>1. Neg(y) \in M /\ Minus(x, y) \in M
    BY Closed
  <1>2. Plus(Plus(x, Neg(y)), y) = Plus(x, Plus(Neg(y), y))
    BY <1>1, GroupAssumption
  <1>3. Plus(Neg(y), y) = Neutral(M) /\ Plus(x, Neutral(M)) = x
    BY <1>1, GroupAssumption
  <1>4. Plus(Minus(x, y), y) = x
    BY <1>2, <1>3 DEF Minus
  <1> QED BY <1>1, <1>4, GroupAssumption

\* Neither carrier has zero divisors: only a neutral element has a neutral
\* multiple by a non-zero scalar.
LEMMA NoTorsion ==
    ASSUME NEW M \in Carriers, NEW a \in F, a # Zero, NEW x \in M,
           Times(a, x) = Neutral(M)
    PROVE  x = Neutral(M)
  <1>1. Inv(a) \in F /\ Times(a, Inv(a)) = One
    BY FieldAssumption
  <1>2. Times(Inv(a), a) = One
    BY <1>1, FieldAssumption
  <1>3. Times(Times(Inv(a), a), x) = Times(Inv(a), Times(a, x))
    BY <1>1, ModuleAssumption
  <1>4. Times(One, x) = x
    BY ModuleAssumption
  <1> QED BY <1>1, <1>2, <1>3, <1>4, TimesNeutral

---------------------------------------------------------------------------
(* Linear operations                                                       *)

\* The parts of an authenticated sharing, by name.
LEMMA Parts ==
    ASSUME NEW M \in Carriers, NEW x, NEW v, Authentic(x, v, M)
    PROVE  /\ v \in M
           /\ \E s0, s1, m0, m1 \in M :
                 /\ x[0].share = s0 /\ x[1].share = s1
                 /\ x[0].mac = m0 /\ x[1].mac = m1
                 /\ Plus(s0, s1) = v
                 /\ Plus(m0, m1) = Times(MacKey, v)
  <1>1. x[0] \in ShareOf(M) /\ x[1] \in ShareOf(M)
    BY DEF Authentic, Party
  <1>2. x[0].share \in M /\ x[1].share \in M /\ x[0].mac \in M /\ x[1].mac \in M
    BY <1>1 DEF ShareOf
  <1>3. v \in M
    BY <1>2, Closed DEF Authentic, Open
  <1> QED BY <1>2, <1>3 DEF Authentic, Open

\* A function on the parties is known by its two values.
LEMMA BothParties ==
    ASSUME NEW M, NEW s0 \in M, NEW m0 \in M, NEW s1 \in M, NEW m1 \in M, NEW x,
           x = [p \in Party |-> x[p]],
           x[0] = [share |-> s0, mac |-> m0], x[1] = [share |-> s1, mac |-> m1]
    PROVE  /\ x \in [Party -> ShareOf(M)]
           /\ x[0].share = s0 /\ x[1].share = s1
           /\ x[0].mac = m0 /\ x[1].mac = m1
  <1>1. \A p \in Party : p = 0 \/ p = 1
    BY DEF Party
  <1>2. x[0] \in ShareOf(M) /\ x[1] \in ShareOf(M)
    BY DEF ShareOf
  <1> QED BY <1>1, <1>2

\* Adding shares and MACs shares the sum (impl Add for ScalarShare and
\* PointShare).
THEOREM AddAuthentic ==
    ASSUME NEW M \in Carriers, MacKey \in F, NEW x, NEW y, NEW v, NEW w,
           Authentic(x, v, M), Authentic(y, w, M)
    PROVE  Authentic(Add(x, y), Plus(v, w), M)
  <1> DEFINE z == Add(x, y)
  <1>x. PICK s0, s1, m0, m1 \in M :
            /\ x[0].share = s0 /\ x[1].share = s1
            /\ x[0].mac = m0 /\ x[1].mac = m1
            /\ Plus(s0, s1) = v
            /\ Plus(m0, m1) = Times(MacKey, v)
    BY Parts
  <1>y. PICK t0, t1, n0, n1 \in M :
            /\ y[0].share = t0 /\ y[1].share = t1
            /\ y[0].mac = n0 /\ y[1].mac = n1
            /\ Plus(t0, t1) = w
            /\ Plus(n0, n1) = Times(MacKey, w)
    BY Parts
  <1>1. v \in M /\ w \in M
    BY Parts
  <1>2. /\ z[0] = [share |-> Plus(s0, t0),
                   mac |-> Plus(m0, n0)]
        /\ z[1] = [share |-> Plus(s1, t1),
                   mac |-> Plus(m1, n1)]
        /\ z = [p \in Party |-> z[p]]
    BY <1>x, <1>y DEF Add, add, Party
  <1>3. /\ Plus(s0, t0) \in M /\ Plus(m0, n0) \in M
        /\ Plus(s1, t1) \in M /\ Plus(m1, n1) \in M
    BY <1>1, Closed
  <1> HIDE DEF z
  <1>4. /\ z \in [Party -> ShareOf(M)]
        /\ z[0].share = Plus(s0, t0)
        /\ z[1].share = Plus(s1, t1)
        /\ z[0].mac = Plus(m0, n0)
        /\ z[1].mac = Plus(m1, n1)
    BY <1>2, <1>3, BothParties
  <1>r. /\ Plus(Plus(s0, t0), Plus(s1, t1))
           = Plus(Plus(s0, s1), Plus(t0, t1))
        /\ Plus(Plus(m0, n0), Plus(m1, n1))
           = Plus(Plus(m0, m1), Plus(n0, n1))
    BY <1>1, Regroup
  <1>5. Open(z) = Plus(v, w)
    BY <1>4, <1>r, <1>x, <1>y DEF Open
  <1>6. Plus(z[0].mac, z[1].mac) = Plus(Times(MacKey, v), Times(MacKey, w))
    BY <1>4, <1>r, <1>x, <1>y DEF Open
  <1>7. Plus(z[0].mac, z[1].mac) = Times(MacKey, Plus(v, w))
    BY <1>1, <1>6, ModuleAssumption
  <1>8. Authentic(z, Plus(v, w), M)
    BY <1>4, <1>5, <1>7 DEF Authentic
  <1> QED BY <1>8 DEF z

\* Negating shares and MACs shares the negation.
THEOREM NegateAuthentic ==
    ASSUME NEW M \in Carriers, MacKey \in F, NEW x, NEW v, Authentic(x, v, M)
    PROVE  Authentic(Negate(x), Neg(v), M)
  <1> DEFINE z == Negate(x)
  <1>x. PICK s0, s1, m0, m1 \in M :
            /\ x[0].share = s0 /\ x[1].share = s1
            /\ x[0].mac = m0 /\ x[1].mac = m1
            /\ Plus(s0, s1) = v
            /\ Plus(m0, m1) = Times(MacKey, v)
    BY Parts
  <1>1. v \in M
    BY Parts
  <1>2. /\ z[0] = [share |-> Neg(s0), mac |-> Neg(m0)]
        /\ z[1] = [share |-> Neg(s1), mac |-> Neg(m1)]
        /\ z = [p \in Party |-> z[p]]
    BY <1>x DEF Negate, neg, Party
  <1>3. /\ Neg(s0) \in M /\ Neg(m0) \in M
        /\ Neg(s1) \in M /\ Neg(m1) \in M
    BY <1>1, Closed
  <1> HIDE DEF z
  <1>4. /\ z \in [Party -> ShareOf(M)]
        /\ z[0].share = Neg(s0) /\ z[1].share = Neg(s1)
        /\ z[0].mac = Neg(m0) /\ z[1].mac = Neg(m1)
    BY <1>2, <1>3, BothParties
  <1>5. Open(z) = Neg(v)
    BY <1>1, <1>4, <1>x, NegPlus DEF Open
  <1>6. Plus(z[0].mac, z[1].mac) = Neg(Times(MacKey, v))
    BY <1>1, <1>4, <1>x, NegPlus
  <1>7. Plus(z[0].mac, z[1].mac) = Times(MacKey, Neg(v))
    BY <1>1, <1>6, TimesNeg
  <1>8. Authentic(z, Neg(v), M)
    BY <1>4, <1>5, <1>7 DEF Authentic
  <1> QED BY <1>8 DEF z

\* Subtraction adds the negation, in shares as in the clear.
THEOREM SubAuthentic ==
    ASSUME NEW M \in Carriers, MacKey \in F, NEW x, NEW y, NEW v, NEW w,
           Authentic(x, v, M), Authentic(y, w, M)
    PROVE  Authentic(Sub(x, y), Minus(v, w), M)
  <1>1. Sub(x, y) = Add(x, Negate(y))
    BY DEF Sub, sub, Add, Negate
  <1>2. Authentic(Negate(y), Neg(w), M)
    BY NegateAuthentic
  <1>3. Authentic(Add(x, Negate(y)), Plus(v, Neg(w)), M)
    BY <1>2, AddAuthentic
  <1> QED BY <1>1, <1>3 DEF Minus


\* A public value is added by one party, and to the MACs of both (add_public):
\* the result shares the sum.
THEOREM AddPublicAuthentic ==
    ASSUME NEW M \in Carriers, key[0] \in F, key[1] \in F,
           NEW x, NEW v, Authentic(x, v, M), NEW c \in M
    PROVE  Authentic(AddPublic(x, Public(c)), Plus(v, c), M)
  <1>k. PICK a0, a1 \in F : key[0] = a0 /\ key[1] = a1
    OBVIOUS
  <1> DEFINE z == AddPublic(x, Public(c))
             k0 == Times(a0, c)
             k1 == Times(a1, c)
  <1>x. PICK s0, s1, m0, m1 \in M :
            /\ x[0].share = s0 /\ x[1].share = s1
            /\ x[0].mac = m0 /\ x[1].mac = m1
            /\ Plus(s0, s1) = v
            /\ Plus(m0, m1) = Times(MacKey, v)
    BY Parts
  <1>1. v \in M
    BY Parts
  <1>2. k0 \in M /\ k1 \in M /\ MacKey \in F
    BY <1>k, Closed, CarrierFacts DEF MacKey
  <1>3. /\ z[0] = [share |-> Plus(s0, c), mac |-> Plus(m0, k0)]
        /\ z[1] = [share |-> s1, mac |-> Plus(m1, k1)]
        /\ z = [p \in Party |-> z[p]]
    BY <1>k, <1>x DEF AddPublic, add_public, Public, Party
  <1> HIDE DEF z
  <1>4. /\ Plus(s0, c) \in M /\ Plus(m0, k0) \in M
        /\ Plus(m1, k1) \in M
    BY <1>1, <1>2, Closed
  <1>5. /\ z \in [Party -> ShareOf(M)]
        /\ z[0].share = Plus(s0, c) /\ z[1].share = s1
        /\ z[0].mac = Plus(m0, k0) /\ z[1].mac = Plus(m1, k1)
    BY <1>1, <1>3, <1>4, BothParties
  <1>6. Plus(k0, k1) = Times(MacKey, c)
    <2>1. MacKey = Plus(a0, a1)
      BY <1>k DEF MacKey
    <2>2. Times(Plus(a0, a1), c) = Plus(k0, k1)
      BY ModuleAssumption
    <2> QED BY <2>1, <2>2
  <1>7. Open(z) = Plus(v, c)
    <2>1. Plus(Plus(s0, c), s1)
          = Plus(s0, Plus(c, s1))
      BY <1>1, GroupAssumption
    <2>2. Plus(c, s1) = Plus(s1, c)
      BY <1>1, GroupAssumption
    <2>3. Plus(s0, Plus(s1, c))
          = Plus(Plus(s0, s1), c)
      BY <1>1, GroupAssumption
    <2> QED BY <1>5, <2>1, <2>2, <2>3, <1>x DEF Open
  <1>8. Plus(z[0].mac, z[1].mac) = Plus(Times(MacKey, v), Times(MacKey, c))
    <2>1. Plus(Plus(m0, k0), Plus(m1, k1))
          = Plus(Plus(m0, m1), Plus(k0, k1))
      BY <1>1, <1>2, Regroup
    <2> QED BY <1>5, <1>6, <1>x, <2>1
  <1>9. Plus(z[0].mac, z[1].mac) = Times(MacKey, Plus(v, c))
    BY <1>1, <1>2, <1>8, ModuleAssumption
  <1>10. Authentic(z, Plus(v, c), M)
    BY <1>5, <1>7, <1>9 DEF Authentic
  <1> QED BY <1>10 DEF z

\* A product with a scalar, on the left or on the right of the multiples of
\* the MAC key, is the same multiple.
LEMMA TimesCommutes ==
    ASSUME NEW M \in Carriers, NEW a \in F, NEW b \in F, NEW x \in M
    PROVE  Times(a, Times(b, x)) = Times(b, Times(a, x))
  <1>1. Times(a, b) = Times(b, a)
    BY FieldAssumption
  <1>2. Times(Times(a, b), x) = Times(a, Times(b, x))
    BY ModuleAssumption
  <1>3. Times(Times(b, a), x) = Times(b, Times(a, x))
    BY ModuleAssumption
  <1> QED BY <1>1, <1>2, <1>3

\* Each party multiplies its share and its MAC by a public scalar.
THEOREM MulPublicAuthentic ==
    ASSUME NEW M \in Carriers, MacKey \in F, NEW x, NEW v, Authentic(x, v, M),
           NEW c \in F
    PROVE  Authentic(MulPublic(Public(c), x), Times(c, v), M)
  <1> DEFINE z == MulPublic(Public(c), x)
  <1>x. PICK s0, s1, m0, m1 \in M :
            /\ x[0].share = s0 /\ x[1].share = s1
            /\ x[0].mac = m0 /\ x[1].mac = m1
            /\ Plus(s0, s1) = v
            /\ Plus(m0, m1) = Times(MacKey, v)
    BY Parts
  <1>1. v \in M
    BY Parts
  <1>2. /\ z[0] = [share |-> Times(c, s0), mac |-> Times(c, m0)]
        /\ z[1] = [share |-> Times(c, s1), mac |-> Times(c, m1)]
        /\ z = [p \in Party |-> z[p]]
    BY <1>x DEF MulPublic, mul, Public, Party
  <1>3. /\ Times(c, s0) \in M /\ Times(c, m0) \in M
        /\ Times(c, s1) \in M /\ Times(c, m1) \in M
    BY <1>1, Closed
  <1> HIDE DEF z
  <1>4. /\ z \in [Party -> ShareOf(M)]
        /\ z[0].share = Times(c, s0) /\ z[1].share = Times(c, s1)
        /\ z[0].mac = Times(c, m0) /\ z[1].mac = Times(c, m1)
    BY <1>2, <1>3, BothParties
  <1>5. /\ Times(c, Plus(s0, s1))
           = Plus(Times(c, s0), Times(c, s1))
        /\ Times(c, Plus(m0, m1))
           = Plus(Times(c, m0), Times(c, m1))
    BY <1>1, ModuleAssumption
  <1>6. Open(z) = Times(c, v)
    BY <1>4, <1>5, <1>x DEF Open
  <1>7. Plus(z[0].mac, z[1].mac) = Times(c, Times(MacKey, v))
    BY <1>4, <1>5, <1>x
  <1>8. Plus(z[0].mac, z[1].mac) = Times(MacKey, Times(c, v))
    BY <1>1, <1>7, TimesCommutes
  <1>9. Authentic(z, Times(c, v), M)
    BY <1>4, <1>6, <1>8 DEF Authentic
  <1> QED BY <1>9 DEF z

\* A shared scalar times a public element of either carrier, party by party.
THEOREM MulPointAuthentic ==
    ASSUME NEW M \in Carriers, MacKey \in F, NEW x, NEW v, Authentic(x, v, F),
           NEW c \in M
    PROVE  Authentic(MulPoint(x, Public(c)), Times(v, c), M)
  <1> DEFINE z == MulPoint(x, Public(c))
  <1>x. PICK s0, s1, m0, m1 \in F :
            /\ x[0].share = s0 /\ x[1].share = s1
            /\ x[0].mac = m0 /\ x[1].mac = m1
            /\ Plus(s0, s1) = v
            /\ Plus(m0, m1) = Times(MacKey, v)
    BY Parts, CarrierFacts
  <1>1. v \in F
    BY Parts, CarrierFacts
  <1>2. /\ z[0] = [share |-> Times(s0, c), mac |-> Times(m0, c)]
        /\ z[1] = [share |-> Times(s1, c), mac |-> Times(m1, c)]
        /\ z = [p \in Party |-> z[p]]
    BY <1>x DEF MulPoint, mul_point, Public, Party
  <1>3. /\ Times(s0, c) \in M /\ Times(m0, c) \in M
        /\ Times(s1, c) \in M /\ Times(m1, c) \in M
    BY <1>1, Closed
  <1> HIDE DEF z
  <1>4. /\ z \in [Party -> ShareOf(M)]
        /\ z[0].share = Times(s0, c) /\ z[1].share = Times(s1, c)
        /\ z[0].mac = Times(m0, c) /\ z[1].mac = Times(m1, c)
    BY <1>2, <1>3, BothParties
  <1>5. /\ Times(Plus(s0, s1), c)
           = Plus(Times(s0, c), Times(s1, c))
        /\ Times(Plus(m0, m1), c)
           = Plus(Times(m0, c), Times(m1, c))
    BY <1>1, ModuleAssumption
  <1>6. Open(z) = Times(v, c)
    BY <1>4, <1>5, <1>x DEF Open
  <1>7. Plus(z[0].mac, z[1].mac) = Times(Times(MacKey, v), c)
    BY <1>4, <1>5, <1>x
  <1>8. Plus(z[0].mac, z[1].mac) = Times(MacKey, Times(v, c))
    BY <1>1, <1>7, ModuleAssumption
  <1>9. Authentic(z, Times(v, c), M)
    BY <1>4, <1>6, <1>8 DEF Authentic
  <1> QED BY <1>9 DEF z


---------------------------------------------------------------------------
(* Preprocessing and the Beaver trick                                      *)

\* The preprocessing phase's sharings are authentic by construction.
THEOREM DealAuthentic ==
    ASSUME MacKey \in F, NEW v \in F, NEW s, NEW i, Rand(s, i) \in F,
           Rand(s, i + 1) \in F
    PROVE  Authentic(Deal(v, s, i), v, F)
  <1>k. PICK k \in F : MacKey = k
    OBVIOUS
  <1> DEFINE z == Deal(v, s, i)
             r == Rand(s, i)
             q == Rand(s, i + 1)
             kv == Times(k, v)
  <1>1. kv \in F /\ Minus(v, r) \in F /\ Minus(kv, q) \in F
    BY Closed, CarrierFacts
  <1>2. /\ z[0] = [share |-> r, mac |-> q]
        /\ z[1] = [share |-> Minus(v, r), mac |-> Minus(kv, q)]
        /\ z = [p \in Party |-> z[p]]
    BY <1>k DEF Deal, Party
  <1>3. r \in F /\ q \in F
    OBVIOUS
  <1> HIDE DEF z, r, q
  <1>4. /\ z \in [Party -> ShareOf(F)]
        /\ z[0].share = r /\ z[1].share = Minus(v, r)
        /\ z[0].mac = q /\ z[1].mac = Minus(kv, q)
    BY <1>1, <1>2, <1>3, BothParties
  <1>5. Plus(r, Minus(v, r)) = v /\ Plus(q, Minus(kv, q)) = kv
    BY <1>1, <1>3, CarrierFacts, MinusPlus
  <1>6. Authentic(z, v, F)
    BY <1>k, <1>4, <1>5 DEF Authentic, Open
  <1> QED BY <1>6 DEF z

\* The identity behind Beaver multiplication, over either carrier: with
\* d = v - a and e = w - b, the product v * w is d * b + d * e + a * e + a * b.
LEMMA BeaverIdentity ==
    ASSUME NEW M \in Carriers, NEW v \in F, NEW a \in F, NEW w \in M, NEW b \in M,
           NEW d \in F, NEW e \in M, d = Minus(v, a), e = Minus(w, b)
    PROVE  Plus(Plus(Times(d, b), Times(d, e)), Plus(Times(a, e), Times(a, b)))
           = Times(v, w)
  <1>1. Plus(d, a) = v /\ Plus(b, e) = w /\ Plus(e, b) = w
    BY MinusPlus, CarrierFacts
  <1>2. Plus(Times(d, b), Times(d, e)) = Times(d, Plus(b, e))
    BY ModuleAssumption
  <1>3. Plus(Times(a, e), Times(a, b)) = Times(a, Plus(e, b))
    BY ModuleAssumption
  <1>4. Plus(Times(d, w), Times(a, w)) = Times(Plus(d, a), w)
    BY ModuleAssumption
  <1> QED BY <1>1, <1>2, <1>3, <1>4

\* A draw of the preprocessing phase: a seed whose scalars are in the field.
FieldDraw(s) == \A j \in Nat : Rand(s, j) \in F

\* A triple shares two scalars and their product.
LEMMA TripleAuthentic ==
    ASSUME MacKey \in F, NEW s, FieldDraw(s), NEW i \in Nat
    PROVE  \E a, b \in F :
              /\ Authentic(next_triple(s, i).a, a, F)
              /\ Authentic(next_triple(s, i).b, b, F)
              /\ Authentic(next_triple(s, i).c, Times(a, b), F)
  <1> DEFINE a == Rand(s, i)
             b == Rand(s, i + 1)
             t == next_triple(s, i)
  <1>1. \A j \in 0..7 : Rand(s, i + j) \in F
    BY DEF FieldDraw
  <1>2. a \in F /\ b \in F
    BY DEF FieldDraw
  <1>3. Times(a, b) \in F
    BY <1>2, Closed, CarrierFacts
  <1>4. t.a = Deal(a, s, i + 2) /\ t.b = Deal(b, s, i + 4)
        /\ t.c = Deal(Times(a, b), s, i + 6)
    BY DEF next_triple
  <1>5. /\ Rand(s, i + 2) \in F /\ Rand(s, (i + 2) + 1) \in F
        /\ Rand(s, i + 4) \in F /\ Rand(s, (i + 4) + 1) \in F
        /\ Rand(s, i + 6) \in F /\ Rand(s, (i + 6) + 1) \in F
    BY DEF FieldDraw
  <1> HIDE DEF a, b, t
  <1>6. Authentic(t.a, a, F) /\ Authentic(t.b, b, F)
        /\ Authentic(t.c, Times(a, b), F)
    BY <1>2, <1>3, <1>4, <1>5, DealAuthentic
  <1>7. \E u, w \in F : /\ Authentic(t.a, u, F) /\ Authentic(t.b, w, F)
                        /\ Authentic(t.c, Times(u, w), F)
    BY <1>2, <1>6
  <1> QED BY <1>7 DEF t

\* What a party opens of an authentic sharing is its value.
LEMMA OpenIsValue ==
    ASSUME NEW M, NEW x, NEW v, Authentic(x, v, M) PROVE Open(x) = v
  BY DEF Authentic

\* Multiplication of shared scalars (impl Mul for AuthenticatedScalarResult):
\* whatever the triple, the result is an authenticated sharing of the product.
THEOREM MulAuthentic ==
    ASSUME key[0] \in F, key[1] \in F, NEW s, FieldDraw(s), NEW i \in Nat,
           NEW x, NEW y, NEW v, NEW w, Authentic(x, v, F), Authentic(y, w, F)
    PROVE  Authentic(Mul(x, y, s, i), Times(v, w), F)
  <1>0. MacKey \in F /\ v \in F /\ w \in F
    BY Closed, CarrierFacts, Parts DEF MacKey
  <1> DEFINE t == next_triple(s, i)
  <1>1. PICK a, b \in F : Authentic(t.a, a, F) /\ Authentic(t.b, b, F)
                          /\ Authentic(t.c, Times(a, b), F)
    BY <1>0, TripleAuthentic
  <1> DEFINE d == Open(Sub(x, t.a))
             e == Open(Sub(y, t.b))
             z == AddPublic(Add(Add(MulPublic(Public(d), t.b),
                                    MulPublic(Public(e), t.a)), t.c),
                            Public(Times(d, e)))
  <1>2. Mul(x, y, s, i) = z
    BY DEF Mul, AddPublic, Add, MulPublic, Public
  <1>3. d = Minus(v, a) /\ e = Minus(w, b)
    <2>1. Authentic(Sub(x, t.a), Minus(v, a), F) /\ Authentic(Sub(y, t.b), Minus(w, b), F)
      BY <1>0, <1>1, CarrierFacts, SubAuthentic
    <2> QED BY <2>1, OpenIsValue
  <1>4. d \in F /\ e \in F
    BY <1>0, <1>3, Closed, CarrierFacts
  <1> HIDE DEF t, d, e
  <1> DEFINE db == Times(d, b)
             ea == Times(e, a)
             ab == Times(a, b)
             de == Times(d, e)
  <1>5. db \in F /\ ea \in F /\ ab \in F /\ de \in F
    BY <1>4, Closed, CarrierFacts
  <1>6. Authentic(MulPublic(Public(d), t.b), db, F)
        /\ Authentic(MulPublic(Public(e), t.a), ea, F)
    BY <1>0, <1>1, <1>4, CarrierFacts, MulPublicAuthentic
  <1>7. Authentic(Add(MulPublic(Public(d), t.b), MulPublic(Public(e), t.a)),
                  Plus(db, ea), F)
    BY <1>0, <1>6, CarrierFacts, AddAuthentic
  <1>8. Authentic(Add(Add(MulPublic(Public(d), t.b), MulPublic(Public(e), t.a)), t.c),
                  Plus(Plus(db, ea), ab), F)
    BY <1>0, <1>1, <1>7, CarrierFacts, AddAuthentic
  <1>9. Authentic(z, Plus(Plus(Plus(db, ea), ab), de), F)
    BY <1>5, <1>8, CarrierFacts, AddPublicAuthentic
  <1>10. Plus(Plus(Plus(db, ea), ab), de) = Plus(Plus(db, de), Plus(ea, ab))
    <2> HIDE DEF db, ea, ab, de
    <2>1. Plus(ea, ab) \in F
      BY <1>5, Closed, CarrierFacts
    <2>2. Plus(Plus(db, ea), ab) = Plus(db, Plus(ea, ab))
      BY <1>5, CarrierFacts, GroupAssumption
    <2>3. Plus(Plus(db, Plus(ea, ab)), de) = Plus(db, Plus(Plus(ea, ab), de))
      BY <1>5, <2>1, CarrierFacts, GroupAssumption
    <2>4. Plus(Plus(ea, ab), de) = Plus(de, Plus(ea, ab))
      BY <1>5, <2>1, CarrierFacts, GroupAssumption
    <2>5. Plus(db, Plus(de, Plus(ea, ab))) = Plus(Plus(db, de), Plus(ea, ab))
      BY <1>5, <2>1, CarrierFacts, GroupAssumption
    <2> QED BY <2>2, <2>3, <2>4, <2>5
  <1>11. ea = Times(a, e)
    BY <1>4, FieldAssumption
  <1>12. Plus(Plus(db, de), Plus(ea, ab)) = Times(v, w)
    BY <1>0, <1>3, <1>4, <1>11, CarrierFacts, BeaverIdentity
  <1> QED BY <1>2, <1>9, <1>10, <1>12


\* The batched form adds the terms of the identity in another order, and
\* shares the same products.
LEMMA BeaverBatchForm ==
    ASSUME NEW M \in Carriers, key[0] \in F, key[1] \in F,
           NEW v \in F, NEW a \in F, NEW w \in M, NEW b \in M,
           NEW d \in F, NEW e \in M, d = Minus(v, a), e = Minus(w, b),
           NEW B, NEW A, NEW C, Authentic(B, b, M),
           Authentic(A, Times(a, e), M), Authentic(C, Times(a, b), M)
    PROVE  Authentic(Add(AddPublic(MulPublic(Public(d), B), Public(Times(d, e))),
                         Add(A, C)), Times(v, w), M)
  <1>0. MacKey \in F
    BY Closed, CarrierFacts DEF MacKey
  <1>1. Times(d, e) \in M
    BY Closed
  <1>2. Authentic(MulPublic(Public(d), B), Times(d, b), M)
    BY <1>0, MulPublicAuthentic
  <1>3. Authentic(AddPublic(MulPublic(Public(d), B), Public(Times(d, e))),
                  Plus(Times(d, b), Times(d, e)), M)
    BY <1>1, <1>2, AddPublicAuthentic
  <1>4. Authentic(Add(A, C), Plus(Times(a, e), Times(a, b)), M)
    BY <1>0, AddAuthentic
  <1>5. Authentic(Add(AddPublic(MulPublic(Public(d), B), Public(Times(d, e))),
                      Add(A, C)),
                  Plus(Plus(Times(d, b), Times(d, e)),
                       Plus(Times(a, e), Times(a, b))), M)
    BY <1>0, <1>3, <1>4, AddAuthentic
  <1> QED BY <1>5, BeaverIdentity

\* A batch of multiplications (AuthenticatedScalarResult::batch_mul): its k-th
\* result shares the product of its k-th arguments, for batches of any length.
THEOREM BatchMulAuthentic ==
    ASSUME key[0] \in F, key[1] \in F, NEW s, FieldDraw(s), NEW i \in Nat,
           NEW xs, NEW ys, Len(xs) \in Nat, NEW k \in 1..Len(xs), NEW v, NEW w,
           Authentic(xs[k], v, F), Authentic(ys[k], w, F)
    PROVE  Authentic(BatchMul(xs, ys, s, i)[k], Times(v, w), F)
  <1>0. MacKey \in F /\ v \in F /\ w \in F
    BY Closed, CarrierFacts, Parts DEF MacKey
  <1> DEFINE n == Len(xs)
             j == i + 8 * (k - 1)
             t == next_triple(s, j)
  <1>1. PICK a, b \in F : Authentic(t.a, a, F) /\ Authentic(t.b, b, F)
                          /\ Authentic(t.c, Times(a, b), F)
    <2>1. j \in Nat
      OBVIOUS
    <2> HIDE DEF j
    <2> QED BY <1>0, <2>1, TripleAuthentic
  <1> DEFINE d == Open(Sub(xs[k], t.a))
             e == Open(Sub(ys[k], t.b))
  <1>2. BatchMul(xs, ys, s, i)[k]
        = Add(AddPublic(MulPublic(Public(d), t.b), Public(Times(d, e))),
              Add(MulPublic(Public(e), t.a), t.c))
    <2>1. k \in 1..2 * n /\ k + n \in 1..2 * n /\ k <= n /\ ~(k + n <= n)
          /\ (k + n) - n = k
      OBVIOUS
    <2> QED BY <2>1 DEF BatchMul
  <1>3. d = Minus(v, a) /\ e = Minus(w, b)
    <2>1. Authentic(Sub(xs[k], t.a), Minus(v, a), F)
          /\ Authentic(Sub(ys[k], t.b), Minus(w, b), F)
      BY <1>0, <1>1, CarrierFacts, SubAuthentic
    <2> QED BY <2>1, OpenIsValue
  <1>4. d \in F /\ e \in F
    BY <1>0, <1>3, Closed, CarrierFacts
  <1> HIDE DEF t, d, e
  <1>5. Authentic(MulPublic(Public(e), t.a), Times(a, e), F)
    <2>1. Authentic(MulPublic(Public(e), t.a), Times(e, a), F)
      BY <1>0, <1>1, <1>4, CarrierFacts, MulPublicAuthentic
    <2>2. Times(e, a) = Times(a, e)
      BY <1>4, FieldAssumption
    <2> QED BY <2>1, <2>2
  <1> QED BY <1>0, <1>1, <1>2, <1>3, <1>4, <1>5, CarrierFacts, BeaverBatchForm

\* The batch of products of shared scalars and shared points
\* (AuthenticatedPointResult::batch_mul), whose triples are lifted to points.
THEOREM BatchMulPointAuthentic ==
    ASSUME key[0] \in F, key[1] \in F, NEW s, FieldDraw(s), NEW i \in Nat,
           NEW xs, NEW ys, Len(xs) \in Nat, NEW k \in 1..Len(xs), NEW v, NEW w,
           Authentic(xs[k], v, F), Authentic(ys[k], w, Points)
    PROVE  Authentic(BatchMulPointShares(xs, ys, s, i)[k], Times(v, w), Points)
  <1>0. MacKey \in F /\ v \in F /\ w \in Points /\ Generator \in Points
    BY Closed, CarrierFacts, Parts, FieldAssumption DEF MacKey
  <1> DEFINE n == Len(xs)
             j == i + 8 * (k - 1)
             t == next_triple(s, j)
             g == Public(Generator)
             bG == MulPoint(t.b, g)
  <1>1. PICK a, b \in F : Authentic(t.a, a, F) /\ Authentic(t.b, b, F)
                          /\ Authentic(t.c, Times(a, b), F)
    <2>1. j \in Nat
      OBVIOUS
    <2> HIDE DEF j
    <2> QED BY <1>0, <2>1, TripleAuthentic
  <1> DEFINE d == Open(Sub(xs[k], t.a))
             e == Open(Sub(ys[k], bG))
             B == Times(b, Generator)
  <1>2. BatchMulPointShares(xs, ys, s, i)[k]
        = Add(AddPublic(MulPublic(Public(d), bG), Public(Times(d, e))),
              Add(MulPoint(t.a, Public(e)), MulPoint(t.c, g)))
    BY DEF BatchMulPointShares
  <1> HIDE DEF t
  <1>3. B \in Points /\ Authentic(bG, B, Points)
    BY <1>0, <1>1, Closed, CarrierFacts, MulPointAuthentic
  <1>4. d = Minus(v, a) /\ e = Minus(w, B)
    <2> HIDE DEF bG, B
    <2>1. Authentic(Sub(xs[k], t.a), Minus(v, a), F)
      BY <1>0, <1>1, CarrierFacts, SubAuthentic
    <2>2. Authentic(Sub(ys[k], bG), Minus(w, B), Points)
      BY <1>0, <1>3, CarrierFacts, SubAuthentic
    <2> QED BY <2>1, <2>2, OpenIsValue
  <1> HIDE DEF d, e
  <1>5. d \in F /\ e \in Points
    <2> HIDE DEF B
    <2> QED BY <1>0, <1>3, <1>4, Closed, CarrierFacts
  <1>6. Authentic(MulPoint(t.a, Public(e)), Times(a, e), Points)
    BY <1>0, <1>1, <1>5, CarrierFacts, MulPointAuthentic
  <1>7. Authentic(MulPoint(t.c, g), Times(a, B), Points)
    <2>1. Authentic(MulPoint(t.c, g), Times(Times(a, b), Generator), Points)
      BY <1>0, <1>1, CarrierFacts, MulPointAuthentic
    <2>2. Times(Times(a, b), Generator) = Times(a, B)
      BY <1>0, CarrierFacts, ModuleAssumption
    <2> QED BY <2>1, <2>2
  <1> HIDE DEF bG, B, g
  <1> QED BY <1>0, <1>2, <1>3, <1>4, <1>5, <1>6, <1>7, CarrierFacts, BeaverBatchForm

---------------------------------------------------------------------------
(* The MAC check                                                           *)

\* An authenticated opening accepts exactly the authentic value: if the MACs
\* of x add up to the key times v, and the key is not zero, the two parties'
\* checks of an opened value u cancel if and only if u is v.  What the peer
\* sent as its share does not matter.
THEOREM MacCheckExact ==
    ASSUME NEW M \in Carriers, key[0] \in F, key[1] \in F, MacKey # Zero,
           NEW x, x[0].mac \in M, x[1].mac \in M,
           NEW v \in M, Plus(x[0].mac, x[1].mac) = Times(MacKey, v), NEW u \in M
    PROVE  Plus(MacCheck(x, u, 0), MacCheck(x, u, 1)) = Neutral(M) <=> u = v
  <1>k. PICK a0, a1 \in F : key[0] = a0 /\ key[1] = a1
    OBVIOUS
  <1>m. PICK m0, m1 \in M : x[0].mac = m0 /\ x[1].mac = m1
    OBVIOUS
  <1> DEFINE k == Plus(a0, a1)
             c0 == Times(a0, u)
             c1 == Times(a1, u)
             total == Plus(MacCheck(x, u, 0), MacCheck(x, u, 1))
  <1>1. k \in F /\ MacKey = k /\ k # Zero
    BY <1>k, Closed, CarrierFacts DEF MacKey
  <1>2. c0 \in M /\ c1 \in M /\ Neg(m0) \in M /\ Neg(m1) \in M /\ Neg(v) \in M
        /\ Plus(m0, m1) \in M
    BY Closed
  <1>3. Plus(m0, m1) = Times(k, v)
    BY <1>1, <1>m
  <1>4. total = Plus(Plus(c0, Neg(m0)), Plus(c1, Neg(m1)))
    BY <1>k, <1>m DEF MacCheck, Minus
  <1>5. Plus(Plus(c0, Neg(m0)), Plus(c1, Neg(m1)))
        = Plus(Plus(c0, c1), Plus(Neg(m0), Neg(m1)))
    BY <1>2, Regroup
  <1>6. Plus(c0, c1) = Times(k, u)
    BY ModuleAssumption
  <1>7. Plus(Neg(m0), Neg(m1)) = Neg(Times(k, v))
    BY <1>3, NegPlus
  <1>8. Neg(Times(k, v)) = Times(k, Neg(v))
    BY <1>1, TimesNeg
  <1>9. Plus(Times(k, u), Times(k, Neg(v))) = Times(k, Plus(u, Neg(v)))
    BY <1>1, <1>2, ModuleAssumption
  <1>10. total = Times(k, Plus(u, Neg(v)))
    BY <1>4, <1>5, <1>6, <1>7, <1>8, <1>9
  <1> HIDE DEF total, k
  <1>11. Plus(u, Neg(v)) \in M
    BY <1>2, Closed
  <1>12. ASSUME total = Neutral(M) PROVE u = v
    <2>1. Plus(u, Neg(v)) = Neutral(M)
      BY <1>1, <1>10, <1>11, <1>12, NoTorsion
    <2>2. Plus(Minus(u, v), v) = u
      BY MinusPlus
    <2>3. Plus(Neutral(M), v) = v
      BY Closed, GroupAssumption
    <2> QED BY <2>1, <2>2, <2>3 DEF Minus
  <1>13. ASSUME u = v PROVE total = Neutral(M)
    <2>1. Plus(u, Neg(v)) = Neutral(M)
      BY <1>13, GroupAssumption
    <2> QED BY <1>1, <1>10, <2>1, TimesNeutral
  <1> QED BY <1>12, <1>13 DEF total


---------------------------------------------------------------------------
(* Sums, products and powers                                               *)

\* Induction over a set of naturals, from the pigeonhole principle: the
\* members of the complement up to a given one would go into the same set
\* without that one.
LEMMA Induction ==
    ASSUME NEW T, 0 \in T, \A n \in Nat : n \in T => n + 1 \in T
    PROVE  \A n \in Nat : n \in T
  <1> SUFFICES ASSUME NEW c \in Nat, c \notin T PROVE FALSE
    OBVIOUS
  <1> DEFINE A == {i \in 0 .. c : i \notin T}
             f == [i \in A |-> i - 1]
  <1>1. IsFiniteSet(A)
    <2>1. IsFiniteSet(0 .. c)
      BY FS_Interval
    <2>2. A \in SUBSET (0 .. c)
      OBVIOUS
    <2> QED BY <2>1, <2>2, FS_Subset
  <1>2. c \in A
    OBVIOUS
  <1>3. ASSUME NEW i \in A PROVE i - 1 \in A \ {c}
    <2>1. i # 0
      OBVIOUS
    <2>2. i - 1 \in Nat /\ i - 1 \in 0 .. c /\ (i - 1) + 1 = i /\ i - 1 # c
      BY <2>1
    <2>3. i - 1 \notin T
      BY <2>2
    <2> QED BY <2>2, <2>3
  <1>4. f \in [A -> A \ {c}]
    BY <1>3
  <1>5. \A i, j \in A : f[i] = f[j] => i = j
    OBVIOUS
  <1> HIDE DEF A
  <1>6. f \in Injection(A, A \ {c})
    BY <1>4, <1>5 DEF Injection, IsInjective
  <1> HIDE DEF f
  <1>7. IsFiniteSet(A \ {c}) /\ Cardinality(A \ {c}) = Cardinality(A) - 1
    BY <1>1, <1>2, FS_RemoveElement
  <1>8. Cardinality(A) <= Cardinality(A \ {c})
    BY <1>6, <1>7, FS_Injection
  <1>9. Cardinality(A) \in Nat
    BY <1>1, FS_CardinalityType
  <1> QED BY <1>7, <1>8, <1>9

\* acc holds the sums, the products of the prefixes of s; the powers of x.
SumsOf(s, n, acc) ==
    acc = [k \in 1..n |-> IF k = 1 THEN s[1] ELSE Plus(acc[k - 1], s[k])]
ProductsOf(s, n, acc) ==
    acc = [k \in 1..n |-> IF k = 1 THEN s[1] ELSE Times(acc[k - 1], s[k])]
PowersOf(x, n, acc) ==
    acc = [k \in 0..n |-> IF k = 0 THEN One ELSE Times(acc[k - 1], x)]

\* The function that SumSeq defines by recursion exists, and its last value
\* is the sum.
LEMMA SumSeqExists ==
    ASSUME NEW s, NEW n \in Nat, Len(s) = n
    PROVE  \E acc : SumsOf(s, n, acc) /\ SumSeq(s) = acc[n]
  <1> DEFINE T == {m \in Nat : \E acc : SumsOf(s, m, acc)}
  <1>1. 0 \in T
    <2>1. SumsOf(s, 0, [k \in 1..0 |-> 0])
      BY DEF SumsOf
    <2> QED BY <2>1
  <1>2. ASSUME NEW m \in Nat, m \in T PROVE m + 1 \in T
    <2>1. PICK f : SumsOf(s, m, f)
      BY <1>2
    <2> DEFINE g == [k \in 1..m + 1 |->
                        IF k = m + 1 THEN (IF k = 1 THEN s[1] ELSE Plus(f[m], s[k]))
                        ELSE f[k]]
    <2>2. ASSUME NEW k \in 1..m + 1
          PROVE  g[k] = IF k = 1 THEN s[1] ELSE Plus(g[k - 1], s[k])
      <3>1. CASE k = m + 1
        BY <3>1
      <3>2. CASE k # m + 1
        <4>1. k \in 1..m
          BY <3>2
        <4>2. f[k] = IF k = 1 THEN s[1] ELSE Plus(f[k - 1], s[k])
          BY <2>1, <4>1 DEF SumsOf
        <4>3. k # 1 => k - 1 \in 1..m
          BY <4>1
        <4>4. g[k] = f[k] /\ (k # 1 => g[k - 1] = f[k - 1])
          BY <4>1, <4>3
        <4> QED BY <4>2, <4>4
      <3> QED BY <3>1, <3>2
    <2>3. SumsOf(s, m + 1, g)
      BY <2>2 DEF SumsOf
    <2> QED BY <2>3
  <1>3. n \in T
    <2> HIDE DEF T
    <2> QED BY <1>1, <1>2, Induction
  <1>4. PICK f : SumsOf(s, n, f)
    BY <1>3
  <1> DEFINE g == CHOOSE h : SumsOf(s, n, h)
  <1>5. SumsOf(s, n, g)
    BY <1>4
  <1>6. SumSeq(s) = g[n]
    BY DEF SumSeq, SumsOf
  <1> QED BY <1>5, <1>6

\* The same for products.
LEMMA ProdSeqExists ==
    ASSUME NEW s, NEW n \in Nat, Len(s) = n
    PROVE  \E acc : ProductsOf(s, n, acc) /\ ProdSeq(s) = acc[n]
  <1> DEFINE T == {m \in Nat : \E acc : ProductsOf(s, m, acc)}
  <1>1. 0 \in T
    <2>1. ProductsOf(s, 0, [k \in 1..0 |-> 0])
      BY DEF ProductsOf
    <2> QED BY <2>1
  <1>2. ASSUME NEW m \in Nat, m \in T PROVE m + 1 \in T
    <2>1. PICK f : ProductsOf(s, m, f)
      BY <1>2
    <2> DEFINE g == [k \in 1..m + 1 |->
                        IF k = m + 1 THEN (IF k = 1 THEN s[1] ELSE Times(f[m], s[k]))
                        ELSE f[k]]
    <2>2. ASSUME NEW k \in 1..m + 1
          PROVE  g[k] = IF k = 1 THEN s[1] ELSE Times(g[k - 1], s[k])
      <3>1. CASE k = m + 1
        BY <3>1
      <3>2. CASE k # m + 1
        <4>1. k \in 1..m
          BY <3>2
        <4>2. f[k] = IF k = 1 THEN s[1] ELSE Times(f[k - 1], s[k])
          BY <2>1, <4>1 DEF ProductsOf
        <4>3. k # 1 => k - 1 \in 1..m
          BY <4>1
        <4>4. g[k] = f[k] /\ (k # 1 => g[k - 1] = f[k - 1])
          BY <4>1, <4>3
        <4> QED BY <4>2, <4>4
      <3> QED BY <3>1, <3>2
    <2>3. ProductsOf(s, m + 1, g)
      BY <2>2 DEF ProductsOf
    <2> QED BY <2>3
  <1>3. n \in T
    <2> HIDE DEF T
    <2> QED BY <1>1, <1>2, Induction
  <1>4. PICK f : ProductsOf(s, n, f)
    BY <1>3
  <1> DEFINE g == CHOOSE h : ProductsOf(s, n, h)
  <1>5. ProductsOf(s, n, g)
    BY <1>4
  <1>6. ProdSeq(s) = g[n]
    BY DEF ProdSeq, ProductsOf
  <1> QED BY <1>5, <1>6

\* The same for powers.
LEMMA PowerExists ==
    ASSUME NEW x, NEW e \in Nat
    PROVE  \E acc : PowersOf(x, e, acc) /\ Power(x, e) = acc[e]
  <1> DEFINE T == {m \in Nat : \E acc : PowersOf(x, m, acc)}
  <1>1. 0 \in T
    <2>1. PowersOf(x, 0, [k \in 0..0 |-> One])
      BY DEF PowersOf
    <2> QED BY <2>1
  <1>2. ASSUME NEW m \in Nat, m \in T PROVE m + 1 \in T
    <2>1. PICK f : PowersOf(x, m, f)
      BY <1>2
    <2> DEFINE g == [k \in 0..m + 1 |-> IF k = m + 1 THEN Times(f[m], x) ELSE f[k]]
    <2>2. ASSUME NEW k \in 0..m + 1
          PROVE  g[k] = IF k = 0 THEN One ELSE Times(g[k - 1], x)
      <3>1. CASE k = m + 1
        BY <3>1
      <3>2. CASE k # m + 1
        <4>1. k \in 0..m
          BY <3>2
        <4>2. f[k] = IF k = 0 THEN One ELSE Times(f[k - 1], x)
          BY <2>1, <4>1 DEF PowersOf
        <4>3. k # 0 => k - 1 \in 0..m
          BY <4>1
        <4>4. g[k] = f[k] /\ (k # 0 => g[k - 1] = f[k - 1])
          BY <4>1, <4>3
        <4> QED BY <4>2, <4>4
      <3> QED BY <3>1, <3>2
    <2>3. PowersOf(x, m + 1, g)
      BY <2>2 DEF PowersOf
    <2> QED BY <2>3
  <1>3. e \in T
    <2> HIDE DEF T
    <2> QED BY <1>1, <1>2, Induction
  <1>4. PICK f : PowersOf(x, e, f)
    BY <1>3
  <1> DEFINE g == CHOOSE h : PowersOf(x, e, h)
  <1>5. PowersOf(x, e, g)
    BY <1>4
  <1>6. Power(x, e) = g[e]
    BY DEF Power, PowersOf
  <1> QED BY <1>5, <1>6

\* Sums of members of a carrier, and products and powers of scalars, stay
\* in it.
LEMMA SumSeqClosed ==
    ASSUME NEW M \in Carriers, NEW n \in Nat \ {0}, NEW s, Len(s) = n,
           \A k \in 1..n : s[k] \in M
    PROVE  SumSeq(s) \in M
  <1>1. PICK f : SumsOf(s, n, f) /\ SumSeq(s) = f[n]
    BY SumSeqExists
  <1> DEFINE T == {m \in Nat : m \in 1..n => f[m] \in M}
  <1>2. 0 \in T
    OBVIOUS
  <1>3. ASSUME NEW m \in Nat, m \in T PROVE m + 1 \in T
    <2> SUFFICES ASSUME m + 1 \in 1..n PROVE f[m + 1] \in M
      OBVIOUS
    <2>1. f[m + 1] = IF m + 1 = 1 THEN s[1] ELSE Plus(f[(m + 1) - 1], s[m + 1])
      BY <1>1 DEF SumsOf
    <2>2. CASE m = 0
      BY <2>1, <2>2
    <2>3. CASE m # 0
      <3>1. f[m] \in M /\ s[m + 1] \in M
        BY <1>3, <2>3
      <3>2. f[m + 1] = Plus(f[m], s[m + 1])
        BY <2>1, <2>3
      <3> QED BY <3>1, <3>2, Closed
    <2> QED BY <2>2, <2>3
  <1>4. n \in T
    <2> HIDE DEF T
    <2> QED BY <1>2, <1>3, Induction
  <1> QED BY <1>1, <1>4

LEMMA ProdSeqClosed ==
    ASSUME NEW n \in Nat \ {0}, NEW s, Len(s) = n, \A k \in 1..n : s[k] \in F
    PROVE  ProdSeq(s) \in F
  <1>1. PICK f : ProductsOf(s, n, f) /\ ProdSeq(s) = f[n]
    BY ProdSeqExists
  <1> DEFINE T == {m \in Nat : m \in 1..n => f[m] \in F}
  <1>2. 0 \in T
    OBVIOUS
  <1>3. ASSUME NEW m \in Nat, m \in T PROVE m + 1 \in T
    <2> SUFFICES ASSUME m + 1 \in 1..n PROVE f[m + 1] \in F
      OBVIOUS
    <2>1. f[m + 1] = IF m + 1 = 1 THEN s[1] ELSE Times(f[(m + 1) - 1], s[m + 1])
      BY <1>1 DEF ProductsOf
    <2>2. CASE m = 0
      BY <2>1, <2>2
    <2>3. CASE m # 0
      <3>1. f[m] \in F /\ s[m + 1] \in F
        BY <1>3, <2>3
      <3>2. f[m + 1] = Times(f[m], s[m + 1])
        BY <2>1, <2>3
      <3> QED BY <3>1, <3>2, Closed, CarrierFacts
    <2> QED BY <2>2, <2>3
  <1>4. n \in T
    <2> HIDE DEF T
    <2> QED BY <1>2, <1>3, Induction
  <1> QED BY <1>1, <1>4

\* The first powers, and the next one.
LEMMA PowerFacts ==
    ASSUME NEW x \in F
    PROVE  /\ Power(x, 0) = One /\ Power(x, 1) = x
           /\ \A e \in Nat : Power(x, e + 1) = Times(Power(x, e), x)
  <1>1. Power(x, 0) = One
    <2>1. PICK f : PowersOf(x, 0, f) /\ Power(x, 0) = f[0]
      BY PowerExists
    <2> QED BY <2>1 DEF PowersOf
  <1>2. ASSUME NEW e \in Nat PROVE Power(x, e + 1) = Times(Power(x, e), x)
    <2>1. PICK f : PowersOf(x, e, f) /\ Power(x, e) = f[e]
      BY PowerExists
    <2>2. PICK g : PowersOf(x, e + 1, g) /\ Power(x, e + 1) = g[e + 1]
      BY PowerExists
    <2> DEFINE T == {m \in Nat : m <= e => f[m] = g[m]}
    <2>3. 0 \in T
      BY <2>1, <2>2 DEF PowersOf
    <2>4. ASSUME NEW m \in Nat, m \in T PROVE m + 1 \in T
      <3> SUFFICES ASSUME m + 1 <= e PROVE f[m + 1] = g[m + 1]
        OBVIOUS
      <3>1. f[m + 1] = Times(f[(m + 1) - 1], x)
        BY <2>1 DEF PowersOf
      <3>2. g[m + 1] = Times(g[(m + 1) - 1], x)
        BY <2>2 DEF PowersOf
      <3>3. (m + 1) - 1 = m /\ f[m] = g[m]
        BY <2>4
      <3> QED BY <3>1, <3>2, <3>3
    <2>5. e \in T
      <3> HIDE DEF T
      <3> QED BY <2>3, <2>4, Induction
    <2>6. f[e] = g[e]
      BY <2>5
    <2>7. g[e + 1] = Times(g[(e + 1) - 1], x) /\ (e + 1) - 1 = e
      BY <2>2 DEF PowersOf
    <2> QED BY <2>1, <2>2, <2>6, <2>7
  <1>3. Power(x, 0 + 1) = Times(One, x)
    BY <1>1, <1>2
  <1>4. Power(x, 1) = x
    BY <1>3, ModuleAssumption, CarrierFacts
  <1> QED BY <1>1, <1>2, <1>4

\* The laws of exponents that repeated squaring rests on.
LEMMA PowerLaws ==
    ASSUME NEW x \in F, NEW a \in Nat
    PROVE  \A b \in Nat : Power(x, b) \in F
                          /\ Power(x, a + b) = Times(Power(x, a), Power(x, b))
  <1> DEFINE T == {b \in Nat : Power(x, b) \in F}
  <1>1. 0 \in T
    BY PowerFacts, FieldAssumption
  <1>2. ASSUME NEW b \in Nat, b \in T PROVE b + 1 \in T
    BY <1>2, PowerFacts, Closed, CarrierFacts
  <1>3. \A b \in Nat : Power(x, b) \in F
    <2>1. \A b \in Nat : b \in T
      <3> HIDE DEF T
      <3> QED BY <1>1, <1>2, Induction
    <2> QED BY <2>1
  <1> DEFINE U == {b \in Nat : Power(x, a + b) = Times(Power(x, a), Power(x, b))}
  <1>4. 0 \in U
    <2>1. Times(Power(x, a), One) = Times(One, Power(x, a))
      BY <1>3, FieldAssumption
    <2>2. Times(One, Power(x, a)) = Power(x, a)
      BY <1>3, ModuleAssumption, CarrierFacts
    <2>3. Power(x, 0) = One /\ a + 0 = a
      BY PowerFacts
    <2> QED BY <2>1, <2>2, <2>3
  <1>5. ASSUME NEW b \in Nat, b \in U PROVE b + 1 \in U
    <2> DEFINE pa == Power(x, a)
               pb == Power(x, b)
    <2>1. Power(x, (a + b) + 1) = Times(Power(x, a + b), x)
      BY PowerFacts
    <2>2. Power(x, b + 1) = Times(pb, x)
      BY PowerFacts
    <2>3. pa \in F /\ pb \in F
      BY <1>3
    <2>4. Power(x, a + b) = Times(pa, pb)
      BY <1>5
    <2> HIDE DEF pa, pb
    <2>5. Times(Times(pa, pb), x) = Times(pa, Times(pb, x))
      BY <2>3, ModuleAssumption, CarrierFacts
    <2>6. Power(x, (a + b) + 1) = Times(pa, Power(x, b + 1))
      BY <2>1, <2>2, <2>4, <2>5
    <2>7. (a + b) + 1 = a + (b + 1)
      OBVIOUS
    <2> QED BY <2>6, <2>7 DEF pa
  <1>6. \A b \in Nat : b \in U
    <2> HIDE DEF U
    <2> QED BY <1>4, <1>5, Induction
  <1> QED BY <1>3, <1>6

\* The product of a prefix that is one element longer.
LEMMA ProdSeqPrefix ==
    ASSUME NEW n \in Nat, NEW s \in [1..n -> F]
    PROVE  /\ n > 0 => ProdSeq(SubSeq(s, 1, 1)) = s[1]
           /\ \A k \in 1..n : ProdSeq(SubSeq(s, 1, k)) \in F
           /\ \A k \in 1..n - 1 :
                 ProdSeq(SubSeq(s, 1, k + 1)) = Times(ProdSeq(SubSeq(s, 1, k)), s[k + 1])
  <1>0. s \in Seq(F) /\ Len(s) = n
    OBVIOUS
  <1>1. ASSUME NEW k \in 1..n
        PROVE  /\ Len(SubSeq(s, 1, k)) = k
               /\ \A j \in 1..k : SubSeq(s, 1, k)[j] = s[j]
    BY <1>0
  <1>2. \A k \in 1..n : ProdSeq(SubSeq(s, 1, k)) \in F
    <2> TAKE k \in 1..n
    <2> DEFINE t == SubSeq(s, 1, k)
    <2>1. Len(t) = k /\ \A j \in 1..k : t[j] = s[j]
      BY <1>1
    <2>2. k \in Nat \ {0} /\ \A j \in 1..k : t[j] \in F
      BY <2>1
    <2> HIDE DEF t
    <2>3. ProdSeq(t) \in F
      BY <2>1, <2>2, ProdSeqClosed
    <2> QED BY <2>3 DEF t
  <1>3. ASSUME n > 0 PROVE ProdSeq(SubSeq(s, 1, 1)) = s[1]
    <2> DEFINE t == SubSeq(s, 1, 1)
    <2>1. Len(t) = 1 /\ t[1] = s[1]
      BY <1>1, <1>3
    <2> HIDE DEF t
    <2>2. PICK f : ProductsOf(t, 1, f) /\ ProdSeq(t) = f[1]
      BY <2>1, ProdSeqExists
    <2>3. f[1] = t[1]
      BY <2>2 DEF ProductsOf
    <2> QED BY <2>1, <2>2, <2>3 DEF t
  <1>4. ASSUME NEW k \in 1..n - 1
        PROVE  ProdSeq(SubSeq(s, 1, k + 1)) = Times(ProdSeq(SubSeq(s, 1, k)), s[k + 1])
    <2> DEFINE t == SubSeq(s, 1, k)
               u == SubSeq(s, 1, k + 1)
    <2>1. Len(t) = k /\ \A j \in 1..k : t[j] = s[j]
      BY <1>1
    <2>2. Len(u) = k + 1 /\ \A j \in 1..k + 1 : u[j] = s[j]
      BY <1>1
    <2> HIDE DEF t, u
    <2>3. PICK f : ProductsOf(t, k, f) /\ ProdSeq(t) = f[k]
      BY <2>1, ProdSeqExists
    <2>4. PICK g : ProductsOf(u, k + 1, g) /\ ProdSeq(u) = g[k + 1]
      BY <2>2, ProdSeqExists
    <2> DEFINE T == {m \in Nat : m \in 1..k => f[m] = g[m]}
    <2>5. 0 \in T
      OBVIOUS
    <2>6. ASSUME NEW m \in Nat, m \in T PROVE m + 1 \in T
      <3> SUFFICES ASSUME m + 1 \in 1..k PROVE f[m + 1] = g[m + 1]
        OBVIOUS
      <3>1. f[m + 1] = IF m + 1 = 1 THEN t[1] ELSE Times(f[(m + 1) - 1], t[m + 1])
        BY <2>3 DEF ProductsOf
      <3>2. g[m + 1] = IF m + 1 = 1 THEN u[1] ELSE Times(g[(m + 1) - 1], u[m + 1])
        BY <2>4 DEF ProductsOf
      <3>3. t[1] = u[1] /\ t[m + 1] = u[m + 1]
        BY <2>1, <2>2
      <3>4. m + 1 # 1 => f[(m + 1) - 1] = g[(m + 1) - 1]
        BY <2>6
      <3> QED BY <3>1, <3>2, <3>3, <3>4
    <2>7. k \in T
      <3> HIDE DEF T
      <3> QED BY <2>5, <2>6, Induction
    <2>8. f[k] = g[k]
      BY <2>7
    <2>9. g[k + 1] = IF k + 1 = 1 THEN u[1] ELSE Times(g[(k + 1) - 1], u[k + 1])
      BY <2>4 DEF ProductsOf
    <2>10. k + 1 # 1 /\ (k + 1) - 1 = k /\ u[k + 1] = s[k + 1]
      BY <2>2
    <2>11. ProdSeq(u) = Times(ProdSeq(t), s[k + 1])
      BY <2>3, <2>4, <2>8, <2>9, <2>10
    <2> QED BY <2>11 DEF t, u
  <1> QED BY <1>2, <1>3, <1>4

---------------------------------------------------------------------------
(* The other protocols                                                     *)

\* A public value is subtracted, or subtracted from, as it is added.
THEOREM SubPublicAuthentic ==
    ASSUME NEW M \in Carriers, key[0] \in F, key[1] \in F,
           NEW x, NEW v, Authentic(x, v, M), NEW c \in M
    PROVE  /\ Authentic(SubPublic(x, Public(c)), Minus(v, c), M)
           /\ Authentic(PublicSub(Public(c), x), Minus(c, v), M)
  <1>0. MacKey \in F /\ Neg(c) \in M /\ v \in M /\ Neg(v) \in M
    BY Closed, CarrierFacts, Parts DEF MacKey
  <1>1. SubPublic(x, Public(c)) = AddPublic(x, Public(Neg(c)))
    BY DEF SubPublic, sub_public, AddPublic, Public
  <1>2. Authentic(AddPublic(x, Public(Neg(c))), Plus(v, Neg(c)), M)
    BY <1>0, AddPublicAuthentic
  <1>3. PublicSub(Public(c), x) = AddPublic(Negate(x), Public(c))
    BY DEF PublicSub, AddPublic, Negate
  <1>4. Authentic(Negate(x), Neg(v), M)
    BY <1>0, NegateAuthentic
  <1>5. Authentic(AddPublic(Negate(x), Public(c)), Plus(Neg(v), c), M)
    BY <1>4, AddPublicAuthentic
  <1>6. Plus(Neg(v), c) = Plus(c, Neg(v))
    BY <1>0, GroupAssumption
  <1> QED BY <1>1, <1>2, <1>3, <1>5, <1>6 DEF Minus

\* The sum of a batch shares the sum of the values (Sum for
\* AuthenticatedScalarResult and AuthenticatedPointResult).
THEOREM SumAuthentic ==
    ASSUME NEW M \in Carriers, MacKey \in F, NEW n \in Nat \ {0}, NEW xs, NEW vs,
           DOMAIN xs = 1..n, Len(vs) = n,
           \A k \in 1..n : Authentic(xs[k], vs[k], M)
    PROVE  Authentic(Sum(xs), SumSeq(vs), M)
  <1> DEFINE s(p) == [k \in 1..n |-> xs[k][p].share]
             m(p) == [k \in 1..n |-> xs[k][p].mac]
  <1>1. Sum(xs) = [p \in Party |-> [share |-> SumSeq(s(p)), mac |-> SumSeq(m(p))]]
    BY DEF Sum, sum
  <1>2. \A p \in Party : Len(s(p)) = n /\ Len(m(p)) = n
    OBVIOUS
  <1>3. /\ \A k \in 1..n : /\ s(0)[k] = xs[k][0].share /\ s(1)[k] = xs[k][1].share
                           /\ m(0)[k] = xs[k][0].mac /\ m(1)[k] = xs[k][1].mac
    OBVIOUS
  <1>4. 0 \in Party /\ 1 \in Party
    BY DEF Party
  <1> DEFINE s0 == s(0)
             s1 == s(1)
             m0 == m(0)
             m1 == m(1)
  <1>5. Len(s0) = n /\ Len(s1) = n /\ Len(m0) = n /\ Len(m1) = n
    BY <1>2, <1>4
  <1>6. Sum(xs) = [p \in Party |-> IF p = 0 THEN [share |-> SumSeq(s0), mac |-> SumSeq(m0)]
                                   ELSE [share |-> SumSeq(s1), mac |-> SumSeq(m1)]]
    BY <1>1 DEF Party
  <1>7. \A k \in 1..n : /\ s0[k] = xs[k][0].share /\ s1[k] = xs[k][1].share
                        /\ m0[k] = xs[k][0].mac /\ m1[k] = xs[k][1].mac
    BY <1>3
  <1> HIDE DEF s0, s1, m0, m1
  <1>v. PICK f : SumsOf(vs, n, f) /\ SumSeq(vs) = f[n]
    BY SumSeqExists
  <1>a. PICK a0 : SumsOf(s0, n, a0) /\ SumSeq(s0) = a0[n]
    BY <1>5, SumSeqExists
  <1>b. PICK a1 : SumsOf(s1, n, a1) /\ SumSeq(s1) = a1[n]
    BY <1>5, SumSeqExists
  <1>c. PICK b0 : SumsOf(m0, n, b0) /\ SumSeq(m0) = b0[n]
    BY <1>5, SumSeqExists
  <1>d. PICK b1 : SumsOf(m1, n, b1) /\ SumSeq(m1) = b1[n]
    BY <1>5, SumSeqExists
  <1> DEFINE X(k) == [p \in Party |-> IF p = 0 THEN [share |-> a0[k], mac |-> b0[k]]
                                      ELSE [share |-> a1[k], mac |-> b1[k]]]
             T == {k \in Nat : k \in 1..n => Authentic(X(k), f[k], M)}
  <1>8. 0 \in T
    OBVIOUS
  <1>9. ASSUME NEW k \in Nat, k \in T PROVE k + 1 \in T
    <2> SUFFICES ASSUME k + 1 \in 1..n PROVE Authentic(X(k + 1), f[k + 1], M)
      OBVIOUS
    <2>1. f[k + 1] = IF k + 1 = 1 THEN vs[1] ELSE Plus(f[(k + 1) - 1], vs[k + 1])
      BY <1>v DEF SumsOf
    <2>2. a0[k + 1] = IF k + 1 = 1 THEN s0[1] ELSE Plus(a0[(k + 1) - 1], s0[k + 1])
      BY <1>a DEF SumsOf
    <2>3. a1[k + 1] = IF k + 1 = 1 THEN s1[1] ELSE Plus(a1[(k + 1) - 1], s1[k + 1])
      BY <1>b DEF SumsOf
    <2>4. b0[k + 1] = IF k + 1 = 1 THEN m0[1] ELSE Plus(b0[(k + 1) - 1], m0[k + 1])
      BY <1>c DEF SumsOf
    <2>5. b1[k + 1] = IF k + 1 = 1 THEN m1[1] ELSE Plus(b1[(k + 1) - 1], m1[k + 1])
      BY <1>d DEF SumsOf
    <2> DEFINE x == xs[k + 1]
    <2>6. Authentic(x, vs[k + 1], M)
      OBVIOUS
    <2>7. x \in [Party -> ShareOf(M)]
      BY <2>6 DEF Authentic
    <2>8. /\ s0[k + 1] = x[0].share /\ s1[k + 1] = x[1].share
          /\ m0[k + 1] = x[0].mac /\ m1[k + 1] = x[1].mac
      BY <1>7
    <2> HIDE DEF x
    <2>9. CASE k = 0
      <3>1. X(k + 1) = [p \in Party |-> IF p = 0 THEN [share |-> x[0].share, mac |-> x[0].mac]
                                        ELSE [share |-> x[1].share, mac |-> x[1].mac]]
        BY <2>2, <2>3, <2>4, <2>5, <2>8, <2>9
      <3>2. x[0] = [share |-> x[0].share, mac |-> x[0].mac]
            /\ x[1] = [share |-> x[1].share, mac |-> x[1].mac]
        BY <2>7, <1>4 DEF ShareOf
      <3>3. X(k + 1) = x
        BY <3>1, <3>2, <2>7 DEF Party
      <3>4. f[k + 1] = vs[k + 1]
        BY <2>1, <2>9
      <3> QED BY <2>6, <3>3, <3>4
    <2>10. CASE k # 0
      <3>1. Authentic(X(k), f[k], M)
        BY <1>9, <2>10
      <3>2. /\ a0[k + 1] = Plus(a0[k], x[0].share) /\ a1[k + 1] = Plus(a1[k], x[1].share)
            /\ b0[k + 1] = Plus(b0[k], x[0].mac) /\ b1[k + 1] = Plus(b1[k], x[1].mac)
        BY <2>2, <2>3, <2>4, <2>5, <2>8, <2>10
      <3>3. X(k + 1) = Add(X(k), x)
        BY <3>2 DEF Add, add, Party
      <3>4. f[k + 1] = Plus(f[k], vs[k + 1])
        BY <2>1, <2>10
      <3> HIDE DEF X
      <3>5. Authentic(Add(X(k), x), Plus(f[k], vs[k + 1]), M)
        BY <2>6, <3>1, AddAuthentic
      <3> QED BY <3>3, <3>4, <3>5
    <2> QED BY <2>9, <2>10
  <1>10. n \in T
    <2> HIDE DEF T
    <2> QED BY <1>8, <1>9, Induction
  <1>11. Authentic(X(n), f[n], M)
    BY <1>10
  <1>12. X(n) = Sum(xs)
    BY <1>6, <1>a, <1>b, <1>c, <1>d
  <1> QED BY <1>11, <1>12, <1>v

\* The product of a shared scalar and a shared point
\* (AuthenticatedScalarResult * AuthenticatedPointResult).
THEOREM MulPointSharesAuthentic ==
    ASSUME key[0] \in F, key[1] \in F, NEW s, FieldDraw(s), NEW i \in Nat,
           NEW x, NEW y, NEW v, NEW w, Authentic(x, v, F), Authentic(y, w, Points)
    PROVE  Authentic(MulPointShares(x, y, s, i), Times(v, w), Points)
  <1>0. MacKey \in F /\ v \in F /\ w \in Points /\ Generator \in Points
    BY Closed, CarrierFacts, Parts, FieldAssumption DEF MacKey
  <1> DEFINE t == next_triple(s, i)
             g == Public(Generator)
             bG == MulPoint(t.b, g)
             d == Open(Sub(x, t.a))
             e == Open(Sub(y, bG))
  <1>1. PICK a, b \in F : Authentic(t.a, a, F) /\ Authentic(t.b, b, F)
                          /\ Authentic(t.c, Times(a, b), F)
    BY <1>0, TripleAuthentic
  <1>2. MulPointShares(x, y, s, i)
        = Add(Add(AddPublic(MulPublic(Public(d), bG), Public(Times(d, e))),
                  MulPoint(t.a, Public(e))), MulPoint(t.c, g))
    BY DEF MulPointShares
  <1> HIDE DEF t
  <1> DEFINE B == Times(b, Generator)
  <1>3. B \in Points /\ Authentic(bG, B, Points)
    BY <1>0, <1>1, Closed, CarrierFacts, MulPointAuthentic
  <1>4. d = Minus(v, a) /\ e = Minus(w, B)
    <2> HIDE DEF bG, B
    <2>1. Authentic(Sub(x, t.a), Minus(v, a), F)
      BY <1>0, <1>1, CarrierFacts, SubAuthentic
    <2>2. Authentic(Sub(y, bG), Minus(w, B), Points)
      BY <1>0, <1>3, CarrierFacts, SubAuthentic
    <2> QED BY <2>1, <2>2, OpenIsValue
  <1> HIDE DEF d, e
  <1>5. d \in F /\ e \in Points
    <2> HIDE DEF B
    <2> QED BY <1>0, <1>3, <1>4, Closed, CarrierFacts
  <1>6. Authentic(MulPoint(t.a, Public(e)), Times(a, e), Points)
    BY <1>0, <1>1, <1>5, CarrierFacts, MulPointAuthentic
  <1>7. Authentic(MulPoint(t.c, g), Times(a, B), Points)
    <2>1. Authentic(MulPoint(t.c, g), Times(Times(a, b), Generator), Points)
      BY <1>0, <1>1, CarrierFacts, MulPointAuthentic
    <2>2. Times(Times(a, b), Generator) = Times(a, B)
      BY <1>0, CarrierFacts, ModuleAssumption
    <2> QED BY <2>1, <2>2
  <1> HIDE DEF bG, B, g
  <1> DEFINE dB == Times(d, B)
             de == Times(d, e)
             ae == Times(a, e)
             aB == Times(a, B)
  <1>8. dB \in Points /\ de \in Points /\ ae \in Points /\ aB \in Points
        /\ Plus(dB, de) \in Points
    BY <1>3, <1>5, Closed, CarrierFacts
  <1>9. Authentic(MulPublic(Public(d), bG), dB, Points)
    BY <1>0, <1>3, <1>5, CarrierFacts, MulPublicAuthentic
  <1>10. Authentic(AddPublic(MulPublic(Public(d), bG), Public(de)), Plus(dB, de), Points)
    BY <1>8, <1>9, CarrierFacts, AddPublicAuthentic
  <1>11. Authentic(Add(AddPublic(MulPublic(Public(d), bG), Public(de)),
                       MulPoint(t.a, Public(e))), Plus(Plus(dB, de), ae), Points)
    BY <1>0, <1>6, <1>10, CarrierFacts, AddAuthentic
  <1>12. Authentic(MulPointShares(x, y, s, i), Plus(Plus(Plus(dB, de), ae), aB), Points)
    BY <1>0, <1>2, <1>7, <1>11, CarrierFacts, AddAuthentic
  <1>13. Plus(Plus(Plus(dB, de), ae), aB) = Plus(Plus(dB, de), Plus(ae, aB))
    <2> HIDE DEF dB, de, ae, aB
    <2> QED BY <1>8, CarrierFacts, GroupAssumption
  <1>14. Plus(Plus(dB, de), Plus(ae, aB)) = Times(v, w)
    BY <1>0, <1>3, <1>4, <1>5, CarrierFacts, BeaverIdentity
  <1> QED BY <1>12, <1>13, <1>14

\* Products of scalars: regrouping, the unit and inverses.
LEMMA ScalarProducts ==
    ASSUME NEW a \in F, NEW b \in F, NEW c \in F
    PROVE  /\ Times(a, b) \in F /\ Times(a, b) = Times(b, a)
           /\ Times(Times(a, b), c) = Times(a, Times(b, c))
           /\ Times(One, a) = a /\ Times(a, One) = a
           /\ Times(a, Zero) = Zero /\ Times(Zero, a) = Zero
           /\ Inv(a) \in F /\ (a # Zero => Times(a, Inv(a)) = One /\ Times(Inv(a), a) = One)
           /\ One \in F /\ Zero \in F
  <1>1. Zero \in F /\ One \in F
    BY Closed, CarrierFacts, FieldAssumption
  <1>2. Times(a, b) \in F /\ Times(a, b) = Times(b, a)
    BY Closed, CarrierFacts, FieldAssumption
  <1>3. Times(Times(a, b), c) = Times(a, Times(b, c))
    BY ModuleAssumption, CarrierFacts
  <1>4. Times(One, a) = a /\ Times(a, One) = a
    BY <1>1, ModuleAssumption, CarrierFacts, FieldAssumption
  <1>5. Times(a, Zero) = Zero /\ Times(Zero, a) = Zero
    BY <1>1, TimesNeutral, CarrierFacts, FieldAssumption
  <1>6. Inv(a) \in F
    BY <1>1, FieldAssumption
  <1>7. a # Zero => Times(a, Inv(a)) = One /\ Times(Inv(a), a) = One
    BY <1>6, FieldAssumption
  <1> QED BY <1>1, <1>2, <1>3, <1>4, <1>5, <1>6, <1>7

\* Only one scalar is the inverse of a given one.
LEMMA InverseUnique ==
    ASSUME NEW a \in F, NEW b \in F, Times(a, b) = One
    PROVE  b = Inv(a)
  <1>1. a # Zero
    BY ScalarProducts, FieldAssumption
  <1>2. Inv(a) \in F /\ Times(Inv(a), a) = One
    BY <1>1, ScalarProducts
  <1>3. Times(Times(Inv(a), a), b) = Times(Inv(a), Times(a, b))
    BY <1>2, ScalarProducts
  <1> QED BY <1>2, <1>3, ScalarProducts

\* Unmasking the inverse of a masked value gives the inverse of the value.
LEMMA UnmaskInverse ==
    ASSUME NEW v \in F, NEW r \in F, r # Zero
    PROVE  Times(Inv(Times(v, r)), r) = Inv(v)
  <1>1. CASE v = Zero
    <2>1. Times(v, r) = Zero
      BY <1>1, ScalarProducts
    <2>2. Times(Zero, r) = Zero
      BY ScalarProducts
    <2> QED BY <1>1, <2>1, <2>2, FieldAssumption
  <1>2. CASE v # Zero
    <2> DEFINE i == Inv(Times(v, r))
    <2>1. Times(v, r) \in F /\ i \in F
      BY ScalarProducts
    <2>2. Times(v, r) # Zero
      BY <1>2, NoTorsion, CarrierFacts
    <2>3. Times(Times(v, r), i) = One
      BY <2>1, <2>2, ScalarProducts
    <2> HIDE DEF i
    <2>4. Times(Times(v, r), i) = Times(v, Times(r, i))
      BY <2>1, ScalarProducts
    <2>5. Times(r, i) = Times(i, r) /\ Times(i, r) \in F
      BY <2>1, ScalarProducts
    <2>6. Times(v, Times(i, r)) = One
      BY <2>3, <2>4, <2>5
    <2>7. Times(i, r) = Inv(v)
      BY <2>5, <2>6, InverseUnique
    <2> QED BY <2>7 DEF i
  <1> QED BY <1>1, <1>2

\* batch_inverse: what it returns shares the inverses, and zero for a zero,
\* unless a mask is zero.
THEOREM BatchInverseAuthentic ==
    ASSUME key[0] \in F, key[1] \in F, NEW s, FieldDraw(s), NEW i \in Nat,
           NEW xs, Len(xs) \in Nat, Zero \notin InverseMasks(Len(xs), s, i),
           NEW k \in 1..Len(xs), NEW v, Authentic(xs[k], v, F)
    PROVE  Authentic(BatchInverse(xs, s, i)[k], Inv(v), F)
  <1>0. MacKey \in F /\ v \in F
    BY Closed, CarrierFacts, Parts DEF MacKey
  <1> DEFINE n == Len(xs)
             mask == Rand(s, i + 3 * k)
             r == [j \in 1..n |-> Deal(Rand(s, i + 3 * j), s, i + 3 * j + 1)]
             m == BatchMul(xs, r, s, i + 3 * n + 3)
  <1>1. mask \in F /\ mask # Zero
    <2>1. i + 3 * k \in Nat
      OBVIOUS
    <2> QED BY <2>1 DEF FieldDraw, InverseMasks
  <1>2. r[k] = Deal(mask, s, i + 3 * k + 1)
    OBVIOUS
  <1>3. BatchInverse(xs, s, i)[k] = MulPublic(Public(Inv(Open(m[k]))), r[k])
    BY DEF BatchInverse
  <1>4. Rand(s, i + 3 * k + 1) \in F /\ Rand(s, (i + 3 * k + 1) + 1) \in F
    BY DEF FieldDraw
  <1>5. i + 3 * n + 3 \in Nat
    OBVIOUS
  <1> HIDE DEF mask, r
  <1>6. Authentic(r[k], mask, F)
    BY <1>0, <1>1, <1>2, <1>4, DealAuthentic
  <1>7. Authentic(m[k], Times(v, mask), F)
    <2> DEFINE o == i + 3 * n + 3
    <2>1. o \in Nat
      BY <1>5
    <2> HIDE DEF o
    <2>2. Authentic(BatchMul(xs, r, s, o)[k], Times(v, mask), F)
      BY <1>6, <2>1, BatchMulAuthentic
    <2> QED BY <2>2 DEF o
  <1> HIDE DEF m
  <1>8. Open(m[k]) = Times(v, mask)
    BY <1>7, OpenIsValue
  <1>9. Inv(Times(v, mask)) \in F
    <2>1. Times(v, mask) \in F
      BY <1>0, <1>1, ScalarProducts
    <2> QED BY <2>1, ScalarProducts
  <1>10. Authentic(MulPublic(Public(Inv(Times(v, mask))), r[k]),
                   Times(Inv(Times(v, mask)), mask), F)
    BY <1>0, <1>6, <1>9, CarrierFacts, MulPublicAuthentic
  <1>11. Times(Inv(Times(v, mask)), mask) = Inv(v)
    BY <1>0, <1>1, UnmaskInverse
  <1> QED BY <1>3, <1>8, <1>10, <1>11

\* A sharing whose shares and MACs are all neutral shares the neutral
\* element.
LEMMA NeutralAuthentic ==
    ASSUME NEW M \in Carriers, MacKey \in F
    PROVE  Authentic([p \in Party |-> [share |-> Neutral(M), mac |-> Neutral(M)]],
                     Neutral(M), M)
  <1> DEFINE n == Neutral(M)
             x == [p \in Party |-> [share |-> n, mac |-> n]]
  <1>1. n \in M /\ Plus(n, n) = n /\ Times(MacKey, n) = n
    BY Closed, GroupAssumption, TimesNeutral
  <1> HIDE DEF n
  <1>2. x[0] = [share |-> n, mac |-> n] /\ x[1] = [share |-> n, mac |-> n]
    BY DEF Party
  <1>3. x \in [Party -> ShareOf(M)]
    BY <1>1 DEF ShareOf
  <1>4. Authentic(x, n, M)
    BY <1>1, <1>2, <1>3 DEF Authentic, Open
  <1> QED BY <1>4 DEF n

\* One step of AuthenticatedScalarResult::pow, over the results for smaller
\* exponents.
PowStep(x, s, e, half) ==
    LET res == Mul(half, half, s, 16 * e)
    IN  IF e % 2 = 1 THEN Mul(res, x, s, 16 * e + 8) ELSE res
PowsOf(x, s, n, acc) ==
    acc = [e \in 0..n |->
              IF e = 0 THEN [p \in Party |-> [share |-> Zero, mac |-> Zero]]
              ELSE IF e = 1 THEN x
              ELSE PowStep(x, s, e, acc[e \div 2])]

LEMMA Halves ==
    ASSUME NEW e \in Nat, e >= 2
    PROVE  /\ e \div 2 \in Nat /\ e \div 2 >= 1 /\ e \div 2 < e
           /\ (e % 2 = 1 => e = ((e \div 2) + (e \div 2)) + 1)
           /\ (e % 2 # 1 => e = (e \div 2) + (e \div 2))
  OBVIOUS

LEMMA PowExists ==
    ASSUME NEW x, NEW s, NEW n \in Nat
    PROVE  \E acc : PowsOf(x, s, n, acc) /\ Pow(x, n, s) = acc[n]
  <1> DEFINE T == {m \in Nat : \E acc : PowsOf(x, s, m, acc)}
             z == [p \in Party |-> [share |-> Zero, mac |-> Zero]]
             at(f, e) == IF e = 0 THEN z ELSE IF e = 1 THEN x
                         ELSE PowStep(x, s, e, f[e \div 2])
  <1>0. \A f, m : PowsOf(x, s, m, f) <=> f = [e \in 0..m |-> at(f, e)]
    BY DEF PowsOf
  <1>1. 0 \in T
    <2>1. PowsOf(x, s, 0, [e \in 0..0 |-> z])
      BY DEF PowsOf
    <2> QED BY <2>1
  <1>2. ASSUME NEW m \in Nat, m \in T PROVE m + 1 \in T
    <2>1. PICK f : PowsOf(x, s, m, f)
      BY <1>2
    <2> DEFINE g == [e \in 0..m + 1 |-> IF e = m + 1 THEN at(f, e) ELSE f[e]]
    <2>2. ASSUME NEW e \in 0..m + 1 PROVE g[e] = at(g, e)
      <3>1. e \notin {0, 1} => e \div 2 \in 0..m
        BY Halves
      <3>2. e \notin {0, 1} => g[e \div 2] = f[e \div 2]
        BY <3>1
      <3>3. at(g, e) = at(f, e)
        BY <3>2
      <3>4. CASE e = m + 1
        BY <3>3, <3>4
      <3>5. CASE e # m + 1
        <4>1. e \in 0..m
          BY <3>5
        <4>2. f[e] = at(f, e)
          <5>1. f = [j \in 0..m |-> at(f, j)]
            BY <2>1, <1>0
          <5> HIDE DEF at
          <5> QED BY <4>1, <5>1
        <4>3. g[e] = f[e]
          BY <4>1
        <4> QED BY <3>3, <4>2, <4>3
      <3> QED BY <3>4, <3>5
    <2>3. g = [e \in 0..m + 1 |-> at(g, e)]
      <3>1. g = [e \in 0..m + 1 |-> g[e]]
        OBVIOUS
      <3> HIDE DEF g, at
      <3> QED BY <2>2, <3>1
    <2>4. PowsOf(x, s, m + 1, g)
      BY <1>0, <2>3
    <2> QED BY <2>4
  <1>3. n \in T
    <2> HIDE DEF T
    <2> QED BY <1>1, <1>2, Induction
  <1>4. PICK f : PowsOf(x, s, n, f)
    BY <1>3
  <1> DEFINE g == CHOOSE h : PowsOf(x, s, n, h)
  <1>5. PowsOf(x, s, n, g)
    BY <1>4
  <1>6. Pow(x, n, s) = g[n]
    BY DEF Pow, PowsOf, PowStep
  <1> QED BY <1>5, <1>6

\* pow shares the power of the value, by repeated squaring; for the exponent
\* zero it shares zero.
THEOREM PowAuthentic ==
    ASSUME key[0] \in F, key[1] \in F, NEW s, FieldDraw(s), NEW n \in Nat,
           NEW x, NEW v, Authentic(x, v, F)
    PROVE  Authentic(Pow(x, n, s), IF n = 0 THEN Zero ELSE Power(v, n), F)
  <1>0. MacKey \in F /\ v \in F
    BY Closed, CarrierFacts, Parts DEF MacKey
  <1>1. PICK f : PowsOf(x, s, n, f) /\ Pow(x, n, s) = f[n]
    BY PowExists
  <1>2. CASE n = 0
    <2>1. f[0] = [p \in Party |-> [share |-> Zero, mac |-> Zero]]
      BY <1>1 DEF PowsOf
    <2>2. Authentic(f[0], Zero, F)
      BY <1>0, <2>1, NeutralAuthentic, CarrierFacts
    <2> QED BY <1>1, <1>2, <2>2
  <1>3. CASE n # 0
    <2> DEFINE T == {m \in Nat : \A e \in 1..n : e <= m => Authentic(f[e], Power(v, e), F)}
    <2>1. 0 \in T
      OBVIOUS
    <2>2. ASSUME NEW m \in Nat, m \in T PROVE m + 1 \in T
      <3> SUFFICES ASSUME NEW e \in 1..n, e = m + 1
                   PROVE  Authentic(f[e], Power(v, e), F)
        <4>1. \A e \in 1..n : e <= m => Authentic(f[e], Power(v, e), F)
          BY <2>2
        <4> QED BY <4>1
      <3>1. f[e] = IF e = 1 THEN x ELSE PowStep(x, s, e, f[e \div 2])
        BY <1>1 DEF PowsOf
      <3>2. CASE e = 1
        <4>1. Power(v, 1) = v
          BY <1>0, PowerFacts
        <4> QED BY <3>1, <3>2, <4>1
      <3>3. CASE e # 1
        <4> DEFINE h == e \div 2
                   res == Mul(f[h], f[h], s, 16 * e)
        <4>1. h \in 1..n /\ h <= m /\ h \in Nat
          BY <3>3, Halves
        <4>2. Authentic(f[h], Power(v, h), F)
          BY <2>2, <4>1
        <4>3. 16 * e \in Nat /\ 16 * e + 8 \in Nat
          OBVIOUS
        <4>4. Authentic(res, Times(Power(v, h), Power(v, h)), F)
          <5> DEFINE o == 16 * e
          <5>1. o \in Nat
            BY <4>3
          <5> HIDE DEF o, h
          <5>2. Authentic(Mul(f[h], f[h], s, o), Times(Power(v, h), Power(v, h)), F)
            BY <4>2, <5>1, MulAuthentic
          <5> QED BY <5>2 DEF o
        <4>5. Power(v, h + h) = Times(Power(v, h), Power(v, h))
          BY <1>0, <4>1, PowerLaws
        <4>6. f[e] = IF e % 2 = 1 THEN Mul(res, x, s, 16 * e + 8) ELSE res
          BY <3>1, <3>3 DEF PowStep
        <4> HIDE DEF res
        <4>7. CASE e % 2 = 1
          <5> DEFINE o == 16 * e + 8
          <5>1. o \in Nat
            BY <4>3
          <5> HIDE DEF o
          <5>2. Authentic(Mul(res, x, s, o), Times(Power(v, h + h), v), F)
            BY <4>4, <4>5, <5>1, MulAuthentic
          <5>3. h + h \in Nat /\ e = (h + h) + 1
            BY <3>3, <4>1, <4>7, Halves
          <5>4. Power(v, (h + h) + 1) = Times(Power(v, h + h), v)
            BY <1>0, <5>3, PowerFacts
          <5> QED BY <4>6, <4>7, <5>2, <5>3, <5>4 DEF o
        <4>8. CASE e % 2 # 1
          <5>1. e = h + h
            BY <3>3, <4>8, Halves
          <5> QED BY <4>4, <4>5, <4>6, <4>8, <5>1
        <4> QED BY <4>7, <4>8
      <3> QED BY <3>2, <3>3
    <2>3. n \in T
      <3> HIDE DEF T
      <3> QED BY <2>1, <2>2, Induction
    <2>4. Authentic(f[n], Power(v, n), F)
      BY <1>3, <2>3
    <2> QED BY <1>1, <1>3, <2>4
  <1> QED BY <1>2, <1>3

\* x + y - 2xy and y - 2xy + x are the exclusive or of two bits.
LEMMA XorOfBits ==
    ASSUME NEW a \in {Zero, One}, NEW b \in {Zero, One}
    PROVE  /\ Minus(Plus(a, b), Times(Two, Times(a, b))) = IF a = b THEN Zero ELSE One
           /\ Plus(Minus(b, Times(Times(Two, a), b)), a) = IF a = b THEN Zero ELSE One
  <1>1. Zero \in F /\ One \in F /\ Two \in F /\ One # Zero /\ Neg(Two) \in F
    BY Closed, CarrierFacts, FieldAssumption DEF Two
  <1>2. /\ Times(Zero, Zero) = Zero /\ Times(Zero, One) = Zero /\ Times(One, Zero) = Zero
        /\ Times(One, One) = One /\ Times(Two, Zero) = Zero /\ Times(Two, One) = Two
    BY <1>1, ScalarProducts
  <1>3. /\ Plus(Zero, Zero) = Zero /\ Plus(One, Zero) = One /\ Plus(Zero, One) = One
        /\ Neg(Zero) = Zero
    <2>1. Plus(Zero, Zero) = Zero /\ Plus(One, Zero) = One /\ Plus(Zero, One) = One
      BY <1>1, CarrierFacts, GroupAssumption
    <2>2. Plus(Zero, Neg(Zero)) = Zero /\ Neg(Zero) \in F
      BY <1>1, CarrierFacts, GroupAssumption
    <2>3. Plus(Zero, Neg(Zero)) = Plus(Zero, Zero)
      BY <2>1, <2>2
    <2>4. Neg(Zero) = Zero
      BY <1>1, <2>2, <2>3, CarrierFacts, Cancel
    <2> QED BY <2>1, <2>4
  <1>4. Plus(Two, Neg(Two)) = Zero
    BY <1>1, CarrierFacts, GroupAssumption
  <1>5. Plus(Plus(One, Neg(Two)), One) = Zero
    <2>1. Plus(Plus(One, Neg(Two)), One) = Plus(One, Plus(Neg(Two), One))
      BY <1>1, CarrierFacts, GroupAssumption
    <2>2. Plus(Neg(Two), One) = Plus(One, Neg(Two))
      BY <1>1, CarrierFacts, GroupAssumption
    <2>3. Plus(One, Plus(One, Neg(Two))) = Plus(Plus(One, One), Neg(Two))
      BY <1>1, CarrierFacts, GroupAssumption
    <2> QED BY <1>4, <2>1, <2>2, <2>3 DEF Two
  <1>6. CASE a = Zero /\ b = Zero
    BY <1>2, <1>3, <1>6 DEF Minus
  <1>7. CASE a = Zero /\ b = One
    BY <1>1, <1>2, <1>3, <1>7 DEF Minus
  <1>8. CASE a = One /\ b = Zero
    BY <1>1, <1>2, <1>3, <1>8 DEF Minus
  <1>9. CASE a = One /\ b = One
    <2>1. Plus(a, b) = Two
      BY <1>9 DEF Two
    <2> QED BY <1>2, <1>4, <1>5, <1>9, <2>1 DEF Minus
  <1> QED BY <1>6, <1>7, <1>8, <1>9

\* The sharing x + y - 2p, for a sharing p of the product.
LEMMA XorForm ==
    ASSUME MacKey \in F, NEW a \in {Zero, One}, NEW b \in {Zero, One},
           NEW x, NEW y, NEW p,
           Authentic(x, a, F), Authentic(y, b, F), Authentic(p, Times(a, b), F)
    PROVE  Authentic(Sub(Add(x, y), MulPublic(Public(Two), p)),
                     IF a = b THEN Zero ELSE One, F)
  <1>1. Two \in F
    BY Closed, CarrierFacts, FieldAssumption DEF Two
  <1>2. Authentic(Add(x, y), Plus(a, b), F)
    BY CarrierFacts, AddAuthentic
  <1>3. Authentic(MulPublic(Public(Two), p), Times(Two, Times(a, b)), F)
    BY <1>1, CarrierFacts, MulPublicAuthentic
  <1>4. Authentic(Sub(Add(x, y), MulPublic(Public(Two), p)),
                  Minus(Plus(a, b), Times(Two, Times(a, b))), F)
    BY <1>2, <1>3, CarrierFacts, SubAuthentic
  <1> QED BY <1>4, XorOfBits

\* bit_xor shares the exclusive or of two bits.
THEOREM BitXorAuthentic ==
    ASSUME key[0] \in F, key[1] \in F, NEW s, FieldDraw(s),
           NEW a \in {Zero, One}, NEW b \in {Zero, One}, NEW x, NEW y,
           Authentic(x, a, F), Authentic(y, b, F)
    PROVE  Authentic(BitXor(x, y, s), IF a = b THEN Zero ELSE One, F)
  <1>0. MacKey \in F /\ a \in F /\ b \in F
    BY Closed, CarrierFacts, Parts DEF MacKey
  <1>1. Authentic(Mul(x, y, s, 0), Times(a, b), F)
    <2>1. 0 \in Nat
      OBVIOUS
    <2> QED BY <2>1, MulAuthentic
  <1> QED BY <1>0, <1>1, XorForm DEF BitXor

\* bit_xor_public shares the exclusive or of a public and a shared bit.
THEOREM BitXorPublicAuthentic ==
    ASSUME key[0] \in F, key[1] \in F,
           NEW a \in {Zero, One}, NEW b \in {Zero, One}, NEW y, Authentic(y, b, F)
    PROVE  Authentic(BitXorPublic(Public(a), y), IF a = b THEN Zero ELSE One, F)
  <1>0. MacKey \in F /\ a \in F /\ b \in F
    <2>1. Zero \in F /\ One \in F
      BY FieldAssumption, Closed, CarrierFacts
    <2>2. MacKey \in F
      BY Closed, CarrierFacts DEF MacKey
    <2> QED BY <2>1, <2>2
  <1> DEFINE t == Times(Two, a)
  <1>1. t \in F
    BY <1>0, Closed, CarrierFacts, FieldAssumption DEF Two
  <1>2. BitXorPublic(Public(a), y)
        = AddPublic(Sub(y, MulPublic(Public(Times(Two, a)), y)), Public(a))
    <2>1. [p \in Party |-> Times(Two, Public(a)[p])] = Public(Times(Two, a))
      BY DEF Public
    <2> QED BY <2>1 DEF BitXorPublic
  <1> HIDE DEF t
  <1>3. Authentic(MulPublic(Public(t), y), Times(t, b), F)
    BY <1>0, <1>1, CarrierFacts, MulPublicAuthentic
  <1>4. Authentic(Sub(y, MulPublic(Public(t), y)), Minus(b, Times(t, b)), F)
    BY <1>0, <1>3, CarrierFacts, SubAuthentic
  <1>5. Authentic(AddPublic(Sub(y, MulPublic(Public(t), y)), Public(a)),
                  Plus(Minus(b, Times(t, b)), a), F)
    BY <1>0, <1>4, CarrierFacts, AddPublicAuthentic
  <1> QED BY <1>2, <1>5, XorOfBits DEF t

\* Each element of bit_xor_public_batch does so too.
THEOREM BitXorPublicBatchAuthentic ==
    ASSUME key[0] \in F, key[1] \in F,
           NEW a \in {Zero, One}, NEW b \in {Zero, One}, NEW y, Authentic(y, b, F)
    PROVE  Authentic(BitXorPublicBatch(Public(a), y), IF a = b THEN Zero ELSE One, F)
  <1>0. MacKey \in F /\ a \in F /\ b \in F
    <2>1. Zero \in F /\ One \in F
      BY FieldAssumption, Closed, CarrierFacts
    <2>2. MacKey \in F
      BY Closed, CarrierFacts DEF MacKey
    <2> QED BY <2>1, <2>2
  <1> DEFINE ab == MulPublic(Public(a), y)
  <1>1. Two \in F /\ Times(a, b) \in F /\ Plus(b, a) = Plus(a, b)
    <2>1. F \in Carriers /\ One \in F
      BY CarrierFacts, FieldAssumption
    <2>2. Two \in F
      BY <2>1, Closed DEF Two
    <2>3. Times(a, b) \in F
      BY <1>0, <2>1, Closed
    <2>4. Plus(b, a) = Plus(a, b)
      BY <1>0, <2>1, GroupAssumption
    <2> QED BY <2>2, <2>3, <2>4
  <1>2. Authentic(ab, Times(a, b), F)
    BY <1>0, CarrierFacts, MulPublicAuthentic
  <1>3. Authentic(AddPublic(y, Public(a)), Plus(a, b), F)
    <2>1. Authentic(AddPublic(y, Public(a)), Plus(b, a), F)
      BY <1>0, CarrierFacts, AddPublicAuthentic
    <2> QED BY <1>1, <2>1
  <1> HIDE DEF ab
  <1>4. Authentic(MulPublic(Public(Two), ab), Times(Two, Times(a, b)), F)
    BY <1>0, <1>1, <1>2, CarrierFacts, MulPublicAuthentic
  <1>5. Authentic(Sub(AddPublic(y, Public(a)), MulPublic(Public(Two), ab)),
                  Minus(Plus(a, b), Times(Two, Times(a, b))), F)
    BY <1>0, <1>3, <1>4, CarrierFacts, SubAuthentic
  <1> QED BY <1>5, XorOfBits DEF BitXorPublicBatch, ab

\* The blinded prefix products telescope: between the inverse of the first
\* mask and the mask after the last value is the product of the values.
LEMMA Telescope ==
    ASSUME NEW n \in Nat, NEW b \in [1..n + 1 -> F \ {Zero}], NEW vs \in [1..n -> F],
           NEW o \in [1..n -> F],
           \A k \in 1..n : o[k] = Times(Times(Inv(b[k]), vs[k]), b[k + 1])
    PROVE  \A k \in 1..n :
              ProdSeq(SubSeq(o, 1, k))
              = Times(Times(Inv(b[1]), ProdSeq(SubSeq(vs, 1, k))), b[k + 1])
  <1> DEFINE P(k) == ProdSeq(SubSeq(o, 1, k))
             V(k) == ProdSeq(SubSeq(vs, 1, k))
             T == {k \in Nat : k \in 1..n => P(k) = Times(Times(Inv(b[1]), V(k)), b[k + 1])}
  <1>1. 0 \in T
    OBVIOUS
  <1>2. ASSUME NEW k \in Nat, k \in T PROVE k + 1 \in T
    <2> SUFFICES ASSUME k + 1 \in 1..n
                 PROVE  P(k + 1) = Times(Times(Inv(b[1]), V(k + 1)), b[(k + 1) + 1])
      OBVIOUS
    <2>1. CASE k = 0
      <3>1. P(1) = o[1] /\ V(1) = vs[1]
        BY ProdSeqPrefix
      <3>2. o[1] = Times(Times(Inv(b[1]), vs[1]), b[1 + 1])
        OBVIOUS
      <3> HIDE DEF P, V
      <3> QED BY <2>1, <3>1, <3>2
    <2>2. CASE k # 0
      <3>0. k \in 1..n /\ k \in 1..n - 1
        BY <2>2
      <3>1. P(k + 1) = Times(P(k), o[k + 1])
        BY <3>0, ProdSeqPrefix
      <3>2. V(k + 1) = Times(V(k), vs[k + 1]) /\ V(k) \in F
        BY <3>0, ProdSeqPrefix
      <3>3. P(k) = Times(Times(Inv(b[1]), V(k)), b[k + 1])
        BY <1>2, <3>0
      <3> HIDE DEF P, V
      <3> DEFINE i == Inv(b[1])
                 u == V(k)
                 w == vs[k + 1]
                 m == b[k + 1]
                 l == b[(k + 1) + 1]
      <3>4. i \in F /\ u \in F /\ w \in F /\ m \in F /\ m # Zero /\ l \in F /\ Inv(m) \in F
        <4>1. b[1] \in F /\ b[k + 1] \in F \ {Zero} /\ b[(k + 1) + 1] \in F
          OBVIOUS
        <4>2. Inv(b[1]) \in F /\ Inv(b[k + 1]) \in F
          BY <4>1, ScalarProducts
        <4> QED BY <3>2, <4>1, <4>2
      <3>5. o[k + 1] = Times(Times(Inv(m), w), l)
        OBVIOUS
      <3>6. P(k + 1) = Times(Times(Times(i, u), m), Times(Times(Inv(m), w), l))
        BY <3>1, <3>3, <3>5
      <3>7. V(k + 1) = Times(u, w)
        BY <3>2
      <3> HIDE DEF i, u, w, m, l
      <3> DEFINE j == Inv(m)
                 iu == Times(i, u)
                 wl == Times(w, l)
      <3>8. iu \in F /\ wl \in F /\ j \in F
        BY <3>4, ScalarProducts
      <3>10. Times(m, j) = One
        BY <3>4, ScalarProducts
      <3> HIDE DEF j
      <3>9. Times(Times(j, w), l) = Times(j, wl)
        BY <3>4, <3>8, ModuleAssumption, CarrierFacts
      <3>11. Times(iu, w) = Times(i, Times(u, w))
        BY <3>4, ModuleAssumption, CarrierFacts
      <3> HIDE DEF iu
      <3>12. Times(Times(iu, w), l) = Times(iu, wl)
        BY <3>4, <3>8, ModuleAssumption, CarrierFacts
      <3> HIDE DEF wl
      <3>13. Times(Times(iu, m), Times(j, wl)) = Times(iu, Times(m, Times(j, wl)))
        <4>1. Times(j, wl) \in F
          BY <3>8, ScalarProducts
        <4> QED BY <3>4, <3>8, <4>1, ScalarProducts
      <3>14. Times(m, Times(j, wl)) = Times(Times(m, j), wl)
        BY <3>4, <3>8, ScalarProducts
      <3>15. Times(Times(m, j), wl) = wl
        BY <3>8, <3>10, ScalarProducts
      <3>16. P(k + 1) = Times(iu, wl)
        BY <3>6, <3>9, <3>13, <3>14, <3>15 DEF iu, j
      <3>17. P(k + 1) = Times(Times(i, Times(u, w)), l)
        BY <3>11, <3>12, <3>16
      <3> QED BY <3>7, <3>17 DEF i, l
    <2> QED BY <2>1, <2>2
  <1>3. \A k \in Nat : k \in T
    <2> HIDE DEF T
    <2> QED BY <1>1, <1>2, Induction
  <1>4. \A k \in 1..n : P(k) = Times(Times(Inv(b[1]), V(k)), b[k + 1])
    BY <1>3
  <1> QED BY <1>4

\* A batch has as many products as arguments.
LEMMA BatchMulLen ==
    ASSUME NEW xs, NEW ys, NEW s, NEW i, Len(xs) \in Nat
    PROVE  /\ Len(BatchMul(xs, ys, s, i)) = Len(xs)
           /\ BatchMul(xs, ys, s, i) = [k \in 1..Len(xs) |-> BatchMul(xs, ys, s, i)[k]]
  <1> DEFINE n == Len(xs)
             t(k) == next_triple(s, i + 8 * (k - 1))
             masked(k) == IF k <= n THEN Sub(xs[k], t(k).a) ELSE Sub(ys[k - n], t(k - n).b)
             opened == [k \in 1..2 * n |-> Open(masked(k))]
             e(k) == Add(AddPublic(MulPublic(Public(opened[k]), t(k).b),
                                   Public(Times(opened[k], opened[k + n]))),
                         Add(MulPublic(Public(opened[k + n]), t(k).a), t(k).c))
  <1>1. BatchMul(xs, ys, s, i) = [k \in 1..n |-> e(k)]
    BY DEF BatchMul
  <1> HIDE DEF e
  <1>2. Len([k \in 1..n |-> e(k)]) = n
    OBVIOUS
  <1>3. \A k \in 1..n : BatchMul(xs, ys, s, i)[k] = e(k)
    BY <1>1
  <1> QED BY <1>1, <1>2, <1>3

LEMMA BatchMulPointLen ==
    ASSUME NEW xs, NEW ys, NEW s, NEW i
    PROVE  BatchMulPointShares(xs, ys, s, i)
           = [k \in 1..Len(xs) |-> BatchMulPointShares(xs, ys, s, i)[k]]
  <1> DEFINE n == Len(xs)
             g == Public(Generator)
             t == [k \in 1..n |-> next_triple(s, i + 8 * (k - 1))]
             bG == [k \in 1..n |-> MulPoint(t[k].b, g)]
             eG == [k \in 1..n |-> Open(Sub(ys[k], bG[k]))]
             d == [k \in 1..n |-> Open(Sub(xs[k], t[k].a))]
             e(k) == Add(AddPublic(MulPublic(Public(d[k]), bG[k]),
                                   Public(Times(d[k], eG[k]))),
                         Add(MulPoint(t[k].a, Public(eG[k])), MulPoint(t[k].c, g)))
  <1>1. BatchMulPointShares(xs, ys, s, i) = [k \in 1..n |-> e(k)]
    BY DEF BatchMulPointShares
  <1> HIDE DEF e
  <1>2. \A k \in 1..n : BatchMulPointShares(xs, ys, s, i)[k] = e(k)
    BY <1>1
  <1> QED BY <1>1, <1>2

LEMMA BatchInverseLen ==
    ASSUME NEW xs, NEW s, NEW i, Len(xs) \in Nat
    PROVE  /\ BatchInverse(xs, s, i) = [k \in 1..Len(xs) |-> BatchInverse(xs, s, i)[k]]
           /\ Len(BatchInverse(xs, s, i)) = Len(xs)
  <1> DEFINE n == Len(xs)
             r == [k \in 1..n |-> Deal(Rand(s, i + 3 * k), s, i + 3 * k + 1)]
             m == BatchMul(xs, r, s, i + 3 * n + 3)
             e(k) == MulPublic(Public(Inv(Open(m[k]))), r[k])
  <1>1. BatchInverse(xs, s, i) = [k \in 1..n |-> e(k)]
    BY DEF BatchInverse
  <1> HIDE DEF e
  <1>2. \A k \in 1..n : BatchInverse(xs, s, i)[k] = e(k)
    BY <1>1
  <1>3. Len([k \in 1..n |-> e(k)]) = n
    OBVIOUS
  <1> QED BY <1>1, <1>2, <1>3

\* prefix_product shares the products of the prefixes.
THEOREM PrefixProductAuthentic ==
    ASSUME key[0] \in F, key[1] \in F, NEW s, FieldDraw(s), NEW n \in Nat,
           NEW xs, Len(xs) = n, NEW vs \in [1..n -> F],
           \A k \in 1..n : Authentic(xs[k], vs[k], F),
           \A k \in DOMAIN PrefixMasks(n, s) : PrefixMasks(n, s)[k] # Zero,
           NEW k \in 1..n
    PROVE  /\ Authentic(PrefixProduct(xs, s)[k], ProdSeq(SubSeq(vs, 1, k)), F)
           /\ PrefixProduct(xs, s) = [j \in 1..n |-> PrefixProduct(xs, s)[j]]
  <1>0. MacKey \in F
    BY Closed, CarrierFacts DEF MacKey
  <1> DEFINE m == PrefixMasks(n, s)
             b == [j \in 1..n + 1 |-> Deal(m[j], s, 5 * j + 1)]
             inv == [j \in 1..n + 1 |-> Deal(Inv(m[j]), s, 5 * j + 3)]
             left == [j \in 1..n |-> inv[j]]
             right == [j \in 1..n |-> b[j + 1]]
             last == [j \in 1..n |-> inv[j + 1]]
             partial == BatchMul(left, xs, s, 40)
             blinded == BatchMul(partial, right, s, 60)
             o == [j \in 1..n |-> Open(blinded[j])]
             prefix == [j \in 1..n |-> ProdSeq(SubSeq(o, 1, j))]
             unblind == [j \in 1..n |-> MulPublic(Public(prefix[j]), b[1])]
  <1>1. PrefixProduct(xs, s) = BatchMul(unblind, last, s, 80)
    BY DEF PrefixProduct
  <1>2. m \in [1..n + 1 -> F \ {Zero}]
    <2>1. \A j \in 1..n + 1 : 5 * j \in Nat
      OBVIOUS
    <2>2. \A j \in 1..n + 1 : Rand(s, 5 * j) \in F
      BY <2>1 DEF FieldDraw
    <2> QED BY <2>2 DEF PrefixMasks
  <1> HIDE DEF m
  <1>3. ASSUME NEW j \in 1..n + 1
        PROVE  Authentic(b[j], m[j], F) /\ Authentic(inv[j], Inv(m[j]), F)
    <2>1. m[j] \in F
      BY <1>2
    <2>2. Inv(m[j]) \in F
      BY <2>1, ScalarProducts
    <2>3. /\ Rand(s, 5 * j + 1) \in F /\ Rand(s, (5 * j + 1) + 1) \in F
          /\ Rand(s, 5 * j + 3) \in F /\ Rand(s, (5 * j + 3) + 1) \in F
      BY DEF FieldDraw
    <2>4. b[j] = Deal(m[j], s, 5 * j + 1) /\ inv[j] = Deal(Inv(m[j]), s, 5 * j + 3)
      OBVIOUS
    <2> QED BY <1>0, <2>1, <2>2, <2>3, <2>4, DealAuthentic
  <1> HIDE DEF b, inv
  <1>4. Len(left) = n /\ Len(unblind) = n
    OBVIOUS
  <1>5. Len(partial) = n
    BY <1>4, BatchMulLen
  <1>6. ASSUME NEW j \in 1..n
        PROVE  Authentic(blinded[j], Times(Times(Inv(m[j]), vs[j]), m[j + 1]), F)
    <2>1. left[j] = inv[j] /\ right[j] = b[j + 1] /\ j \in 1..n + 1 /\ j + 1 \in 1..n + 1
      OBVIOUS
    <2> HIDE DEF left, right
    <2>2. Authentic(left[j], Inv(m[j]), F) /\ Authentic(right[j], m[j + 1], F)
      BY <1>3, <2>1
    <2>3. 40 \in Nat /\ 60 \in Nat /\ Authentic(xs[j], vs[j], F)
      OBVIOUS
    <2>4. Authentic(partial[j], Times(Inv(m[j]), vs[j]), F)
      BY <1>4, <2>2, <2>3, BatchMulAuthentic
    <2> HIDE DEF partial
    <2> QED BY <1>5, <2>2, <2>3, <2>4, BatchMulAuthentic
  <1> HIDE DEF blinded
  <1>7. /\ o \in [1..n -> F]
        /\ \A j \in 1..n : o[j] = Times(Times(Inv(m[j]), vs[j]), m[j + 1])
    <2>1. ASSUME NEW j \in 1..n
          PROVE  Open(blinded[j]) = Times(Times(Inv(m[j]), vs[j]), m[j + 1])
                 /\ Open(blinded[j]) \in F
      <3> DEFINE u == Times(Times(Inv(m[j]), vs[j]), m[j + 1])
      <3>1. Authentic(blinded[j], u, F)
        BY <1>6
      <3> HIDE DEF u
      <3>2. Open(blinded[j]) = u /\ u \in F
        BY <3>1, OpenIsValue, Parts, CarrierFacts
      <3> QED BY <3>2 DEF u
    <2> QED BY <2>1
  <1> HIDE DEF o
  <1> DEFINE V == ProdSeq(SubSeq(vs, 1, k))
             i == Inv(m[1])
             l == m[k + 1]
  <1>8. prefix[k] = Times(Times(i, V), l)
    <2>1. prefix[k] = ProdSeq(SubSeq(o, 1, k))
      OBVIOUS
    <2> HIDE DEF prefix, V, i, l
    <2>2. \A j \in 1..n : ProdSeq(SubSeq(o, 1, j))
             = Times(Times(Inv(m[1]), ProdSeq(SubSeq(vs, 1, j))), m[j + 1])
      <3>1. o \in [1..n -> F]
        BY <1>7
      <3>2. \A j \in 1..n : o[j] = Times(Times(Inv(m[j]), vs[j]), m[j + 1])
        BY <1>7
      <3> QED BY ONLY n \in Nat, vs \in [1..n -> F], <1>2, <3>1, <3>2, Telescope
    <2> QED BY <2>1, <2>2 DEF V, i, l
  <1>9. V \in F
    BY ProdSeqPrefix
  <1>10. 1 \in 1..n + 1 /\ k + 1 \in 1..n + 1
    OBVIOUS
  <1>11. i \in F /\ l \in F /\ l # Zero /\ m[1] \in F /\ m[1] # Zero /\ Inv(l) \in F
    <2>1. l \in F /\ l # Zero /\ m[1] \in F /\ m[1] # Zero
      BY <1>2, <1>10
    <2> QED BY <2>1, ScalarProducts
  <1>12. last[k] = inv[k + 1] /\ unblind[k] = MulPublic(Public(prefix[k]), b[1])
    OBVIOUS
  <1>13. Authentic(last[k], Inv(l), F) /\ Authentic(b[1], m[1], F)
    BY <1>3, <1>10, <1>12
  <1> HIDE DEF V, i, l, prefix, last
  <1>14. prefix[k] \in F
    <2>1. Times(i, V) \in F
      BY <1>9, <1>11, ScalarProducts
    <2> QED BY <1>8, <1>11, <2>1, ScalarProducts
  <1>15. Authentic(unblind[k], Times(prefix[k], m[1]), F)
    BY <1>0, <1>12, <1>13, <1>14, CarrierFacts, MulPublicAuthentic
  <1> HIDE DEF unblind
  <1>16. Authentic(PrefixProduct(xs, s)[k], Times(Times(prefix[k], m[1]), Inv(l)), F)
    <2>1. 80 \in Nat
      OBVIOUS
    <2> QED BY <1>1, <1>4, <1>13, <1>15, <2>1, BatchMulAuthentic
  <1>17. Times(Times(prefix[k], m[1]), Inv(l)) = V
    <2> DEFINE c == m[1]
               j == Inv(l)
               iV == Times(i, V)
    <2>1. iV \in F /\ c \in F /\ j \in F
      BY <1>9, <1>11, ScalarProducts
    <2>2. Times(l, j) = One /\ Times(j, l) = One
      BY <1>11, ScalarProducts
    <2>3. Times(c, i) = One
      BY <1>11, ScalarProducts DEF i
    <2>4. Times(c, iV) = Times(Times(c, i), V)
      <3>1. c \in F /\ i \in F /\ V \in F
        BY <1>9, <1>11
      <3> HIDE DEF c
      <3> QED BY <3>1, ModuleAssumption, CarrierFacts
    <2>5. Times(One, V) = V
      BY <1>9, ModuleAssumption, CarrierFacts
    <2> HIDE DEF c, j, iV
    <2>6. Times(Times(Times(iV, l), c), j) = Times(c, iV)
      <3>1. Times(iV, l) \in F
        BY <1>11, <2>1, ScalarProducts
      <3>2. Times(Times(iV, l), c) = Times(c, Times(iV, l))
        BY <2>1, <3>1, FieldAssumption
      <3>3. Times(Times(c, Times(iV, l)), j) = Times(c, Times(Times(iV, l), j))
        BY <2>1, <3>1, ModuleAssumption, CarrierFacts
      <3>4. Times(Times(iV, l), j) = Times(iV, Times(l, j))
        BY <1>11, <2>1, ModuleAssumption, CarrierFacts
      <3>5. Times(iV, One) = iV
        BY <2>1, ScalarProducts
      <3> QED BY <2>2, <3>2, <3>3, <3>4, <3>5
    <2>7. Times(Times(Times(iV, l), c), j) = V
      BY <2>3, <2>4, <2>5, <2>6
    <2> QED BY <1>8, <2>7 DEF c, j, iV
  <1>18. PrefixProduct(xs, s) = [j \in 1..n |-> PrefixProduct(xs, s)[j]]
    BY <1>1, <1>4, BatchMulLen
  <1> QED BY <1>16, <1>17, <1>18 DEF V
=============================================================================
