------------------------------- MODULE Field -------------------------------
(***************************************************************************)
(* The plaintext algebra the online phase computes in: the scalar field of *)
(* a prime-order curve group and the group itself.  The source overloads   *)
(* `+`, `-` and `*` over both (online-phase/src/algebra/scalar/scalar.rs,  *)
(* online-phase/src/algebra/curve/curve.rs), which are wrappers around the *)
(* arkworks types; so do Plus, Neg and Times here.  The first argument of  *)
(* Times is always the scalar.  Both F and Points are modules over F, which*)
(* is all that linear secret sharing relies on.                            *)
(***************************************************************************)
EXTENDS Naturals, Sequences

CONSTANTS
    F,              \* the scalars
    Points,         \* the curve points
    Zero, One,      \* the field's constants
    Identity,       \* the group's neutral element
    Generator,      \* CurvePoint::generator()
    Plus(_, _),     \* field and group addition
    Neg(_),         \* field and group negation
    Times(_, _),    \* scalar * scalar and scalar * point
    Inv(_)          \* the inverse of a scalar; batch_inversion maps 0 to 0

\* The two carriers a share may range over.
Carriers == {F, Points}

Neutral(M) == IF M = F THEN Zero ELSE Identity

\* Addition makes each carrier an abelian group.
ASSUME GroupAssumption ==
    \A M \in Carriers :
        /\ Neutral(M) \in M
        /\ \A x \in M : Neg(x) \in M /\ Plus(x, Neutral(M)) = x
                        /\ Plus(x, Neg(x)) = Neutral(M)
        /\ \A x, y \in M : Plus(x, y) \in M /\ Plus(x, y) = Plus(y, x)
        /\ \A x, y, z \in M : Plus(Plus(x, y), z) = Plus(x, Plus(y, z))

\* Scalar multiplication makes each carrier a module over the field.
ASSUME ModuleAssumption ==
    \A M \in Carriers :
        /\ \A a \in F, x \in M : Times(a, x) \in M
        /\ \A x \in M : Times(One, x) = x
        /\ \A a \in F, x, y \in M :
              Times(a, Plus(x, y)) = Plus(Times(a, x), Times(a, y))
        /\ \A a, b \in F, x \in M :
              /\ Times(Plus(a, b), x) = Plus(Times(a, x), Times(b, x))
              /\ Times(Times(a, b), x) = Times(a, Times(b, x))

\* The scalars form a field; the generator is a point.
ASSUME FieldAssumption ==
    /\ One \in F /\ One # Zero /\ Generator \in Points
    /\ \A a, b \in F : Times(a, b) = Times(b, a)
    /\ Inv(Zero) = Zero
    /\ \A a \in F \ {Zero} : Inv(a) \in F /\ Times(a, Inv(a)) = One

Minus(x, y) == Plus(x, Neg(y))

\* The sum and the product of a non-empty sequence, folded from the left.
SumSeq(s) ==
    LET acc[k \in 1..Len(s)] == IF k = 1 THEN s[1] ELSE Plus(acc[k - 1], s[k])
    IN  acc[Len(s)]

ProdSeq(s) ==
    LET acc[k \in 1..Len(s)] == IF k = 1 THEN s[1] ELSE Times(acc[k - 1], s[k])
    IN  acc[Len(s)]

Power(x, e) ==
    LET acc[k \in 0..e] == IF k = 0 THEN One ELSE Times(acc[k - 1], x)
    IN  acc[e]
=============================================================================
