--------------------------- MODULE MCShareCircuit ---------------------------
(***************************************************************************)
(* ShareCircuit over the integers modulo P for both the field and a group  *)
(* of the same order, tagged so that no scalar is a point.  P = 5 tells a  *)
(* value from its negation and from its inverse.                           *)
(***************************************************************************)
EXTENDS ShareCircuit

CONSTANT P

S(n) == <<"s", n>>
Q(n) == <<"p", n>>

MCF == {S(n) : n \in 0..P - 1}
MCPoints == {Q(n) : n \in 0..P - 1}
MCZero == S(0)
MCOne == S(1)
MCIdentity == Q(0)
MCGenerator == Q(1)
MCPlus(x, y) == <<x[1], (x[2] + y[2]) % P>>
MCNeg(x) == <<x[1], (P - x[2]) % P>>
MCTimes(a, x) == <<x[1], (a[2] * x[2]) % P>>
MCInv(x) == S((x[2] * x[2] * x[2]) % P)   \* x^(P-2), for P = 5
MCRand(s, i) == S((s * (i * i + 3) + 2 * i + 1) % P)

MCKeyShares == {[p \in 0..1 |-> S(2 * p + 1)]}

MCScalarInputs == {<<S(2), S(4)>>, <<S(3)>>}
MCPointInputs == {<<Q(2)>>}
MCPublicScalars == {S(3)}
MCPublicPoints == {Q(4)}
MCCorruptions == {S(0), S(3), Q(0), Q(3)}

\* Chains of two gates over few wires, and one gate over many.
MCPrograms ==
    { [inputs |-> <<"ScalarShare">>, gates |-> 2, draws |-> {1}],
      [inputs |-> <<"ScalarShare", "ScalarShare", "Scalar", "PointShare", "Point">>,
       gates |-> 1, draws |-> {2}] }
=============================================================================
