------------------------ MODULE ShareCircuitProofs ------------------------
(***************************************************************************)
(* Every circuit over authenticated shares keeps the SPDZ invariant and    *)
(* computes what a trusted party would, for any field, group, key, program *)
(* and draws of the preprocessing phase.                                   *)
(*                                                                         *)
(* Each operation appends gates with the parties' values of them (Step).   *)
(* One invariant, CircuitInv, says what a wire's values stand for; from it *)
(* and the theorems of SharesProofs about the protocol an operation runs   *)
(* follows that the new wires stand for the gates' values in the clear     *)
(* (GateOK), which is both the invariant's next state and the step of the  *)
(* ideal circuit.                                                          *)
(***************************************************************************)
EXTENDS ShareCircuit, SharesProofs, SequenceTheorems

\* Every scalar of every draw a program may use is in the field.
DrawsInField == \A pr \in Programs : \A s \in pr.draws : FieldDraw(s)

Ops == {"input", "open", "add", "sub", "neg", "mul", "mulgen", "inverse", "div",
        "pow", "sum", "product", "xor", "msm", "modify"}
Lits == Nat \cup F \cup Points
Gate == [op : Ops, args : Seq(Nat), kind : Kinds, lit : Lits]
Cells == [Party -> F] \cup [Party -> Points]
         \cup [Party -> ShareOf(F)] \cup [Party -> ShareOf(Points)]

\* The values x of the parties stand for v, as a value of this kind.
Holds(kind, x, v) ==
    IF IsShared(kind) THEN Authentic(x, v, CarrierOf(kind))
    ELSE v \in CarrierOf(kind) /\ x = Public(v)

ClearOf(kind, x) == IF IsShared(kind) THEN Open(x) ELSE x[0]

MacSumOf(x) == Plus(x[0].mac, x[1].mac)

\* A test helper changed the MACs or the shares of an honest wire, not both.
ModifyOK(g, x) ==
    /\ IsShared(g.kind)
    /\ x \in [Party -> ShareOf(CarrierOf(g.kind))]
    /\ g.args[1] \in DOMAIN circuit
    /\ circuit[g.args[1]].op # "modify"
    /\ circuit[g.args[1]].kind = g.kind
    /\ \/ Open(x) = Open(tape[g.args[1]])
       \/ MacSumOf(x) = MacSumOf(tape[g.args[1]])

WireOK(g, x) ==
    IF g.op = "modify" THEN ModifyOK(g, x)
    ELSE Holds(g.kind, x, ClearOf(g.kind, x))

CircuitInv ==
    /\ key \in [Party -> F]
    /\ program \in Programs
    /\ circuit \in Seq(Gate)
    /\ tape \in Seq(Cells)
    /\ Len(tape) = Len(circuit)
    /\ \A w \in DOMAIN circuit : WireOK(circuit[w], tape[w])

\* The values of the wires, as the ideal circuit holds them.
Values == [w \in DOMAIN tape |-> Clear(w)]

\* The value of gate g in the clear, over the values v.
GateValue(g, v) == Ideal!Eval(g, v)

\* The power with exponent zero, for which pow returns the shared zero.
ZerothPower(g) == g.op = "pow" /\ g.kind = "ScalarShare" /\ g.lit = 0

\* The parties' values x of a new gate stand for its value in the clear.
GateOK(g, x) ==
    IF g.op = "modify" THEN ModifyOK(g, x)
    ELSE /\ Holds(g.kind, x, IF ZerothPower(g) THEN Zero ELSE GateValue(g, Values))
         /\ g.op = "pow" => g.lit \in Exponents

\* An operation appends the gates G with the values V.
Step(G, V) ==
    /\ Emit(G, V)
    /\ G \in Seq(Gate)
    /\ V \in Seq(Cells)
    /\ Len(G) = Len(V)
    /\ \A k \in DOMAIN G : GateOK(G[k], V[k])

---------------------------------------------------------------------------
(* What a step does                                                        *)

LEMMA KindFacts ==
    ASSUME NEW kind \in Kinds
    PROVE  CarrierOf(kind) \in Carriers /\ IsShared(kind) \in BOOLEAN
           /\ Neutral(Points) = Identity
  BY CarrierFacts, CircuitAssumption DEF CarrierOf, IsShared, Neutral

\* What values stand for is their clear value, and is in their carrier.
LEMMA HoldsClear ==
    ASSUME NEW kind \in Kinds, NEW x, NEW v, Holds(kind, x, v)
    PROVE  /\ ClearOf(kind, x) = v /\ v \in CarrierOf(kind)
           /\ Holds(kind, x, ClearOf(kind, x))
  <1>1. CarrierOf(kind) \in Carriers
    BY KindFacts
  <1>2. CASE IsShared(kind)
    <2>1. Authentic(x, v, CarrierOf(kind))
      BY <1>2 DEF Holds
    <2>2. Open(x) = v /\ v \in CarrierOf(kind)
      BY <1>1, <2>1, Parts, OpenIsValue
    <2> QED BY <1>2, <2>2 DEF ClearOf
  <1>3. CASE ~IsShared(kind)
    <2>1. v \in CarrierOf(kind) /\ x = Public(v)
      BY <1>3 DEF Holds
    <2>2. x[0] = v
      BY <2>1 DEF Public, Party
    <2> QED BY <1>3, <2>1, <2>2 DEF ClearOf
  <1> QED BY <1>2, <1>3

\* The values of a kind are cells.
LEMMA HoldsCell ==
    ASSUME NEW kind \in Kinds, NEW x, NEW v, Holds(kind, x, v)
    PROVE  /\ x \in Cells
           /\ x \in [Party -> IF IsShared(kind) THEN ShareOf(CarrierOf(kind))
                              ELSE CarrierOf(kind)]
  <1>1. CASE IsShared(kind)
    <2>1. x \in [Party -> ShareOf(CarrierOf(kind))]
      BY <1>1 DEF Holds, Authentic
    <2>2. CarrierOf(kind) = F \/ CarrierOf(kind) = Points
      BY DEF CarrierOf
    <2> QED BY <1>1, <2>1, <2>2 DEF Cells
  <1>2. CASE ~IsShared(kind)
    <2>1. x \in [Party -> CarrierOf(kind)]
      BY <1>2 DEF Holds, Public
    <2>2. CarrierOf(kind) = F \/ CarrierOf(kind) = Points
      BY DEF CarrierOf
    <2> QED BY <1>2, <2>1, <2>2 DEF Cells
  <1> QED BY <1>1, <1>2

\* The wires before a step are kept, the new ones come from it.
LEMMA StepWires ==
    ASSUME CircuitInv, NEW G, NEW V, Step(G, V)
    PROVE  /\ circuit' \in Seq(Gate) /\ tape' \in Seq(Cells)
           /\ Len(circuit') = Len(circuit) + Len(G) /\ Len(tape') = Len(circuit')
           /\ \A w \in 1..Len(circuit) : circuit'[w] = circuit[w] /\ tape'[w] = tape[w]
           /\ \A w \in Len(circuit) + 1..Len(circuit') :
                 /\ w - Len(circuit) \in 1..Len(G)
                 /\ circuit'[w] = G[w - Len(circuit)] /\ tape'[w] = V[w - Len(circuit)]
           /\ key' = key /\ program' = program
  <1>1. /\ circuit \in Seq(Gate) /\ tape \in Seq(Cells) /\ Len(tape) = Len(circuit)
        /\ G \in Seq(Gate) /\ V \in Seq(Cells) /\ Len(G) = Len(V)
    BY DEF CircuitInv, Step
  <1>2. circuit' = circuit \o G /\ tape' = tape \o V /\ key' = key /\ program' = program
    BY DEF Step, Emit
  <1> DEFINE n == Len(circuit)
  <1>3. n \in Nat /\ Len(G) \in Nat
    BY <1>1
  <1>4. /\ circuit \o G \in Seq(Gate)
        /\ Len(circuit \o G) = Len(circuit) + Len(G)
        /\ \A w \in 1..Len(circuit) + Len(G) :
              (circuit \o G)[w] = IF w <= Len(circuit) THEN circuit[w]
                                  ELSE G[w - Len(circuit)]
    BY <1>1, ConcatProperties
  <1>5. /\ tape \o V \in Seq(Cells)
        /\ Len(tape \o V) = Len(tape) + Len(V)
        /\ \A w \in 1..Len(tape) + Len(V) :
              (tape \o V)[w] = IF w <= Len(tape) THEN tape[w] ELSE V[w - Len(tape)]
    BY <1>1, ConcatProperties
  <1>6. ASSUME NEW w \in 1..n PROVE circuit'[w] = circuit[w] /\ tape'[w] = tape[w]
    BY <1>1, <1>2, <1>3, <1>4, <1>5
  <1>7. ASSUME NEW w \in n + 1..Len(circuit')
        PROVE  /\ w - n \in 1..Len(G)
               /\ circuit'[w] = G[w - n] /\ tape'[w] = V[w - n]
    BY <1>1, <1>2, <1>3, <1>4, <1>5
  <1> QED BY <1>1, <1>2, <1>4, <1>5, <1>6, <1>7

\* A step keeps the invariant: what a wire stands for never changes.
LEMMA StepInv ==
    ASSUME CircuitInv, NEW G, NEW V, Step(G, V)
    PROVE  CircuitInv'
  <1>1. /\ circuit' \in Seq(Gate) /\ tape' \in Seq(Cells)
        /\ Len(circuit') = Len(circuit) + Len(G) /\ Len(tape') = Len(circuit')
        /\ key' = key /\ program' = program
    BY StepWires
  <1>2. \A w \in 1..Len(circuit) : circuit'[w] = circuit[w] /\ tape'[w] = tape[w]
    BY StepWires
  <1>3. \A w \in Len(circuit) + 1..Len(circuit') :
            /\ w - Len(circuit) \in 1..Len(G)
            /\ circuit'[w] = G[w - Len(circuit)] /\ tape'[w] = V[w - Len(circuit)]
    BY StepWires
  <1>4. /\ circuit \in Seq(Gate) /\ Len(circuit) \in Nat /\ DOMAIN circuit = 1..Len(circuit)
        /\ G \in Seq(Gate) /\ Len(G) \in Nat /\ DOMAIN G = 1..Len(G)
    BY DEF CircuitInv, Step
  <1>5. DOMAIN circuit' = 1..Len(circuit') /\ Len(circuit') \in Nat
    BY <1>1
  <1>6. ASSUME NEW g, NEW x, NEW v, Holds(g, x, v) PROVE Holds(g, x, v)'
    BY <1>1, <1>6 DEF Holds, Authentic, MacKey, Open
  <1>7. ASSUME NEW g, NEW x, ModifyOK(g, x) PROVE ModifyOK(g, x)'
    BY <1>1, <1>2, <1>4, <1>5, <1>7 DEF ModifyOK, Open, MacSumOf
  <1>8. ASSUME NEW g, NEW x, WireOK(g, x) PROVE WireOK(g, x)'
    BY <1>6, <1>7, <1>8 DEF WireOK, ClearOf, Open
  <1>9. ASSUME NEW k \in DOMAIN G PROVE WireOK(G[k], V[k])
    <2>1. GateOK(G[k], V[k])
      BY DEF Step
    <2>2. G[k].kind \in Kinds
      <3>1. G[k] \in Gate
        BY <1>4
      <3> QED BY <3>1 DEF Gate
    <2> QED BY <2>1, <2>2, HoldsClear DEF GateOK, WireOK
  <1>10. ASSUME NEW w \in DOMAIN circuit' PROVE WireOK(circuit[w], tape[w])'
    <2>1. CASE w \in 1..Len(circuit)
      <3>1. PICK g, x : g = circuit[w] /\ x = tape[w]
        OBVIOUS
      <3>2. WireOK(g, x)
        BY <1>4, <2>1, <3>1 DEF CircuitInv
      <3>3. g = circuit'[w] /\ x = tape'[w]
        BY <1>2, <2>1, <3>1
      <3>4. WireOK(g, x)'
        BY <1>8, <3>2
      <3> QED BY <3>3, <3>4
    <2>2. CASE w \notin 1..Len(circuit)
      <3>1. w \in Len(circuit) + 1..Len(circuit')
        BY <1>4, <1>5, <2>2
      <3>2. PICK k \in 1..Len(G) : circuit'[w] = G[k] /\ tape'[w] = V[k]
        BY <1>3, <3>1
      <3>3. PICK g, x : g = G[k] /\ x = V[k]
        OBVIOUS
      <3>4. WireOK(g, x)
        BY <1>4, <1>9, <3>3
      <3>5. WireOK(g, x)'
        BY <1>8, <3>4
      <3> QED BY <3>2, <3>3, <3>5
    <2> QED BY <2>1, <2>2
  <1>11. (\A w \in DOMAIN circuit : WireOK(circuit[w], tape[w]))'
    BY <1>10
  <1> QED BY <1>1, <1>11 DEF CircuitInv

---------------------------------------------------------------------------
(* From an operation to a step                                             *)

GateOf(op, kind, args, lit) == [op |-> op, args |-> args, kind |-> kind, lit |-> lit]

IsBatch(b, S) == \E n \in Nat : b \in [1..n -> S]

\* The operation takes a step, and opens nothing.
Extends == (\E G, V : Step(G, V)) /\ opening' = opening

\* Every form of choosing arguments gives a batch.
LEMMA AreBatches ==
    ASSUME NEW S, NEW b
    PROVE  b \in Batches(S) \/ b \in Singles(S) \/ b \in ArgLists(S) => IsBatch(b, S)
  <1>1. ASSUME b \in Batches(S) PROVE IsBatch(b, S)
    <2>1. PICK n \in 1..(IF Room < MaxBatch THEN Room ELSE MaxBatch) : b \in [1..n -> S]
      BY <1>1 DEF Batches
    <2>2. n \in Nat
      BY <2>1
    <2> QED BY <2>1, <2>2 DEF IsBatch
  <1>2. ASSUME b \in Singles(S) PROVE IsBatch(b, S)
    <2>1. PICK x \in S : b = <<x>>
      BY <1>2 DEF Singles
    <2>2. b \in [1..1 -> S]
      BY <2>1
    <2> QED BY <2>2 DEF IsBatch
  <1>3. ASSUME b \in ArgLists(S) PROVE IsBatch(b, S)
    <2>1. PICK n \in 1..MaxBatch : b \in [1..n -> S]
      BY <1>3 DEF ArgLists
    <2>2. n \in Nat
      BY <2>1
    <2> QED BY <2>1, <2>2 DEF IsBatch
  <1> QED BY <1>1, <1>2, <1>3

\* The gates of a batch with good values make a step.
LEMMA BatchGates ==
    ASSUME NEW op \in Ops, NEW kind \in Kinds, NEW lit \in Lits, NEW n \in Nat,
           NEW b \in [1..n -> Seq(Nat)], NEW V, V = [k \in 1..n |-> V[k]],
           Emit(Gates(op, kind, b, lit), V),
           \A k \in 1..n : GateOK(GateOf(op, kind, b[k], lit), V[k])
    PROVE  \E H, U : Step(H, U)
  <1> DEFINE G == Gates(op, kind, b, lit)
  <1>1. G = [k \in 1..n |-> GateOf(op, kind, b[k], lit)]
    BY DEF Gates, GateOf
  <1> HIDE DEF G
  <1>2. ASSUME NEW k \in 1..n PROVE G[k] \in Gate /\ V[k] \in Cells /\ GateOK(G[k], V[k])
    <2>1. G[k] = GateOf(op, kind, b[k], lit)
      BY <1>1
    <2>2. G[k] \in Gate
      BY <2>1 DEF Gate, GateOf
    <2>3. GateOK(G[k], V[k]) /\ G[k].kind \in Kinds
      BY <2>1, <2>2 DEF Gate
    <2>4. V[k] \in Cells
      <3>1. CASE G[k].op = "modify"
        <4>1. V[k] \in [Party -> ShareOf(CarrierOf(G[k].kind))]
          BY <2>3, <3>1 DEF GateOK, ModifyOK
        <4>2. CarrierOf(G[k].kind) = F \/ CarrierOf(G[k].kind) = Points
          BY DEF CarrierOf
        <4> QED BY <4>1, <4>2 DEF Cells
      <3>2. CASE G[k].op # "modify"
        <4>1. PICK v : Holds(G[k].kind, V[k], v)
          BY <2>3, <3>2 DEF GateOK
        <4> QED BY <2>3, <4>1, HoldsCell
      <3> QED BY <3>1, <3>2
    <2> QED BY <2>2, <2>3, <2>4
  <1>3. G \in Seq(Gate) /\ Len(G) = n /\ DOMAIN G = 1..n
    <2>1. G \in [1..n -> Gate]
      BY <1>1, <1>2
    <2> QED BY <2>1
  <1>4. V \in Seq(Cells) /\ Len(V) = n
    <2>1. V \in [1..n -> Cells]
      BY <1>2
    <2> QED BY <2>1
  <1>5. Emit(G, V)
    BY DEF G
  <1>6. Step(G, V)
    BY <1>2, <1>3, <1>4, <1>5 DEF Step
  <1> QED BY <1>6

LEMMA BatchStep ==
    ASSUME NEW op \in Ops, NEW kind \in Kinds, NEW lit \in Lits, NEW n \in Nat,
           NEW b \in [1..n -> Seq(Nat)], NEW V, V = [k \in 1..n |-> V[k]],
           Emit(Gates(op, kind, b, lit), V), opening' = opening,
           \A k \in 1..n : GateOK(GateOf(op, kind, b[k], lit), V[k])
    PROVE  Extends
  <1>1. \E H, U : Step(H, U)
    BY BatchGates
  <1> QED BY <1>1 DEF Extends

\* What a wire of a kind holds.
LEMMA WireHolds ==
    ASSUME CircuitInv, NEW kind \in Kinds, NEW w \in Wires(kind)
    PROVE  w \in Nat /\ w \in DOMAIN tape /\ Holds(kind, tape[w], Values[w])
  <1>1. w \in DOMAIN circuit /\ circuit[w].kind = kind /\ circuit[w].op # "modify"
    BY DEF Wires
  <1>2. w \in Nat /\ w \in DOMAIN tape
    BY <1>1 DEF CircuitInv
  <1>3. Values[w] = ClearOf(kind, tape[w])
    BY <1>1, <1>2 DEF Values, Clear, ClearOf
  <1>4. Holds(kind, tape[w], ClearOf(kind, tape[w]))
    BY <1>1 DEF CircuitInv, WireOK
  <1> QED BY <1>2, <1>3, <1>4

LEMMA PairHolds ==
    ASSUME CircuitInv, NEW k1 \in Kinds, NEW k2 \in Kinds, NEW w \in Pairs(k1, k2)
    PROVE  /\ w \in Seq(Nat)
           /\ Holds(k1, tape[w[1]], Values[w[1]]) /\ Holds(k2, tape[w[2]], Values[w[2]])
  <1>1. w[1] \in Wires(k1) /\ w[2] \in Wires(k2) /\ w = <<w[1], w[2]>>
    BY DEF Pairs
  <1>2. w[1] \in Nat /\ w[2] \in Nat
    BY <1>1, WireHolds
  <1>3. <<w[1], w[2]>> \in Seq(Nat)
    BY <1>2
  <1>4. w \in Seq(Nat)
    BY <1>1, <1>3
  <1> QED BY <1>1, <1>4, WireHolds

LEMMA SingleHolds ==
    ASSUME CircuitInv, NEW kind \in Kinds, NEW w \in Singles(Wires(kind))
    PROVE  w \in Seq(Nat) /\ Holds(kind, tape[w[1]], Values[w[1]])
           /\ w[1] \in Wires(kind)
  <1>1. PICK x \in Wires(kind) : w = <<x>>
    BY DEF Singles
  <1>2. x \in Nat /\ Holds(kind, tape[x], Values[x])
    BY WireHolds
  <1>3. w \in Seq(Nat) /\ w[1] = x
    BY <1>1, <1>2
  <1> QED BY <1>2, <1>3

\* The kinds, one by one.
LEMMA HoldsKinds ==
    ASSUME NEW x, NEW v
    PROVE  /\ Holds("Scalar", x, v) <=> v \in F /\ x = Public(v)
           /\ Holds("Point", x, v) <=> v \in Points /\ x = Public(v)
           /\ Holds("ScalarShare", x, v) <=> Authentic(x, v, F)
           /\ Holds("PointShare", x, v) <=> Authentic(x, v, Points)
           /\ {"Scalar", "Point", "ScalarShare", "PointShare"} \subseteq Kinds
  BY DEF Holds, IsShared, CarrierOf, Kinds

\* The values of the wires w.
Along(v, w) == [k \in DOMAIN w |-> v[w[k]]]

\* The operations of the ideal circuit, one by one.
LEMMA EvalFacts ==
    ASSUME NEW kind, NEW w, NEW lit, NEW v
    PROVE  /\ GateValue(GateOf("input", kind, w, lit), v) = lit
           /\ GateValue(GateOf("open", kind, w, lit), v) = v[w[1]]
           /\ GateValue(GateOf("add", kind, w, lit), v) = Plus(v[w[1]], v[w[2]])
           /\ GateValue(GateOf("sub", kind, w, lit), v) = Minus(v[w[1]], v[w[2]])
           /\ GateValue(GateOf("neg", kind, w, lit), v) = Neg(v[w[1]])
           /\ GateValue(GateOf("mul", kind, w, lit), v) = Times(v[w[1]], v[w[2]])
           /\ GateValue(GateOf("mulgen", kind, w, lit), v) = Times(v[w[1]], Generator)
           /\ GateValue(GateOf("inverse", kind, w, lit), v) = Inv(v[w[1]])
           /\ GateValue(GateOf("div", kind, w, lit), v) = Times(v[w[1]], Inv(v[w[2]]))
           /\ GateValue(GateOf("pow", kind, w, lit), v) = Power(v[w[1]], lit)
           /\ GateValue(GateOf("sum", kind, w, lit), v)
              = SumSeq(Along(v, w))
           /\ GateValue(GateOf("product", kind, w, lit), v)
              = ProdSeq(Along(v, w))
           /\ GateValue(GateOf("xor", kind, w, lit), v)
              = IF v[w[1]] = v[w[2]] THEN Zero ELSE One
           /\ GateValue(GateOf("msm", kind, w, lit), v)
              = Plus(Times(v[w[1]], v[w[3]]), Times(v[w[2]], v[w[4]]))
  <1>1. GateValue(GateOf("input", kind, w, lit), v)
         = lit
    BY DEF GateValue, Ideal!Eval, GateOf
  <1>2. GateValue(GateOf("open", kind, w, lit), v)
         = v[w[1]]
    BY DEF GateValue, Ideal!Eval, GateOf
  <1>3. GateValue(GateOf("add", kind, w, lit), v)
         = Plus(v[w[1]], v[w[2]])
    BY DEF GateValue, Ideal!Eval, GateOf
  <1>4. GateValue(GateOf("sub", kind, w, lit), v)
         = Minus(v[w[1]], v[w[2]])
    BY DEF GateValue, Ideal!Eval, GateOf, Minus, Ideal!Minus
  <1>5. GateValue(GateOf("neg", kind, w, lit), v)
         = Neg(v[w[1]])
    BY DEF GateValue, Ideal!Eval, GateOf
  <1>6. GateValue(GateOf("mul", kind, w, lit), v)
         = Times(v[w[1]], v[w[2]])
    BY DEF GateValue, Ideal!Eval, GateOf
  <1>7. GateValue(GateOf("mulgen", kind, w, lit), v)
         = Times(v[w[1]], Generator)
    BY DEF GateValue, Ideal!Eval, GateOf
  <1>8. GateValue(GateOf("inverse", kind, w, lit), v)
         = Inv(v[w[1]])
    BY DEF GateValue, Ideal!Eval, GateOf
  <1>9. GateValue(GateOf("div", kind, w, lit), v)
         = Times(v[w[1]], Inv(v[w[2]]))
    BY DEF GateValue, Ideal!Eval, GateOf
  <1>10. GateValue(GateOf("xor", kind, w, lit), v)
         = IF v[w[1]] = v[w[2]] THEN Zero ELSE One
    BY DEF GateValue, Ideal!Eval, GateOf
  <1>11. GateValue(GateOf("msm", kind, w, lit), v)
         = Plus(Times(v[w[1]], v[w[3]]), Times(v[w[2]], v[w[4]]))
    BY DEF GateValue, Ideal!Eval, GateOf
  <1>12. GateValue(GateOf("pow", kind, w, lit), v)
         = Power(v[w[1]], lit)
    <2>1. GateValue(GateOf("pow", kind, w, lit), v)
          = Ideal!Power(v[w[1]], lit)
      BY DEF GateValue, Ideal!Eval, GateOf, Along
    <2> QED BY <2>1 DEF Power, Ideal!Power
  <1>13. GateValue(GateOf("sum", kind, w, lit), v)
         = SumSeq(Along(v, w))
    <2>1. GateValue(GateOf("sum", kind, w, lit), v)
          = Ideal!SumSeq(Along(v, w))
      BY DEF GateValue, Ideal!Eval, GateOf, Along
    <2> QED BY <2>1 DEF SumSeq, Ideal!SumSeq
  <1>14. GateValue(GateOf("product", kind, w, lit), v)
         = ProdSeq(Along(v, w))
    <2>1. GateValue(GateOf("product", kind, w, lit), v)
          = Ideal!ProdSeq(Along(v, w))
      BY DEF GateValue, Ideal!Eval, GateOf, Along
    <2> QED BY <2>1 DEF ProdSeq, Ideal!ProdSeq
  <1> QED BY <1>1, <1>2, <1>3, <1>4, <1>5, <1>6, <1>7, <1>8, <1>9, <1>10, <1>11, <1>12, <1>13, <1>14

\* A of each element of b.
Each(A, b) == [k \in DOMAIN b |-> A[b[k]]]

\* An operation whose k-th result is A of its k-th arguments, where A stands
\* for the gate's value, takes a step.
LEMMA FunctionStep ==
    ASSUME NEW op \in Ops, op # "modify", op # "pow", NEW kind \in Kinds,
           NEW S, NEW A, NEW b, IsBatch(b, S),
           Emit(Gates(op, kind, b, NoLit), Each(A, b)),
           opening' = opening,
           \A w \in S : w \in Seq(Nat)
                        /\ Holds(kind, A[w], GateValue(GateOf(op, kind, w, NoLit), Values))
    PROVE  Extends
  <1>1. PICK n \in Nat : b \in [1..n -> S]
    BY DEF IsBatch
  <1> DEFINE V == Each(A, b)
  <1>2. DOMAIN b = 1..n /\ b \in [1..n -> Seq(Nat)]
    BY <1>1
  <1>3. V = [k \in 1..n |-> A[b[k]]]
    BY <1>2 DEF Each
  <1>4. ASSUME NEW k \in 1..n PROVE GateOK(GateOf(op, kind, b[k], NoLit), V[k])
    <2> DEFINE g == GateOf(op, kind, b[k], NoLit)
    <2>1. g.op = op /\ g.kind = kind
      BY DEF GateOf
    <2>2. V[k] = A[b[k]] /\ b[k] \in S
      BY <1>1, <1>3
    <2>3. Holds(kind, V[k], GateValue(g, Values))
      BY <2>2
    <2> HIDE DEF g, V
    <2>4. ~ZerothPower(g)
      BY <2>1 DEF ZerothPower
    <2>5. GateOK(g, V[k])
      BY <2>1, <2>3, <2>4 DEF GateOK
    <2> QED BY <2>5 DEF g
  <1>5. NoLit \in Lits
    BY DEF NoLit, Lits
  <1>6. Emit(Gates(op, kind, b, NoLit), V)
    OBVIOUS
  <1>7. V = [k \in 1..n |-> V[k]]
    BY <1>3
  <1> HIDE DEF V
  <1> QED BY <1>2, <1>7, <1>4, <1>5, <1>6, BatchStep

---------------------------------------------------------------------------
(* The operations on public values                                         *)

LEMMA ScalarResultAddStep ==
    ASSUME CircuitInv, ScalarResultAdd PROVE Extends
  <1> DEFINE S == Pairs("Scalar", "Scalar")
             A == [w \in S |-> [p \in Party |-> Plus(tape[w[1]][p], tape[w[2]][p])]]
  <1>1. PICK b \in Batches(S) :
            /\ Emit(Gates("add", "Scalar", b, NoLit), [k \in DOMAIN b |-> [p \in Party |-> Plus(tape[b[k][1]][p], tape[b[k][2]][p])]])
            /\ opening' = opening
    BY DEF ScalarResultAdd, Compute
  <1>2. IsBatch(b, S)
    BY AreBatches
  <1>3. [k \in DOMAIN b |-> [p \in Party |-> Plus(tape[b[k][1]][p], tape[b[k][2]][p])]] = Each(A, b)
    <2>1. \A k \in DOMAIN b : b[k] \in S
      BY <1>2 DEF IsBatch
    <2> QED BY <2>1 DEF Each
  <1>4. ASSUME NEW w \in S
        PROVE  /\ w \in Seq(Nat)
               /\ Holds("Scalar", A[w], GateValue(GateOf("add", "Scalar", w, NoLit), Values))
    <2>1. w \in Seq(Nat) /\ Holds("Scalar", tape[w[1]], Values[w[1]])
          /\ Holds("Scalar", tape[w[2]], Values[w[2]])
      BY PairHolds, HoldsKinds
    <2>2. A[w] = Public(Plus(Values[w[1]], Values[w[2]]))
      BY <2>1, HoldsKinds DEF Public
    <2>3. Plus(Values[w[1]], Values[w[2]]) \in F
      BY <2>1, HoldsKinds, Closed, CarrierFacts
    <2>4. GateValue(GateOf("add", "Scalar", w, NoLit), Values) = Plus(Values[w[1]], Values[w[2]])
      BY EvalFacts
    <2>5. Holds("Scalar", A[w], Plus(Values[w[1]], Values[w[2]]))
      BY <2>2, <2>3, HoldsKinds
    <2> QED BY <2>1, <2>4, <2>5
  <1> HIDE DEF S, A
  <1>5. Emit(Gates("add", "Scalar", b, NoLit), Each(A, b)) /\ opening' = opening
    BY <1>1, <1>3
  <1>6. "add" \in Ops /\ "Scalar" \in Kinds
    BY DEF Ops, Kinds
  <1> QED BY <1>2, <1>4, <1>5, <1>6, FunctionStep

LEMMA ScalarResultSubStep ==
    ASSUME CircuitInv, ScalarResultSub PROVE Extends
  <1> DEFINE S == Pairs("Scalar", "Scalar")
             A == [w \in S |-> [p \in Party |-> Minus(tape[w[1]][p], tape[w[2]][p])]]
  <1>1. PICK b \in Batches(S) :
            /\ Emit(Gates("sub", "Scalar", b, NoLit), [k \in DOMAIN b |-> [p \in Party |-> Minus(tape[b[k][1]][p], tape[b[k][2]][p])]])
            /\ opening' = opening
    BY DEF ScalarResultSub, Compute
  <1>2. IsBatch(b, S)
    BY AreBatches
  <1>3. [k \in DOMAIN b |-> [p \in Party |-> Minus(tape[b[k][1]][p], tape[b[k][2]][p])]] = Each(A, b)
    <2>1. \A k \in DOMAIN b : b[k] \in S
      BY <1>2 DEF IsBatch
    <2> QED BY <2>1 DEF Each
  <1>4. ASSUME NEW w \in S
        PROVE  /\ w \in Seq(Nat)
               /\ Holds("Scalar", A[w], GateValue(GateOf("sub", "Scalar", w, NoLit), Values))
    <2>1. w \in Seq(Nat) /\ Holds("Scalar", tape[w[1]], Values[w[1]])
          /\ Holds("Scalar", tape[w[2]], Values[w[2]])
      BY PairHolds, HoldsKinds
    <2>2. A[w] = Public(Minus(Values[w[1]], Values[w[2]]))
      BY <2>1, HoldsKinds DEF Public
    <2>3. Minus(Values[w[1]], Values[w[2]]) \in F
      BY <2>1, HoldsKinds, Closed, CarrierFacts
    <2>4. GateValue(GateOf("sub", "Scalar", w, NoLit), Values) = Minus(Values[w[1]], Values[w[2]])
      BY EvalFacts
    <2>5. Holds("Scalar", A[w], Minus(Values[w[1]], Values[w[2]]))
      BY <2>2, <2>3, HoldsKinds
    <2> QED BY <2>1, <2>4, <2>5
  <1> HIDE DEF S, A
  <1>5. Emit(Gates("sub", "Scalar", b, NoLit), Each(A, b)) /\ opening' = opening
    BY <1>1, <1>3
  <1>6. "sub" \in Ops /\ "Scalar" \in Kinds
    BY DEF Ops, Kinds
  <1> QED BY <1>2, <1>4, <1>5, <1>6, FunctionStep

LEMMA ScalarResultMulStep ==
    ASSUME CircuitInv, ScalarResultMul PROVE Extends
  <1> DEFINE S == Pairs("Scalar", "Scalar")
             A == [w \in S |-> [p \in Party |-> Times(tape[w[1]][p], tape[w[2]][p])]]
  <1>1. PICK b \in Batches(S) :
            /\ Emit(Gates("mul", "Scalar", b, NoLit), [k \in DOMAIN b |-> [p \in Party |-> Times(tape[b[k][1]][p], tape[b[k][2]][p])]])
            /\ opening' = opening
    BY DEF ScalarResultMul, Compute
  <1>2. IsBatch(b, S)
    BY AreBatches
  <1>3. [k \in DOMAIN b |-> [p \in Party |-> Times(tape[b[k][1]][p], tape[b[k][2]][p])]] = Each(A, b)
    <2>1. \A k \in DOMAIN b : b[k] \in S
      BY <1>2 DEF IsBatch
    <2> QED BY <2>1 DEF Each
  <1>4. ASSUME NEW w \in S
        PROVE  /\ w \in Seq(Nat)
               /\ Holds("Scalar", A[w], GateValue(GateOf("mul", "Scalar", w, NoLit), Values))
    <2>1. w \in Seq(Nat) /\ Holds("Scalar", tape[w[1]], Values[w[1]])
          /\ Holds("Scalar", tape[w[2]], Values[w[2]])
      BY PairHolds, HoldsKinds
    <2>2. A[w] = Public(Times(Values[w[1]], Values[w[2]]))
      BY <2>1, HoldsKinds DEF Public
    <2>3. Times(Values[w[1]], Values[w[2]]) \in F
      BY <2>1, HoldsKinds, Closed, CarrierFacts
    <2>4. GateValue(GateOf("mul", "Scalar", w, NoLit), Values) = Times(Values[w[1]], Values[w[2]])
      BY EvalFacts
    <2>5. Holds("Scalar", A[w], Times(Values[w[1]], Values[w[2]]))
      BY <2>2, <2>3, HoldsKinds
    <2> QED BY <2>1, <2>4, <2>5
  <1> HIDE DEF S, A
  <1>5. Emit(Gates("mul", "Scalar", b, NoLit), Each(A, b)) /\ opening' = opening
    BY <1>1, <1>3
  <1>6. "mul" \in Ops /\ "Scalar" \in Kinds
    BY DEF Ops, Kinds
  <1> QED BY <1>2, <1>4, <1>5, <1>6, FunctionStep

LEMMA ScalarResultNegStep ==
    ASSUME CircuitInv, ScalarResultNeg PROVE Extends
  <1> DEFINE S == Singles(Wires("Scalar"))
             A == [w \in S |-> [p \in Party |-> Neg(tape[w[1]][p])]]
  <1>1. PICK b \in Batches(S) :
            /\ Emit(Gates("neg", "Scalar", b, NoLit), [k \in DOMAIN b |-> [p \in Party |-> Neg(tape[b[k][1]][p])]])
            /\ opening' = opening
    BY DEF ScalarResultNeg, Compute
  <1>2. IsBatch(b, S)
    BY AreBatches
  <1>3. [k \in DOMAIN b |-> [p \in Party |-> Neg(tape[b[k][1]][p])]] = Each(A, b)
    <2>1. \A k \in DOMAIN b : b[k] \in S
      BY <1>2 DEF IsBatch
    <2> QED BY <2>1 DEF Each
  <1>4. ASSUME NEW w \in S
        PROVE  /\ w \in Seq(Nat)
               /\ Holds("Scalar", A[w], GateValue(GateOf("neg", "Scalar", w, NoLit), Values))
    <2>1. w \in Seq(Nat) /\ Holds("Scalar", tape[w[1]], Values[w[1]])
      BY SingleHolds, HoldsKinds
    <2>2. A[w] = Public(Neg(Values[w[1]]))
      BY <2>1, HoldsKinds DEF Public
    <2>3. Neg(Values[w[1]]) \in F
      BY <2>1, HoldsKinds, Closed, CarrierFacts
    <2>4. GateValue(GateOf("neg", "Scalar", w, NoLit), Values) = Neg(Values[w[1]])
      BY EvalFacts
    <2>5. Holds("Scalar", A[w], Neg(Values[w[1]]))
      BY <2>2, <2>3, HoldsKinds
    <2> QED BY <2>1, <2>4, <2>5
  <1> HIDE DEF S, A
  <1>5. Emit(Gates("neg", "Scalar", b, NoLit), Each(A, b)) /\ opening' = opening
    BY <1>1, <1>3
  <1>6. "neg" \in Ops /\ "Scalar" \in Kinds
    BY DEF Ops, Kinds
  <1> QED BY <1>2, <1>4, <1>5, <1>6, FunctionStep

LEMMA ScalarResultInverseStep ==
    ASSUME CircuitInv, ScalarResultInverse PROVE Extends
  <1> DEFINE S == Singles(Wires("Scalar"))
             A == [w \in S |-> [p \in Party |-> Inv(tape[w[1]][p])]]
  <1>1. PICK b \in Singles(S) :
            /\ Emit(Gates("inverse", "Scalar", b, NoLit), [k \in DOMAIN b |-> [p \in Party |-> Inv(tape[b[k][1]][p])]])
            /\ opening' = opening
    BY DEF ScalarResultInverse, Compute, InvertAt
  <1>2. IsBatch(b, S)
    BY AreBatches
  <1>3. [k \in DOMAIN b |-> [p \in Party |-> Inv(tape[b[k][1]][p])]] = Each(A, b)
    <2>1. \A k \in DOMAIN b : b[k] \in S
      BY <1>2 DEF IsBatch
    <2> QED BY <2>1 DEF Each
  <1>4. ASSUME NEW w \in S
        PROVE  /\ w \in Seq(Nat)
               /\ Holds("Scalar", A[w], GateValue(GateOf("inverse", "Scalar", w, NoLit), Values))
    <2>1. w \in Seq(Nat) /\ Holds("Scalar", tape[w[1]], Values[w[1]])
      BY SingleHolds, HoldsKinds
    <2>2. A[w] = Public(Inv(Values[w[1]]))
      BY <2>1, HoldsKinds DEF Public
    <2>3. Inv(Values[w[1]]) \in F
      BY <2>1, HoldsKinds, ScalarProducts
    <2>4. GateValue(GateOf("inverse", "Scalar", w, NoLit), Values) = Inv(Values[w[1]])
      BY EvalFacts
    <2>5. Holds("Scalar", A[w], Inv(Values[w[1]]))
      BY <2>2, <2>3, HoldsKinds
    <2> QED BY <2>1, <2>4, <2>5
  <1> HIDE DEF S, A
  <1>5. Emit(Gates("inverse", "Scalar", b, NoLit), Each(A, b)) /\ opening' = opening
    BY <1>1, <1>3
  <1>6. "inverse" \in Ops /\ "Scalar" \in Kinds
    BY DEF Ops, Kinds
  <1> QED BY <1>2, <1>4, <1>5, <1>6, FunctionStep

LEMMA ScalarResultBatchInverseStep ==
    ASSUME CircuitInv, ScalarResultBatchInverse PROVE Extends
  <1> DEFINE S == Singles(Wires("Scalar"))
             A == [w \in S |-> [p \in Party |-> Inv(tape[w[1]][p])]]
  <1>1. PICK b \in Batches(S) :
            /\ Emit(Gates("inverse", "Scalar", b, NoLit), [k \in DOMAIN b |-> [p \in Party |-> Inv(tape[b[k][1]][p])]])
            /\ opening' = opening
    BY DEF ScalarResultBatchInverse, Compute, InvertAt
  <1>2. IsBatch(b, S)
    BY AreBatches
  <1>3. [k \in DOMAIN b |-> [p \in Party |-> Inv(tape[b[k][1]][p])]] = Each(A, b)
    <2>1. \A k \in DOMAIN b : b[k] \in S
      BY <1>2 DEF IsBatch
    <2> QED BY <2>1 DEF Each
  <1>4. ASSUME NEW w \in S
        PROVE  /\ w \in Seq(Nat)
               /\ Holds("Scalar", A[w], GateValue(GateOf("inverse", "Scalar", w, NoLit), Values))
    <2>1. w \in Seq(Nat) /\ Holds("Scalar", tape[w[1]], Values[w[1]])
      BY SingleHolds, HoldsKinds
    <2>2. A[w] = Public(Inv(Values[w[1]]))
      BY <2>1, HoldsKinds DEF Public
    <2>3. Inv(Values[w[1]]) \in F
      BY <2>1, HoldsKinds, ScalarProducts
    <2>4. GateValue(GateOf("inverse", "Scalar", w, NoLit), Values) = Inv(Values[w[1]])
      BY EvalFacts
    <2>5. Holds("Scalar", A[w], Inv(Values[w[1]]))
      BY <2>2, <2>3, HoldsKinds
    <2> QED BY <2>1, <2>4, <2>5
  <1> HIDE DEF S, A
  <1>5. Emit(Gates("inverse", "Scalar", b, NoLit), Each(A, b)) /\ opening' = opening
    BY <1>1, <1>3
  <1>6. "inverse" \in Ops /\ "Scalar" \in Kinds
    BY DEF Ops, Kinds
  <1> QED BY <1>2, <1>4, <1>5, <1>6, FunctionStep

LEMMA CurvePointResultAddStep ==
    ASSUME CircuitInv, CurvePointResultAdd PROVE Extends
  <1> DEFINE S == Pairs("Point", "Point")
             A == [w \in S |-> [p \in Party |-> Plus(tape[w[1]][p], tape[w[2]][p])]]
  <1>1. PICK b \in Batches(S) :
            /\ Emit(Gates("add", "Point", b, NoLit), [k \in DOMAIN b |-> [p \in Party |-> Plus(tape[b[k][1]][p], tape[b[k][2]][p])]])
            /\ opening' = opening
    BY DEF CurvePointResultAdd, Compute
  <1>2. IsBatch(b, S)
    BY AreBatches
  <1>3. [k \in DOMAIN b |-> [p \in Party |-> Plus(tape[b[k][1]][p], tape[b[k][2]][p])]] = Each(A, b)
    <2>1. \A k \in DOMAIN b : b[k] \in S
      BY <1>2 DEF IsBatch
    <2> QED BY <2>1 DEF Each
  <1>4. ASSUME NEW w \in S
        PROVE  /\ w \in Seq(Nat)
               /\ Holds("Point", A[w], GateValue(GateOf("add", "Point", w, NoLit), Values))
    <2>1. w \in Seq(Nat) /\ Holds("Point", tape[w[1]], Values[w[1]])
          /\ Holds("Point", tape[w[2]], Values[w[2]])
      BY PairHolds, HoldsKinds
    <2>2. A[w] = Public(Plus(Values[w[1]], Values[w[2]]))
      BY <2>1, HoldsKinds DEF Public
    <2>3. Plus(Values[w[1]], Values[w[2]]) \in Points
      BY <2>1, HoldsKinds, Closed, CarrierFacts
    <2>4. GateValue(GateOf("add", "Point", w, NoLit), Values) = Plus(Values[w[1]], Values[w[2]])
      BY EvalFacts
    <2>5. Holds("Point", A[w], Plus(Values[w[1]], Values[w[2]]))
      BY <2>2, <2>3, HoldsKinds
    <2> QED BY <2>1, <2>4, <2>5
  <1> HIDE DEF S, A
  <1>5. Emit(Gates("add", "Point", b, NoLit), Each(A, b)) /\ opening' = opening
    BY <1>1, <1>3
  <1>6. "add" \in Ops /\ "Point" \in Kinds
    BY DEF Ops, Kinds
  <1> QED BY <1>2, <1>4, <1>5, <1>6, FunctionStep

LEMMA CurvePointResultSubStep ==
    ASSUME CircuitInv, CurvePointResultSub PROVE Extends
  <1> DEFINE S == Pairs("Point", "Point")
             A == [w \in S |-> [p \in Party |-> Minus(tape[w[1]][p], tape[w[2]][p])]]
  <1>1. PICK b \in Batches(S) :
            /\ Emit(Gates("sub", "Point", b, NoLit), [k \in DOMAIN b |-> [p \in Party |-> Minus(tape[b[k][1]][p], tape[b[k][2]][p])]])
            /\ opening' = opening
    BY DEF CurvePointResultSub, Compute
  <1>2. IsBatch(b, S)
    BY AreBatches
  <1>3. [k \in DOMAIN b |-> [p \in Party |-> Minus(tape[b[k][1]][p], tape[b[k][2]][p])]] = Each(A, b)
    <2>1. \A k \in DOMAIN b : b[k] \in S
      BY <1>2 DEF IsBatch
    <2> QED BY <2>1 DEF Each
  <1>4. ASSUME NEW w \in S
        PROVE  /\ w \in Seq(Nat)
               /\ Holds("Point", A[w], GateValue(GateOf("sub", "Point", w, NoLit), Values))
    <2>1. w \in Seq(Nat) /\ Holds("Point", tape[w[1]], Values[w[1]])
          /\ Holds("Point", tape[w[2]], Values[w[2]])
      BY PairHolds, HoldsKinds
    <2>2. A[w] = Public(Minus(Values[w[1]], Values[w[2]]))
      BY <2>1, HoldsKinds DEF Public
    <2>3. Minus(Values[w[1]], Values[w[2]]) \in Points
      BY <2>1, HoldsKinds, Closed, CarrierFacts
    <2>4. GateValue(GateOf("sub", "Point", w, NoLit), Values) = Minus(Values[w[1]], Values[w[2]])
      BY EvalFacts
    <2>5. Holds("Point", A[w], Minus(Values[w[1]], Values[w[2]]))
      BY <2>2, <2>3, HoldsKinds
    <2> QED BY <2>1, <2>4, <2>5
  <1> HIDE DEF S, A
  <1>5. Emit(Gates("sub", "Point", b, NoLit), Each(A, b)) /\ opening' = opening
    BY <1>1, <1>3
  <1>6. "sub" \in Ops /\ "Point" \in Kinds
    BY DEF Ops, Kinds
  <1> QED BY <1>2, <1>4, <1>5, <1>6, FunctionStep

LEMMA CurvePointResultMulStep ==
    ASSUME CircuitInv, CurvePointResultMul PROVE Extends
  <1> DEFINE S == Pairs("Scalar", "Point")
             A == [w \in S |-> [p \in Party |-> Times(tape[w[1]][p], tape[w[2]][p])]]
  <1>1. PICK b \in Batches(S) :
            /\ Emit(Gates("mul", "Point", b, NoLit), [k \in DOMAIN b |-> [p \in Party |-> Times(tape[b[k][1]][p], tape[b[k][2]][p])]])
            /\ opening' = opening
    BY DEF CurvePointResultMul, Compute
  <1>2. IsBatch(b, S)
    BY AreBatches
  <1>3. [k \in DOMAIN b |-> [p \in Party |-> Times(tape[b[k][1]][p], tape[b[k][2]][p])]] = Each(A, b)
    <2>1. \A k \in DOMAIN b : b[k] \in S
      BY <1>2 DEF IsBatch
    <2> QED BY <2>1 DEF Each
  <1>4. ASSUME NEW w \in S
        PROVE  /\ w \in Seq(Nat)
               /\ Holds("Point", A[w], GateValue(GateOf("mul", "Point", w, NoLit), Values))
    <2>1. w \in Seq(Nat) /\ Holds("Scalar", tape[w[1]], Values[w[1]])
          /\ Holds("Point", tape[w[2]], Values[w[2]])
      BY PairHolds, HoldsKinds
    <2>2. A[w] = Public(Times(Values[w[1]], Values[w[2]]))
      BY <2>1, HoldsKinds DEF Public
    <2>3. Times(Values[w[1]], Values[w[2]]) \in Points
      BY <2>1, HoldsKinds, Closed, CarrierFacts
    <2>4. GateValue(GateOf("mul", "Point", w, NoLit), Values) = Times(Values[w[1]], Values[w[2]])
      BY EvalFacts
    <2>5. Holds("Point", A[w], Times(Values[w[1]], Values[w[2]]))
      BY <2>2, <2>3, HoldsKinds
    <2> QED BY <2>1, <2>4, <2>5
  <1> HIDE DEF S, A
  <1>5. Emit(Gates("mul", "Point", b, NoLit), Each(A, b)) /\ opening' = opening
    BY <1>1, <1>3
  <1>6. "mul" \in Ops /\ "Point" \in Kinds
    BY DEF Ops, Kinds
  <1> QED BY <1>2, <1>4, <1>5, <1>6, FunctionStep

LEMMA CurvePointResultNegStep ==
    ASSUME CircuitInv, CurvePointResultNeg PROVE Extends
  <1> DEFINE S == Singles(Wires("Point"))
             A == [w \in S |-> [p \in Party |-> Neg(tape[w[1]][p])]]
  <1>1. PICK b \in Batches(S) :
            /\ Emit(Gates("neg", "Point", b, NoLit), [k \in DOMAIN b |-> [p \in Party |-> Neg(tape[b[k][1]][p])]])
            /\ opening' = opening
    BY DEF CurvePointResultNeg, Compute
  <1>2. IsBatch(b, S)
    BY AreBatches
  <1>3. [k \in DOMAIN b |-> [p \in Party |-> Neg(tape[b[k][1]][p])]] = Each(A, b)
    <2>1. \A k \in DOMAIN b : b[k] \in S
      BY <1>2 DEF IsBatch
    <2> QED BY <2>1 DEF Each
  <1>4. ASSUME NEW w \in S
        PROVE  /\ w \in Seq(Nat)
               /\ Holds("Point", A[w], GateValue(GateOf("neg", "Point", w, NoLit), Values))
    <2>1. w \in Seq(Nat) /\ Holds("Point", tape[w[1]], Values[w[1]])
      BY SingleHolds, HoldsKinds
    <2>2. A[w] = Public(Neg(Values[w[1]]))
      BY <2>1, HoldsKinds DEF Public
    <2>3. Neg(Values[w[1]]) \in Points
      BY <2>1, HoldsKinds, Closed, CarrierFacts
    <2>4. GateValue(GateOf("neg", "Point", w, NoLit), Values) = Neg(Values[w[1]])
      BY EvalFacts
    <2>5. Holds("Point", A[w], Neg(Values[w[1]]))
      BY <2>2, <2>3, HoldsKinds
    <2> QED BY <2>1, <2>4, <2>5
  <1> HIDE DEF S, A
  <1>5. Emit(Gates("neg", "Point", b, NoLit), Each(A, b)) /\ opening' = opening
    BY <1>1, <1>3
  <1>6. "neg" \in Ops /\ "Point" \in Kinds
    BY DEF Ops, Kinds
  <1> QED BY <1>2, <1>4, <1>5, <1>6, FunctionStep

---------------------------------------------------------------------------
(* The operations on shares                                                *)

LEMMA KeyFacts ==
    ASSUME CircuitInv
    PROVE  key[0] \in F /\ key[1] \in F /\ MacKey \in F
  <1>1. key[0] \in F /\ key[1] \in F
    BY DEF CircuitInv, Party
  <1> QED BY <1>1, Closed, CarrierFacts DEF MacKey

LEMMA DrawFacts ==
    ASSUME CircuitInv, DrawsInField, NEW s \in program.draws PROVE FieldDraw(s)
  BY DEF CircuitInv, DrawsInField

LEMMA ScalarAddPublicStep ==
    ASSUME CircuitInv, ScalarAddPublic PROVE Extends
  <1> DEFINE S == Pairs("ScalarShare", "Scalar")
  <1>1. PICK b \in Singles(S) :
            /\ Emit(Gates("add", "ScalarShare", b, NoLit),
                    [k \in DOMAIN b |-> AddPublic(tape[b[k][1]], tape[b[k][2]])])
            /\ opening' = opening
    BY DEF ScalarAddPublic, Compute
  <1>2. IsBatch(b, S)
    BY AreBatches
  <1> DEFINE A == [w \in S |-> AddPublic(tape[w[1]], tape[w[2]])]
  <1>3. [k \in DOMAIN b |-> AddPublic(tape[b[k][1]], tape[b[k][2]])] = Each(A, b)
    <2>1. \A k \in DOMAIN b : b[k] \in S
      BY <1>2 DEF IsBatch
    <2> QED BY <2>1 DEF Each
  <1>4. ASSUME NEW w \in S
        PROVE  /\ w \in Seq(Nat)
               /\ Holds("ScalarShare", A[w], GateValue(GateOf("add", "ScalarShare", w, NoLit), Values))
    <2>1. w \in Seq(Nat) /\ Holds("ScalarShare", tape[w[1]], Values[w[1]])
          /\ Holds("Scalar", tape[w[2]], Values[w[2]])
      BY PairHolds, HoldsKinds
    <2>2. PICK x, y, u, v : /\ x = tape[w[1]] /\ u = Values[w[1]]
                            /\ y = tape[w[2]] /\ v = Values[w[2]]
      OBVIOUS
    <2>3. Authentic(x, u, F) /\ v \in F /\ y = Public(v)
      BY <2>1, <2>2, HoldsKinds
    <2>4. Authentic(AddPublic(x, y), Plus(u, v), F)
      BY <2>3, KeyFacts, CarrierFacts, AddPublicAuthentic
    <2>5. A[w] = AddPublic(x, y)
      BY <2>2
    <2>6. GateValue(GateOf("add", "ScalarShare", w, NoLit), Values) = Plus(u, v)
      BY <2>2, EvalFacts
    <2> QED BY <2>1, <2>4, <2>5, <2>6, HoldsKinds
  <1> HIDE DEF S, A
  <1>5. Emit(Gates("add", "ScalarShare", b, NoLit), Each(A, b)) /\ opening' = opening
    BY <1>1, <1>3
  <1>6. "add" \in Ops /\ "ScalarShare" \in Kinds
    BY DEF Ops, Kinds
  <1> QED BY <1>2, <1>4, <1>5, <1>6, FunctionStep

LEMMA ScalarAddStep ==
    ASSUME CircuitInv, ScalarAdd PROVE Extends
  <1> DEFINE S == Pairs("ScalarShare", "ScalarShare")
  <1>1. PICK b \in Batches(S) :
            /\ Emit(Gates("add", "ScalarShare", b, NoLit),
                    [k \in DOMAIN b |-> Add(tape[b[k][1]], tape[b[k][2]])])
            /\ opening' = opening
    BY DEF ScalarAdd, Compute
  <1>2. IsBatch(b, S)
    BY AreBatches
  <1> DEFINE A == [w \in S |-> Add(tape[w[1]], tape[w[2]])]
  <1>3. [k \in DOMAIN b |-> Add(tape[b[k][1]], tape[b[k][2]])] = Each(A, b)
    <2>1. \A k \in DOMAIN b : b[k] \in S
      BY <1>2 DEF IsBatch
    <2> QED BY <2>1 DEF Each
  <1>4. ASSUME NEW w \in S
        PROVE  /\ w \in Seq(Nat)
               /\ Holds("ScalarShare", A[w], GateValue(GateOf("add", "ScalarShare", w, NoLit), Values))
    <2>1. w \in Seq(Nat) /\ Holds("ScalarShare", tape[w[1]], Values[w[1]])
          /\ Holds("ScalarShare", tape[w[2]], Values[w[2]])
      BY PairHolds, HoldsKinds
    <2>2. PICK x, y, u, v : /\ x = tape[w[1]] /\ u = Values[w[1]]
                            /\ y = tape[w[2]] /\ v = Values[w[2]]
      OBVIOUS
    <2>3. Authentic(x, u, F) /\ Authentic(y, v, F)
      BY <2>1, <2>2, HoldsKinds
    <2>4. Authentic(Add(x, y), Plus(u, v), F)
      BY <2>3, KeyFacts, CarrierFacts, AddAuthentic
    <2>5. A[w] = Add(x, y)
      BY <2>2
    <2>6. GateValue(GateOf("add", "ScalarShare", w, NoLit), Values) = Plus(u, v)
      BY <2>2, EvalFacts
    <2> QED BY <2>1, <2>4, <2>5, <2>6, HoldsKinds
  <1> HIDE DEF S, A
  <1>5. Emit(Gates("add", "ScalarShare", b, NoLit), Each(A, b)) /\ opening' = opening
    BY <1>1, <1>3
  <1>6. "add" \in Ops /\ "ScalarShare" \in Kinds
    BY DEF Ops, Kinds
  <1> QED BY <1>2, <1>4, <1>5, <1>6, FunctionStep

LEMMA ScalarBatchAddPublicStep ==
    ASSUME CircuitInv, ScalarBatchAddPublic PROVE Extends
  <1> DEFINE S == Pairs("ScalarShare", "Scalar")
  <1>1. PICK b \in Batches(S) :
            /\ Emit(Gates("add", "ScalarShare", b, NoLit),
                    [k \in DOMAIN b |-> AddPublic(tape[b[k][1]], tape[b[k][2]])])
            /\ opening' = opening
    BY DEF ScalarBatchAddPublic, Compute
  <1>2. IsBatch(b, S)
    BY AreBatches
  <1> DEFINE A == [w \in S |-> AddPublic(tape[w[1]], tape[w[2]])]
  <1>3. [k \in DOMAIN b |-> AddPublic(tape[b[k][1]], tape[b[k][2]])] = Each(A, b)
    <2>1. \A k \in DOMAIN b : b[k] \in S
      BY <1>2 DEF IsBatch
    <2> QED BY <2>1 DEF Each
  <1>4. ASSUME NEW w \in S
        PROVE  /\ w \in Seq(Nat)
               /\ Holds("ScalarShare", A[w], GateValue(GateOf("add", "ScalarShare", w, NoLit), Values))
    <2>1. w \in Seq(Nat) /\ Holds("ScalarShare", tape[w[1]], Values[w[1]])
          /\ Holds("Scalar", tape[w[2]], Values[w[2]])
      BY PairHolds, HoldsKinds
    <2>2. PICK x, y, u, v : /\ x = tape[w[1]] /\ u = Values[w[1]]
                            /\ y = tape[w[2]] /\ v = Values[w[2]]
      OBVIOUS
    <2>3. Authentic(x, u, F) /\ v \in F /\ y = Public(v)
      BY <2>1, <2>2, HoldsKinds
    <2>4. Authentic(AddPublic(x, y), Plus(u, v), F)
      BY <2>3, KeyFacts, CarrierFacts, AddPublicAuthentic
    <2>5. A[w] = AddPublic(x, y)
      BY <2>2
    <2>6. GateValue(GateOf("add", "ScalarShare", w, NoLit), Values) = Plus(u, v)
      BY <2>2, EvalFacts
    <2> QED BY <2>1, <2>4, <2>5, <2>6, HoldsKinds
  <1> HIDE DEF S, A
  <1>5. Emit(Gates("add", "ScalarShare", b, NoLit), Each(A, b)) /\ opening' = opening
    BY <1>1, <1>3
  <1>6. "add" \in Ops /\ "ScalarShare" \in Kinds
    BY DEF Ops, Kinds
  <1> QED BY <1>2, <1>4, <1>5, <1>6, FunctionStep

LEMMA ScalarSubPublicStep ==
    ASSUME CircuitInv, ScalarSubPublic PROVE Extends
  <1> DEFINE S == Pairs("ScalarShare", "Scalar")
  <1>1. PICK b \in Singles(S) :
            /\ Emit(Gates("sub", "ScalarShare", b, NoLit),
                    [k \in DOMAIN b |-> SubPublic(tape[b[k][1]], tape[b[k][2]])])
            /\ opening' = opening
    BY DEF ScalarSubPublic, Compute
  <1>2. IsBatch(b, S)
    BY AreBatches
  <1> DEFINE A == [w \in S |-> SubPublic(tape[w[1]], tape[w[2]])]
  <1>3. [k \in DOMAIN b |-> SubPublic(tape[b[k][1]], tape[b[k][2]])] = Each(A, b)
    <2>1. \A k \in DOMAIN b : b[k] \in S
      BY <1>2 DEF IsBatch
    <2> QED BY <2>1 DEF Each
  <1>4. ASSUME NEW w \in S
        PROVE  /\ w \in Seq(Nat)
               /\ Holds("ScalarShare", A[w], GateValue(GateOf("sub", "ScalarShare", w, NoLit), Values))
    <2>1. w \in Seq(Nat) /\ Holds("ScalarShare", tape[w[1]], Values[w[1]])
          /\ Holds("Scalar", tape[w[2]], Values[w[2]])
      BY PairHolds, HoldsKinds
    <2>2. PICK x, y, u, v : /\ x = tape[w[1]] /\ u = Values[w[1]]
                            /\ y = tape[w[2]] /\ v = Values[w[2]]
      OBVIOUS
    <2>3. Authentic(x, u, F) /\ v \in F /\ y = Public(v)
      BY <2>1, <2>2, HoldsKinds
    <2>4. Authentic(SubPublic(x, y), Minus(u, v), F)
      BY <2>3, KeyFacts, CarrierFacts, SubPublicAuthentic
    <2>5. A[w] = SubPublic(x, y)
      BY <2>2
    <2>6. GateValue(GateOf("sub", "ScalarShare", w, NoLit), Values) = Minus(u, v)
      BY <2>2, EvalFacts
    <2> QED BY <2>1, <2>4, <2>5, <2>6, HoldsKinds
  <1> HIDE DEF S, A
  <1>5. Emit(Gates("sub", "ScalarShare", b, NoLit), Each(A, b)) /\ opening' = opening
    BY <1>1, <1>3
  <1>6. "sub" \in Ops /\ "ScalarShare" \in Kinds
    BY DEF Ops, Kinds
  <1> QED BY <1>2, <1>4, <1>5, <1>6, FunctionStep

LEMMA PublicSubScalarStep ==
    ASSUME CircuitInv, PublicSubScalar PROVE Extends
  <1> DEFINE S == Pairs("Scalar", "ScalarShare")
  <1>1. PICK b \in Singles(S) :
            /\ Emit(Gates("sub", "ScalarShare", b, NoLit),
                    [k \in DOMAIN b |-> PublicSub(tape[b[k][1]], tape[b[k][2]])])
            /\ opening' = opening
    BY DEF PublicSubScalar, Compute
  <1>2. IsBatch(b, S)
    BY AreBatches
  <1> DEFINE A == [w \in S |-> PublicSub(tape[w[1]], tape[w[2]])]
  <1>3. [k \in DOMAIN b |-> PublicSub(tape[b[k][1]], tape[b[k][2]])] = Each(A, b)
    <2>1. \A k \in DOMAIN b : b[k] \in S
      BY <1>2 DEF IsBatch
    <2> QED BY <2>1 DEF Each
  <1>4. ASSUME NEW w \in S
        PROVE  /\ w \in Seq(Nat)
               /\ Holds("ScalarShare", A[w], GateValue(GateOf("sub", "ScalarShare", w, NoLit), Values))
    <2>1. w \in Seq(Nat) /\ Holds("Scalar", tape[w[1]], Values[w[1]])
          /\ Holds("ScalarShare", tape[w[2]], Values[w[2]])
      BY PairHolds, HoldsKinds
    <2>2. PICK x, y, u, v : /\ x = tape[w[1]] /\ u = Values[w[1]]
                            /\ y = tape[w[2]] /\ v = Values[w[2]]
      OBVIOUS
    <2>3. u \in F /\ x = Public(u) /\ Authentic(y, v, F)
      BY <2>1, <2>2, HoldsKinds
    <2>4. Authentic(PublicSub(x, y), Minus(u, v), F)
      BY <2>3, KeyFacts, CarrierFacts, SubPublicAuthentic
    <2>5. A[w] = PublicSub(x, y)
      BY <2>2
    <2>6. GateValue(GateOf("sub", "ScalarShare", w, NoLit), Values) = Minus(u, v)
      BY <2>2, EvalFacts
    <2> QED BY <2>1, <2>4, <2>5, <2>6, HoldsKinds
  <1> HIDE DEF S, A
  <1>5. Emit(Gates("sub", "ScalarShare", b, NoLit), Each(A, b)) /\ opening' = opening
    BY <1>1, <1>3
  <1>6. "sub" \in Ops /\ "ScalarShare" \in Kinds
    BY DEF Ops, Kinds
  <1> QED BY <1>2, <1>4, <1>5, <1>6, FunctionStep

LEMMA ScalarSubStep ==
    ASSUME CircuitInv, ScalarSub PROVE Extends
  <1> DEFINE S == Pairs("ScalarShare", "ScalarShare")
  <1>1. PICK b \in Batches(S) :
            /\ Emit(Gates("sub", "ScalarShare", b, NoLit),
                    [k \in DOMAIN b |-> Sub(tape[b[k][1]], tape[b[k][2]])])
            /\ opening' = opening
    BY DEF ScalarSub, Compute
  <1>2. IsBatch(b, S)
    BY AreBatches
  <1> DEFINE A == [w \in S |-> Sub(tape[w[1]], tape[w[2]])]
  <1>3. [k \in DOMAIN b |-> Sub(tape[b[k][1]], tape[b[k][2]])] = Each(A, b)
    <2>1. \A k \in DOMAIN b : b[k] \in S
      BY <1>2 DEF IsBatch
    <2> QED BY <2>1 DEF Each
  <1>4. ASSUME NEW w \in S
        PROVE  /\ w \in Seq(Nat)
               /\ Holds("ScalarShare", A[w], GateValue(GateOf("sub", "ScalarShare", w, NoLit), Values))
    <2>1. w \in Seq(Nat) /\ Holds("ScalarShare", tape[w[1]], Values[w[1]])
          /\ Holds("ScalarShare", tape[w[2]], Values[w[2]])
      BY PairHolds, HoldsKinds
    <2>2. PICK x, y, u, v : /\ x = tape[w[1]] /\ u = Values[w[1]]
                            /\ y = tape[w[2]] /\ v = Values[w[2]]
      OBVIOUS
    <2>3. Authentic(x, u, F) /\ Authentic(y, v, F)
      BY <2>1, <2>2, HoldsKinds
    <2>4. Authentic(Sub(x, y), Minus(u, v), F)
      BY <2>3, KeyFacts, CarrierFacts, SubAuthentic
    <2>5. A[w] = Sub(x, y)
      BY <2>2
    <2>6. GateValue(GateOf("sub", "ScalarShare", w, NoLit), Values) = Minus(u, v)
      BY <2>2, EvalFacts
    <2> QED BY <2>1, <2>4, <2>5, <2>6, HoldsKinds
  <1> HIDE DEF S, A
  <1>5. Emit(Gates("sub", "ScalarShare", b, NoLit), Each(A, b)) /\ opening' = opening
    BY <1>1, <1>3
  <1>6. "sub" \in Ops /\ "ScalarShare" \in Kinds
    BY DEF Ops, Kinds
  <1> QED BY <1>2, <1>4, <1>5, <1>6, FunctionStep

LEMMA ScalarBatchSubPublicStep ==
    ASSUME CircuitInv, ScalarBatchSubPublic PROVE Extends
  <1> DEFINE S == Pairs("ScalarShare", "Scalar")
  <1>1. PICK b \in Batches(S) :
            /\ Emit(Gates("sub", "ScalarShare", b, NoLit),
                    [k \in DOMAIN b |-> SubPublic(tape[b[k][1]], tape[b[k][2]])])
            /\ opening' = opening
    BY DEF ScalarBatchSubPublic, Compute
  <1>2. IsBatch(b, S)
    BY AreBatches
  <1> DEFINE A == [w \in S |-> SubPublic(tape[w[1]], tape[w[2]])]
  <1>3. [k \in DOMAIN b |-> SubPublic(tape[b[k][1]], tape[b[k][2]])] = Each(A, b)
    <2>1. \A k \in DOMAIN b : b[k] \in S
      BY <1>2 DEF IsBatch
    <2> QED BY <2>1 DEF Each
  <1>4. ASSUME NEW w \in S
        PROVE  /\ w \in Seq(Nat)
               /\ Holds("ScalarShare", A[w], GateValue(GateOf("sub", "ScalarShare", w, NoLit), Values))
    <2>1. w \in Seq(Nat) /\ Holds("ScalarShare", tape[w[1]], Values[w[1]])
          /\ Holds("Scalar", tape[w[2]], Values[w[2]])
      BY PairHolds, HoldsKinds
    <2>2. PICK x, y, u, v : /\ x = tape[w[1]] /\ u = Values[w[1]]
                            /\ y = tape[w[2]] /\ v = Values[w[2]]
      OBVIOUS
    <2>3. Authentic(x, u, F) /\ v \in F /\ y = Public(v)
      BY <2>1, <2>2, HoldsKinds
    <2>4. Authentic(SubPublic(x, y), Minus(u, v), F)
      BY <2>3, KeyFacts, CarrierFacts, SubPublicAuthentic
    <2>5. A[w] = SubPublic(x, y)
      BY <2>2
    <2>6. GateValue(GateOf("sub", "ScalarShare", w, NoLit), Values) = Minus(u, v)
      BY <2>2, EvalFacts
    <2> QED BY <2>1, <2>4, <2>5, <2>6, HoldsKinds
  <1> HIDE DEF S, A
  <1>5. Emit(Gates("sub", "ScalarShare", b, NoLit), Each(A, b)) /\ opening' = opening
    BY <1>1, <1>3
  <1>6. "sub" \in Ops /\ "ScalarShare" \in Kinds
    BY DEF Ops, Kinds
  <1> QED BY <1>2, <1>4, <1>5, <1>6, FunctionStep

LEMMA ScalarNegStep ==
    ASSUME CircuitInv, ScalarNeg PROVE Extends
  <1> DEFINE S == Singles(Wires("ScalarShare"))
  <1>1. PICK b \in Batches(S) :
            /\ Emit(Gates("neg", "ScalarShare", b, NoLit),
                    [k \in DOMAIN b |-> Negate(tape[b[k][1]])])
            /\ opening' = opening
    BY DEF ScalarNeg, Compute
  <1>2. IsBatch(b, S)
    BY AreBatches
  <1> DEFINE A == [w \in S |-> Negate(tape[w[1]])]
  <1>3. [k \in DOMAIN b |-> Negate(tape[b[k][1]])] = Each(A, b)
    <2>1. \A k \in DOMAIN b : b[k] \in S
      BY <1>2 DEF IsBatch
    <2> QED BY <2>1 DEF Each
  <1>4. ASSUME NEW w \in S
        PROVE  /\ w \in Seq(Nat)
               /\ Holds("ScalarShare", A[w], GateValue(GateOf("neg", "ScalarShare", w, NoLit), Values))
    <2>1. w \in Seq(Nat) /\ Holds("ScalarShare", tape[w[1]], Values[w[1]])
      BY SingleHolds, HoldsKinds
    <2>2. PICK x, u : x = tape[w[1]] /\ u = Values[w[1]]
      OBVIOUS
    <2>3. Authentic(x, u, F)
      BY <2>1, <2>2, HoldsKinds
    <2>4. Authentic(Negate(x), Neg(u), F)
      BY <2>3, KeyFacts, CarrierFacts, NegateAuthentic
    <2>5. A[w] = Negate(x)
      BY <2>2
    <2>6. GateValue(GateOf("neg", "ScalarShare", w, NoLit), Values) = Neg(u)
      BY <2>2, EvalFacts
    <2> QED BY <2>1, <2>4, <2>5, <2>6, HoldsKinds
  <1> HIDE DEF S, A
  <1>5. Emit(Gates("neg", "ScalarShare", b, NoLit), Each(A, b)) /\ opening' = opening
    BY <1>1, <1>3
  <1>6. "neg" \in Ops /\ "ScalarShare" \in Kinds
    BY DEF Ops, Kinds
  <1> QED BY <1>2, <1>4, <1>5, <1>6, FunctionStep

LEMMA ScalarMulPublicStep ==
    ASSUME CircuitInv, ScalarMulPublic PROVE Extends
  <1> DEFINE S == Pairs("Scalar", "ScalarShare")
  <1>1. PICK b \in Singles(S) :
            /\ Emit(Gates("mul", "ScalarShare", b, NoLit),
                    [k \in DOMAIN b |-> MulPublic(tape[b[k][1]], tape[b[k][2]])])
            /\ opening' = opening
    BY DEF ScalarMulPublic, Compute
  <1>2. IsBatch(b, S)
    BY AreBatches
  <1> DEFINE A == [w \in S |-> MulPublic(tape[w[1]], tape[w[2]])]
  <1>3. [k \in DOMAIN b |-> MulPublic(tape[b[k][1]], tape[b[k][2]])] = Each(A, b)
    <2>1. \A k \in DOMAIN b : b[k] \in S
      BY <1>2 DEF IsBatch
    <2> QED BY <2>1 DEF Each
  <1>4. ASSUME NEW w \in S
        PROVE  /\ w \in Seq(Nat)
               /\ Holds("ScalarShare", A[w], GateValue(GateOf("mul", "ScalarShare", w, NoLit), Values))
    <2>1. w \in Seq(Nat) /\ Holds("Scalar", tape[w[1]], Values[w[1]])
          /\ Holds("ScalarShare", tape[w[2]], Values[w[2]])
      BY PairHolds, HoldsKinds
    <2>2. PICK x, y, u, v : /\ x = tape[w[1]] /\ u = Values[w[1]]
                            /\ y = tape[w[2]] /\ v = Values[w[2]]
      OBVIOUS
    <2>3. u \in F /\ x = Public(u) /\ Authentic(y, v, F)
      BY <2>1, <2>2, HoldsKinds
    <2>4. Authentic(MulPublic(x, y), Times(u, v), F)
      BY <2>3, KeyFacts, CarrierFacts, MulPublicAuthentic
    <2>5. A[w] = MulPublic(x, y)
      BY <2>2
    <2>6. GateValue(GateOf("mul", "ScalarShare", w, NoLit), Values) = Times(u, v)
      BY <2>2, EvalFacts
    <2> QED BY <2>1, <2>4, <2>5, <2>6, HoldsKinds
  <1> HIDE DEF S, A
  <1>5. Emit(Gates("mul", "ScalarShare", b, NoLit), Each(A, b)) /\ opening' = opening
    BY <1>1, <1>3
  <1>6. "mul" \in Ops /\ "ScalarShare" \in Kinds
    BY DEF Ops, Kinds
  <1> QED BY <1>2, <1>4, <1>5, <1>6, FunctionStep

LEMMA ScalarBatchMulPublicStep ==
    ASSUME CircuitInv, ScalarBatchMulPublic PROVE Extends
  <1> DEFINE S == Pairs("Scalar", "ScalarShare")
  <1>1. PICK b \in Batches(S) :
            /\ Emit(Gates("mul", "ScalarShare", b, NoLit),
                    [k \in DOMAIN b |-> MulPublic(tape[b[k][1]], tape[b[k][2]])])
            /\ opening' = opening
    BY DEF ScalarBatchMulPublic, Compute
  <1>2. IsBatch(b, S)
    BY AreBatches
  <1> DEFINE A == [w \in S |-> MulPublic(tape[w[1]], tape[w[2]])]
  <1>3. [k \in DOMAIN b |-> MulPublic(tape[b[k][1]], tape[b[k][2]])] = Each(A, b)
    <2>1. \A k \in DOMAIN b : b[k] \in S
      BY <1>2 DEF IsBatch
    <2> QED BY <2>1 DEF Each
  <1>4. ASSUME NEW w \in S
        PROVE  /\ w \in Seq(Nat)
               /\ Holds("ScalarShare", A[w], GateValue(GateOf("mul", "ScalarShare", w, NoLit), Values))
    <2>1. w \in Seq(Nat) /\ Holds("Scalar", tape[w[1]], Values[w[1]])
          /\ Holds("ScalarShare", tape[w[2]], Values[w[2]])
      BY PairHolds, HoldsKinds
    <2>2. PICK x, y, u, v : /\ x = tape[w[1]] /\ u = Values[w[1]]
                            /\ y = tape[w[2]] /\ v = Values[w[2]]
      OBVIOUS
    <2>3. u \in F /\ x = Public(u) /\ Authentic(y, v, F)
      BY <2>1, <2>2, HoldsKinds
    <2>4. Authentic(MulPublic(x, y), Times(u, v), F)
      BY <2>3, KeyFacts, CarrierFacts, MulPublicAuthentic
    <2>5. A[w] = MulPublic(x, y)
      BY <2>2
    <2>6. GateValue(GateOf("mul", "ScalarShare", w, NoLit), Values) = Times(u, v)
      BY <2>2, EvalFacts
    <2> QED BY <2>1, <2>4, <2>5, <2>6, HoldsKinds
  <1> HIDE DEF S, A
  <1>5. Emit(Gates("mul", "ScalarShare", b, NoLit), Each(A, b)) /\ opening' = opening
    BY <1>1, <1>3
  <1>6. "mul" \in Ops /\ "ScalarShare" \in Kinds
    BY DEF Ops, Kinds
  <1> QED BY <1>2, <1>4, <1>5, <1>6, FunctionStep

LEMMA ScalarMulStep ==
    ASSUME CircuitInv, DrawsInField, ScalarMul PROVE Extends
  <1> DEFINE S == Pairs("ScalarShare", "ScalarShare")
  <1>1. PICK b \in Singles(S), s \in program.draws :
            /\ Emit(Gates("mul", "ScalarShare", b, NoLit),
                    [k \in DOMAIN b |-> Mul(tape[b[k][1]], tape[b[k][2]], s, 0)])
            /\ opening' = opening
    BY DEF ScalarMul, Compute
  <1>2. IsBatch(b, S)
    BY AreBatches
  <1> DEFINE A == [w \in S |-> Mul(tape[w[1]], tape[w[2]], s, 0)]
  <1>3. [k \in DOMAIN b |-> Mul(tape[b[k][1]], tape[b[k][2]], s, 0)] = Each(A, b)
    <2>1. \A k \in DOMAIN b : b[k] \in S
      BY <1>2 DEF IsBatch
    <2> QED BY <2>1 DEF Each
  <1>4. ASSUME NEW w \in S
        PROVE  /\ w \in Seq(Nat)
               /\ Holds("ScalarShare", A[w], GateValue(GateOf("mul", "ScalarShare", w, NoLit), Values))
    <2>1. w \in Seq(Nat) /\ Holds("ScalarShare", tape[w[1]], Values[w[1]])
          /\ Holds("ScalarShare", tape[w[2]], Values[w[2]])
      BY PairHolds, HoldsKinds
    <2>2. PICK x, y, u, v : /\ x = tape[w[1]] /\ u = Values[w[1]]
                            /\ y = tape[w[2]] /\ v = Values[w[2]]
      OBVIOUS
    <2>3. Authentic(x, u, F) /\ Authentic(y, v, F)
      BY <2>1, <2>2, HoldsKinds
    <2>z. 0 \in Nat
      OBVIOUS
    <2>4. Authentic(Mul(x, y, s, 0), Times(u, v), F)
      BY <2>3, <2>z, KeyFacts, DrawFacts, CarrierFacts, MulAuthentic
    <2>5. A[w] = Mul(x, y, s, 0)
      BY <2>2
    <2>6. GateValue(GateOf("mul", "ScalarShare", w, NoLit), Values) = Times(u, v)
      BY <2>2, EvalFacts
    <2> QED BY <2>1, <2>4, <2>5, <2>6, HoldsKinds
  <1> HIDE DEF S, A
  <1>5. Emit(Gates("mul", "ScalarShare", b, NoLit), Each(A, b)) /\ opening' = opening
    BY <1>1, <1>3
  <1>6. "mul" \in Ops /\ "ScalarShare" \in Kinds
    BY DEF Ops, Kinds
  <1> QED BY <1>2, <1>4, <1>5, <1>6, FunctionStep

LEMMA ScalarMulPointStep ==
    ASSUME CircuitInv, ScalarMulPoint PROVE Extends
  <1> DEFINE S == Pairs("ScalarShare", "Point")
  <1>1. PICK b \in Batches(S) :
            /\ Emit(Gates("mul", "PointShare", b, NoLit),
                    [k \in DOMAIN b |-> MulPoint(tape[b[k][1]], tape[b[k][2]])])
            /\ opening' = opening
    BY DEF ScalarMulPoint, Compute
  <1>2. IsBatch(b, S)
    BY AreBatches
  <1> DEFINE A == [w \in S |-> MulPoint(tape[w[1]], tape[w[2]])]
  <1>3. [k \in DOMAIN b |-> MulPoint(tape[b[k][1]], tape[b[k][2]])] = Each(A, b)
    <2>1. \A k \in DOMAIN b : b[k] \in S
      BY <1>2 DEF IsBatch
    <2> QED BY <2>1 DEF Each
  <1>4. ASSUME NEW w \in S
        PROVE  /\ w \in Seq(Nat)
               /\ Holds("PointShare", A[w], GateValue(GateOf("mul", "PointShare", w, NoLit), Values))
    <2>1. w \in Seq(Nat) /\ Holds("ScalarShare", tape[w[1]], Values[w[1]])
          /\ Holds("Point", tape[w[2]], Values[w[2]])
      BY PairHolds, HoldsKinds
    <2>2. PICK x, y, u, v : /\ x = tape[w[1]] /\ u = Values[w[1]]
                            /\ y = tape[w[2]] /\ v = Values[w[2]]
      OBVIOUS
    <2>3. Authentic(x, u, F) /\ v \in Points /\ y = Public(v)
      BY <2>1, <2>2, HoldsKinds
    <2>4. Authentic(MulPoint(x, y), Times(u, v), Points)
      BY <2>3, KeyFacts, CarrierFacts, MulPointAuthentic
    <2>5. A[w] = MulPoint(x, y)
      BY <2>2
    <2>6. GateValue(GateOf("mul", "PointShare", w, NoLit), Values) = Times(u, v)
      BY <2>2, EvalFacts
    <2> QED BY <2>1, <2>4, <2>5, <2>6, HoldsKinds
  <1> HIDE DEF S, A
  <1>5. Emit(Gates("mul", "PointShare", b, NoLit), Each(A, b)) /\ opening' = opening
    BY <1>1, <1>3
  <1>6. "mul" \in Ops /\ "PointShare" \in Kinds
    BY DEF Ops, Kinds
  <1> QED BY <1>2, <1>4, <1>5, <1>6, FunctionStep

LEMMA PointAddPublicStep ==
    ASSUME CircuitInv, PointAddPublic PROVE Extends
  <1> DEFINE S == Pairs("PointShare", "Point")
  <1>1. PICK b \in Batches(S) :
            /\ Emit(Gates("add", "PointShare", b, NoLit),
                    [k \in DOMAIN b |-> AddPublic(tape[b[k][1]], tape[b[k][2]])])
            /\ opening' = opening
    BY DEF PointAddPublic, Compute
  <1>2. IsBatch(b, S)
    BY AreBatches
  <1> DEFINE A == [w \in S |-> AddPublic(tape[w[1]], tape[w[2]])]
  <1>3. [k \in DOMAIN b |-> AddPublic(tape[b[k][1]], tape[b[k][2]])] = Each(A, b)
    <2>1. \A k \in DOMAIN b : b[k] \in S
      BY <1>2 DEF IsBatch
    <2> QED BY <2>1 DEF Each
  <1>4. ASSUME NEW w \in S
        PROVE  /\ w \in Seq(Nat)
               /\ Holds("PointShare", A[w], GateValue(GateOf("add", "PointShare", w, NoLit), Values))
    <2>1. w \in Seq(Nat) /\ Holds("PointShare", tape[w[1]], Values[w[1]])
          /\ Holds("Point", tape[w[2]], Values[w[2]])
      BY PairHolds, HoldsKinds
    <2>2. PICK x, y, u, v : /\ x = tape[w[1]] /\ u = Values[w[1]]
                            /\ y = tape[w[2]] /\ v = Values[w[2]]
      OBVIOUS
    <2>3. Authentic(x, u, Points) /\ v \in Points /\ y = Public(v)
      BY <2>1, <2>2, HoldsKinds
    <2>4. Authentic(AddPublic(x, y), Plus(u, v), Points)
      BY <2>3, KeyFacts, CarrierFacts, AddPublicAuthentic
    <2>5. A[w] = AddPublic(x, y)
      BY <2>2
    <2>6. GateValue(GateOf("add", "PointShare", w, NoLit), Values) = Plus(u, v)
      BY <2>2, EvalFacts
    <2> QED BY <2>1, <2>4, <2>5, <2>6, HoldsKinds
  <1> HIDE DEF S, A
  <1>5. Emit(Gates("add", "PointShare", b, NoLit), Each(A, b)) /\ opening' = opening
    BY <1>1, <1>3
  <1>6. "add" \in Ops /\ "PointShare" \in Kinds
    BY DEF Ops, Kinds
  <1> QED BY <1>2, <1>4, <1>5, <1>6, FunctionStep

LEMMA PointAddStep ==
    ASSUME CircuitInv, PointAdd PROVE Extends
  <1> DEFINE S == Pairs("PointShare", "PointShare")
  <1>1. PICK b \in Batches(S) :
            /\ Emit(Gates("add", "PointShare", b, NoLit),
                    [k \in DOMAIN b |-> Add(tape[b[k][1]], tape[b[k][2]])])
            /\ opening' = opening
    BY DEF PointAdd, Compute
  <1>2. IsBatch(b, S)
    BY AreBatches
  <1> DEFINE A == [w \in S |-> Add(tape[w[1]], tape[w[2]])]
  <1>3. [k \in DOMAIN b |-> Add(tape[b[k][1]], tape[b[k][2]])] = Each(A, b)
    <2>1. \A k \in DOMAIN b : b[k] \in S
      BY <1>2 DEF IsBatch
    <2> QED BY <2>1 DEF Each
  <1>4. ASSUME NEW w \in S
        PROVE  /\ w \in Seq(Nat)
               /\ Holds("PointShare", A[w], GateValue(GateOf("add", "PointShare", w, NoLit), Values))
    <2>1. w \in Seq(Nat) /\ Holds("PointShare", tape[w[1]], Values[w[1]])
          /\ Holds("PointShare", tape[w[2]], Values[w[2]])
      BY PairHolds, HoldsKinds
    <2>2. PICK x, y, u, v : /\ x = tape[w[1]] /\ u = Values[w[1]]
                            /\ y = tape[w[2]] /\ v = Values[w[2]]
      OBVIOUS
    <2>3. Authentic(x, u, Points) /\ Authentic(y, v, Points)
      BY <2>1, <2>2, HoldsKinds
    <2>4. Authentic(Add(x, y), Plus(u, v), Points)
      BY <2>3, KeyFacts, CarrierFacts, AddAuthentic
    <2>5. A[w] = Add(x, y)
      BY <2>2
    <2>6. GateValue(GateOf("add", "PointShare", w, NoLit), Values) = Plus(u, v)
      BY <2>2, EvalFacts
    <2> QED BY <2>1, <2>4, <2>5, <2>6, HoldsKinds
  <1> HIDE DEF S, A
  <1>5. Emit(Gates("add", "PointShare", b, NoLit), Each(A, b)) /\ opening' = opening
    BY <1>1, <1>3
  <1>6. "add" \in Ops /\ "PointShare" \in Kinds
    BY DEF Ops, Kinds
  <1> QED BY <1>2, <1>4, <1>5, <1>6, FunctionStep

LEMMA PointSubPublicStep ==
    ASSUME CircuitInv, PointSubPublic PROVE Extends
  <1> DEFINE S == Pairs("PointShare", "Point")
  <1>1. PICK b \in Batches(S) :
            /\ Emit(Gates("sub", "PointShare", b, NoLit),
                    [k \in DOMAIN b |-> SubPublic(tape[b[k][1]], tape[b[k][2]])])
            /\ opening' = opening
    BY DEF PointSubPublic, Compute
  <1>2. IsBatch(b, S)
    BY AreBatches
  <1> DEFINE A == [w \in S |-> SubPublic(tape[w[1]], tape[w[2]])]
  <1>3. [k \in DOMAIN b |-> SubPublic(tape[b[k][1]], tape[b[k][2]])] = Each(A, b)
    <2>1. \A k \in DOMAIN b : b[k] \in S
      BY <1>2 DEF IsBatch
    <2> QED BY <2>1 DEF Each
  <1>4. ASSUME NEW w \in S
        PROVE  /\ w \in Seq(Nat)
               /\ Holds("PointShare", A[w], GateValue(GateOf("sub", "PointShare", w, NoLit), Values))
    <2>1. w \in Seq(Nat) /\ Holds("PointShare", tape[w[1]], Values[w[1]])
          /\ Holds("Point", tape[w[2]], Values[w[2]])
      BY PairHolds, HoldsKinds
    <2>2. PICK x, y, u, v : /\ x = tape[w[1]] /\ u = Values[w[1]]
                            /\ y = tape[w[2]] /\ v = Values[w[2]]
      OBVIOUS
    <2>3. Authentic(x, u, Points) /\ v \in Points /\ y = Public(v)
      BY <2>1, <2>2, HoldsKinds
    <2>4. Authentic(SubPublic(x, y), Minus(u, v), Points)
      BY <2>3, KeyFacts, CarrierFacts, SubPublicAuthentic
    <2>5. A[w] = SubPublic(x, y)
      BY <2>2
    <2>6. GateValue(GateOf("sub", "PointShare", w, NoLit), Values) = Minus(u, v)
      BY <2>2, EvalFacts
    <2> QED BY <2>1, <2>4, <2>5, <2>6, HoldsKinds
  <1> HIDE DEF S, A
  <1>5. Emit(Gates("sub", "PointShare", b, NoLit), Each(A, b)) /\ opening' = opening
    BY <1>1, <1>3
  <1>6. "sub" \in Ops /\ "PointShare" \in Kinds
    BY DEF Ops, Kinds
  <1> QED BY <1>2, <1>4, <1>5, <1>6, FunctionStep

LEMMA PointSubStep ==
    ASSUME CircuitInv, PointSub PROVE Extends
  <1> DEFINE S == Pairs("PointShare", "PointShare")
  <1>1. PICK b \in Batches(S) :
            /\ Emit(Gates("sub", "PointShare", b, NoLit),
                    [k \in DOMAIN b |-> Sub(tape[b[k][1]], tape[b[k][2]])])
            /\ opening' = opening
    BY DEF PointSub, Compute
  <1>2. IsBatch(b, S)
    BY AreBatches
  <1> DEFINE A == [w \in S |-> Sub(tape[w[1]], tape[w[2]])]
  <1>3. [k \in DOMAIN b |-> Sub(tape[b[k][1]], tape[b[k][2]])] = Each(A, b)
    <2>1. \A k \in DOMAIN b : b[k] \in S
      BY <1>2 DEF IsBatch
    <2> QED BY <2>1 DEF Each
  <1>4. ASSUME NEW w \in S
        PROVE  /\ w \in Seq(Nat)
               /\ Holds("PointShare", A[w], GateValue(GateOf("sub", "PointShare", w, NoLit), Values))
    <2>1. w \in Seq(Nat) /\ Holds("PointShare", tape[w[1]], Values[w[1]])
          /\ Holds("PointShare", tape[w[2]], Values[w[2]])
      BY PairHolds, HoldsKinds
    <2>2. PICK x, y, u, v : /\ x = tape[w[1]] /\ u = Values[w[1]]
                            /\ y = tape[w[2]] /\ v = Values[w[2]]
      OBVIOUS
    <2>3. Authentic(x, u, Points) /\ Authentic(y, v, Points)
      BY <2>1, <2>2, HoldsKinds
    <2>4. Authentic(Sub(x, y), Minus(u, v), Points)
      BY <2>3, KeyFacts, CarrierFacts, SubAuthentic
    <2>5. A[w] = Sub(x, y)
      BY <2>2
    <2>6. GateValue(GateOf("sub", "PointShare", w, NoLit), Values) = Minus(u, v)
      BY <2>2, EvalFacts
    <2> QED BY <2>1, <2>4, <2>5, <2>6, HoldsKinds
  <1> HIDE DEF S, A
  <1>5. Emit(Gates("sub", "PointShare", b, NoLit), Each(A, b)) /\ opening' = opening
    BY <1>1, <1>3
  <1>6. "sub" \in Ops /\ "PointShare" \in Kinds
    BY DEF Ops, Kinds
  <1> QED BY <1>2, <1>4, <1>5, <1>6, FunctionStep

LEMMA PointNegStep ==
    ASSUME CircuitInv, PointNeg PROVE Extends
  <1> DEFINE S == Singles(Wires("PointShare"))
  <1>1. PICK b \in Batches(S) :
            /\ Emit(Gates("neg", "PointShare", b, NoLit),
                    [k \in DOMAIN b |-> Negate(tape[b[k][1]])])
            /\ opening' = opening
    BY DEF PointNeg, Compute
  <1>2. IsBatch(b, S)
    BY AreBatches
  <1> DEFINE A == [w \in S |-> Negate(tape[w[1]])]
  <1>3. [k \in DOMAIN b |-> Negate(tape[b[k][1]])] = Each(A, b)
    <2>1. \A k \in DOMAIN b : b[k] \in S
      BY <1>2 DEF IsBatch
    <2> QED BY <2>1 DEF Each
  <1>4. ASSUME NEW w \in S
        PROVE  /\ w \in Seq(Nat)
               /\ Holds("PointShare", A[w], GateValue(GateOf("neg", "PointShare", w, NoLit), Values))
    <2>1. w \in Seq(Nat) /\ Holds("PointShare", tape[w[1]], Values[w[1]])
      BY SingleHolds, HoldsKinds
    <2>2. PICK x, u : x = tape[w[1]] /\ u = Values[w[1]]
      OBVIOUS
    <2>3. Authentic(x, u, Points)
      BY <2>1, <2>2, HoldsKinds
    <2>4. Authentic(Negate(x), Neg(u), Points)
      BY <2>3, KeyFacts, CarrierFacts, NegateAuthentic
    <2>5. A[w] = Negate(x)
      BY <2>2
    <2>6. GateValue(GateOf("neg", "PointShare", w, NoLit), Values) = Neg(u)
      BY <2>2, EvalFacts
    <2> QED BY <2>1, <2>4, <2>5, <2>6, HoldsKinds
  <1> HIDE DEF S, A
  <1>5. Emit(Gates("neg", "PointShare", b, NoLit), Each(A, b)) /\ opening' = opening
    BY <1>1, <1>3
  <1>6. "neg" \in Ops /\ "PointShare" \in Kinds
    BY DEF Ops, Kinds
  <1> QED BY <1>2, <1>4, <1>5, <1>6, FunctionStep

LEMMA PointMulPublicStep ==
    ASSUME CircuitInv, PointMulPublic PROVE Extends
  <1> DEFINE S == Pairs("Scalar", "PointShare")
  <1>1. PICK b \in Batches(S) :
            /\ Emit(Gates("mul", "PointShare", b, NoLit),
                    [k \in DOMAIN b |-> MulPublic(tape[b[k][1]], tape[b[k][2]])])
            /\ opening' = opening
    BY DEF PointMulPublic, Compute
  <1>2. IsBatch(b, S)
    BY AreBatches
  <1> DEFINE A == [w \in S |-> MulPublic(tape[w[1]], tape[w[2]])]
  <1>3. [k \in DOMAIN b |-> MulPublic(tape[b[k][1]], tape[b[k][2]])] = Each(A, b)
    <2>1. \A k \in DOMAIN b : b[k] \in S
      BY <1>2 DEF IsBatch
    <2> QED BY <2>1 DEF Each
  <1>4. ASSUME NEW w \in S
        PROVE  /\ w \in Seq(Nat)
               /\ Holds("PointShare", A[w], GateValue(GateOf("mul", "PointShare", w, NoLit), Values))
    <2>1. w \in Seq(Nat) /\ Holds("Scalar", tape[w[1]], Values[w[1]])
          /\ Holds("PointShare", tape[w[2]], Values[w[2]])
      BY PairHolds, HoldsKinds
    <2>2. PICK x, y, u, v : /\ x = tape[w[1]] /\ u = Values[w[1]]
                            /\ y = tape[w[2]] /\ v = Values[w[2]]
      OBVIOUS
    <2>3. u \in F /\ x = Public(u) /\ Authentic(y, v, Points)
      BY <2>1, <2>2, HoldsKinds
    <2>4. Authentic(MulPublic(x, y), Times(u, v), Points)
      BY <2>3, KeyFacts, CarrierFacts, MulPublicAuthentic
    <2>5. A[w] = MulPublic(x, y)
      BY <2>2
    <2>6. GateValue(GateOf("mul", "PointShare", w, NoLit), Values) = Times(u, v)
      BY <2>2, EvalFacts
    <2> QED BY <2>1, <2>4, <2>5, <2>6, HoldsKinds
  <1> HIDE DEF S, A
  <1>5. Emit(Gates("mul", "PointShare", b, NoLit), Each(A, b)) /\ opening' = opening
    BY <1>1, <1>3
  <1>6. "mul" \in Ops /\ "PointShare" \in Kinds
    BY DEF Ops, Kinds
  <1> QED BY <1>2, <1>4, <1>5, <1>6, FunctionStep

LEMMA PointMulStep ==
    ASSUME CircuitInv, DrawsInField, PointMul PROVE Extends
  <1> DEFINE S == Pairs("ScalarShare", "PointShare")
  <1>1. PICK b \in Singles(S), s \in program.draws :
            /\ Emit(Gates("mul", "PointShare", b, NoLit),
                    [k \in DOMAIN b |-> MulPointShares(tape[b[k][1]], tape[b[k][2]], s, 0)])
            /\ opening' = opening
    BY DEF PointMul, Compute
  <1>2. IsBatch(b, S)
    BY AreBatches
  <1> DEFINE A == [w \in S |-> MulPointShares(tape[w[1]], tape[w[2]], s, 0)]
  <1>3. [k \in DOMAIN b |-> MulPointShares(tape[b[k][1]], tape[b[k][2]], s, 0)] = Each(A, b)
    <2>1. \A k \in DOMAIN b : b[k] \in S
      BY <1>2 DEF IsBatch
    <2> QED BY <2>1 DEF Each
  <1>4. ASSUME NEW w \in S
        PROVE  /\ w \in Seq(Nat)
               /\ Holds("PointShare", A[w], GateValue(GateOf("mul", "PointShare", w, NoLit), Values))
    <2>1. w \in Seq(Nat) /\ Holds("ScalarShare", tape[w[1]], Values[w[1]])
          /\ Holds("PointShare", tape[w[2]], Values[w[2]])
      BY PairHolds, HoldsKinds
    <2>2. PICK x, y, u, v : /\ x = tape[w[1]] /\ u = Values[w[1]]
                            /\ y = tape[w[2]] /\ v = Values[w[2]]
      OBVIOUS
    <2>3. Authentic(x, u, F) /\ Authentic(y, v, Points)
      BY <2>1, <2>2, HoldsKinds
    <2>z. 0 \in Nat
      OBVIOUS
    <2>4. Authentic(MulPointShares(x, y, s, 0), Times(u, v), Points)
      BY <2>3, <2>z, KeyFacts, DrawFacts, CarrierFacts, MulPointSharesAuthentic
    <2>5. A[w] = MulPointShares(x, y, s, 0)
      BY <2>2
    <2>6. GateValue(GateOf("mul", "PointShare", w, NoLit), Values) = Times(u, v)
      BY <2>2, EvalFacts
    <2> QED BY <2>1, <2>4, <2>5, <2>6, HoldsKinds
  <1> HIDE DEF S, A
  <1>5. Emit(Gates("mul", "PointShare", b, NoLit), Each(A, b)) /\ opening' = opening
    BY <1>1, <1>3
  <1>6. "mul" \in Ops /\ "PointShare" \in Kinds
    BY DEF Ops, Kinds
  <1> QED BY <1>2, <1>4, <1>5, <1>6, FunctionStep

LEMMA PointMulGeneratorStep ==
    ASSUME CircuitInv, PointMulGenerator PROVE Extends
  <1> DEFINE S == Singles(Wires("ScalarShare"))
  <1>1. PICK b \in Batches(S) :
            /\ Emit(Gates("mulgen", "PointShare", b, NoLit),
                    [k \in DOMAIN b |-> MulPoint(tape[b[k][1]], Public(Generator))])
            /\ opening' = opening
    BY DEF PointMulGenerator, Compute
  <1>2. IsBatch(b, S)
    BY AreBatches
  <1> DEFINE A == [w \in S |-> MulPoint(tape[w[1]], Public(Generator))]
  <1>3. [k \in DOMAIN b |-> MulPoint(tape[b[k][1]], Public(Generator))] = Each(A, b)
    <2>1. \A k \in DOMAIN b : b[k] \in S
      BY <1>2 DEF IsBatch
    <2> QED BY <2>1 DEF Each
  <1>4. ASSUME NEW w \in S
        PROVE  /\ w \in Seq(Nat)
               /\ Holds("PointShare", A[w], GateValue(GateOf("mulgen", "PointShare", w, NoLit), Values))
    <2>1. w \in Seq(Nat) /\ Holds("ScalarShare", tape[w[1]], Values[w[1]])
      BY SingleHolds, HoldsKinds
    <2>2. PICK x, u : x = tape[w[1]] /\ u = Values[w[1]]
      OBVIOUS
    <2>3. Authentic(x, u, F)
      BY <2>1, <2>2, HoldsKinds
    <2>4. Authentic(MulPoint(x, Public(Generator)), Times(u, Generator), Points)
      BY <2>3, KeyFacts, CarrierFacts, FieldAssumption, MulPointAuthentic
    <2>5. A[w] = MulPoint(x, Public(Generator))
      BY <2>2
    <2>6. GateValue(GateOf("mulgen", "PointShare", w, NoLit), Values) = Times(u, Generator)
      BY <2>2, EvalFacts
    <2> QED BY <2>1, <2>4, <2>5, <2>6, HoldsKinds
  <1> HIDE DEF S, A
  <1>5. Emit(Gates("mulgen", "PointShare", b, NoLit), Each(A, b)) /\ opening' = opening
    BY <1>1, <1>3
  <1>6. "mulgen" \in Ops /\ "PointShare" \in Kinds
    BY DEF Ops, Kinds
  <1> QED BY <1>2, <1>4, <1>5, <1>6, FunctionStep

LEMMA ScalarOpenStep ==
    ASSUME CircuitInv, ScalarOpen PROVE Extends
  <1> DEFINE S == Singles(Wires("ScalarShare"))
  <1>1. PICK b \in Batches(S) :
            /\ Emit(Gates("open", "Scalar", b, NoLit),
                    [k \in DOMAIN b |-> Public(Open(tape[b[k][1]]))])
            /\ opening' = opening
    BY DEF ScalarOpen, Compute
  <1>2. IsBatch(b, S)
    BY AreBatches
  <1> DEFINE A == [w \in S |-> Public(Open(tape[w[1]]))]
  <1>3. [k \in DOMAIN b |-> Public(Open(tape[b[k][1]]))] = Each(A, b)
    <2>1. \A k \in DOMAIN b : b[k] \in S
      BY <1>2 DEF IsBatch
    <2> QED BY <2>1 DEF Each
  <1>4. ASSUME NEW w \in S
        PROVE  /\ w \in Seq(Nat)
               /\ Holds("Scalar", A[w], GateValue(GateOf("open", "Scalar", w, NoLit), Values))
    <2>1. w \in Seq(Nat) /\ Holds("ScalarShare", tape[w[1]], Values[w[1]])
      BY SingleHolds, HoldsKinds
    <2>2. PICK x, u : x = tape[w[1]] /\ u = Values[w[1]]
      OBVIOUS
    <2>3. Authentic(x, u, F)
      BY <2>1, <2>2, HoldsKinds
    <2>4. Public(Open(x)) = Public(u) /\ u \in F
      BY <2>3, KeyFacts, CarrierFacts, OpenIsValue, Parts
    <2>5. A[w] = Public(Open(x))
      BY <2>2
    <2>6. GateValue(GateOf("open", "Scalar", w, NoLit), Values) = u
      BY <2>2, EvalFacts
    <2> QED BY <2>1, <2>4, <2>5, <2>6, HoldsKinds
  <1> HIDE DEF S, A
  <1>5. Emit(Gates("open", "Scalar", b, NoLit), Each(A, b)) /\ opening' = opening
    BY <1>1, <1>3
  <1>6. "open" \in Ops /\ "Scalar" \in Kinds
    BY DEF Ops, Kinds
  <1> QED BY <1>2, <1>4, <1>5, <1>6, FunctionStep

LEMMA PointOpenStep ==
    ASSUME CircuitInv, PointOpen PROVE Extends
  <1> DEFINE S == Singles(Wires("PointShare"))
  <1>1. PICK b \in Batches(S) :
            /\ Emit(Gates("open", "Point", b, NoLit),
                    [k \in DOMAIN b |-> Public(Open(tape[b[k][1]]))])
            /\ opening' = opening
    BY DEF PointOpen, Compute
  <1>2. IsBatch(b, S)
    BY AreBatches
  <1> DEFINE A == [w \in S |-> Public(Open(tape[w[1]]))]
  <1>3. [k \in DOMAIN b |-> Public(Open(tape[b[k][1]]))] = Each(A, b)
    <2>1. \A k \in DOMAIN b : b[k] \in S
      BY <1>2 DEF IsBatch
    <2> QED BY <2>1 DEF Each
  <1>4. ASSUME NEW w \in S
        PROVE  /\ w \in Seq(Nat)
               /\ Holds("Point", A[w], GateValue(GateOf("open", "Point", w, NoLit), Values))
    <2>1. w \in Seq(Nat) /\ Holds("PointShare", tape[w[1]], Values[w[1]])
      BY SingleHolds, HoldsKinds
    <2>2. PICK x, u : x = tape[w[1]] /\ u = Values[w[1]]
      OBVIOUS
    <2>3. Authentic(x, u, Points)
      BY <2>1, <2>2, HoldsKinds
    <2>4. Public(Open(x)) = Public(u) /\ u \in Points
      BY <2>3, KeyFacts, CarrierFacts, OpenIsValue, Parts
    <2>5. A[w] = Public(Open(x))
      BY <2>2
    <2>6. GateValue(GateOf("open", "Point", w, NoLit), Values) = u
      BY <2>2, EvalFacts
    <2> QED BY <2>1, <2>4, <2>5, <2>6, HoldsKinds
  <1> HIDE DEF S, A
  <1>5. Emit(Gates("open", "Point", b, NoLit), Each(A, b)) /\ opening' = opening
    BY <1>1, <1>3
  <1>6. "open" \in Ops /\ "Point" \in Kinds
    BY DEF Ops, Kinds
  <1> QED BY <1>2, <1>4, <1>5, <1>6, FunctionStep

---------------------------------------------------------------------------
(* Sums and products of lists                                              *)

\* What the wires of a list hold.
LEMMA ListHolds ==
    ASSUME CircuitInv, NEW kind \in Kinds, NEW n \in Nat, NEW w \in [1..n -> Wires(kind)]
    PROVE  /\ w \in Seq(Nat) /\ DOMAIN w = 1..n
           /\ Along(Values, w) = [k \in 1..n |-> Values[w[k]]]
           /\ Len(Along(Values, w)) = n
           /\ \A k \in 1..n : Along(Values, w)[k] = Values[w[k]]
           /\ \A k \in 1..n : Holds(kind, tape[w[k]], Along(Values, w)[k])
  <1>1. \A k \in 1..n : w[k] \in Nat /\ Holds(kind, tape[w[k]], Values[w[k]])
    BY WireHolds
  <1>2. w \in [1..n -> Nat]
    BY <1>1
  <1>3. w \in Seq(Nat) /\ DOMAIN w = 1..n
    BY <1>2
  <1>4. Along(Values, w) = [k \in 1..n |-> Values[w[k]]]
    BY <1>3 DEF Along
  <1> HIDE DEF Values
  <1>5. Len([k \in 1..n |-> Values[w[k]]]) = n
    OBVIOUS
  <1> QED BY <1>1, <1>3, <1>4, <1>5

\* A list has at least one wire.
LEMMA ArgListFacts ==
    ASSUME NEW S, NEW w \in ArgLists(S)
    PROVE  \E n \in Nat \ {0} : w \in [1..n -> S]
  <1>1. PICK n \in 1..MaxBatch : w \in [1..n -> S]
    BY DEF ArgLists
  <1>2. n \in Nat \ {0}
    OBVIOUS
  <1> QED BY <1>1, <1>2

LEMMA ScalarResultProductStep ==
    ASSUME CircuitInv, ScalarResultProduct PROVE Extends
  <1> DEFINE S == ArgLists(Wires("Scalar"))
             A == [w \in S |-> [p \in Party |-> ProdSeq([j \in DOMAIN w |-> tape[w[j]][p]])]]
  <1>1. PICK ws \in S :
            /\ Emit(Gates("product", "Scalar", <<ws>>, NoLit),
                    [k \in DOMAIN <<ws>> |-> [p \in Party |-> ProdSeq([j \in DOMAIN <<ws>>[k] |-> tape[<<ws>>[k][j]][p]])]])
            /\ opening' = opening
    BY DEF ScalarResultProduct, Compute
  <1>2. IsBatch(<<ws>>, S)
    <2>1. <<ws>> \in [1..1 -> S]
      OBVIOUS
    <2> QED BY <2>1 DEF IsBatch
  <1>3. [k \in DOMAIN <<ws>> |-> [p \in Party |-> ProdSeq([j \in DOMAIN <<ws>>[k] |-> tape[<<ws>>[k][j]][p]])]] = Each(A, <<ws>>)
    <2>1. \A k \in DOMAIN <<ws>> : <<ws>>[k] \in S
      OBVIOUS
    <2> QED BY <2>1 DEF Each
  <1>4. ASSUME NEW w \in S
        PROVE  /\ w \in Seq(Nat)
               /\ Holds("Scalar", A[w], GateValue(GateOf("product", "Scalar", w, NoLit), Values))
    <2>0. PICK n \in Nat \ {0} : w \in [1..n -> Wires("Scalar")]
      BY ArgListFacts
    <2> DEFINE vs == Along(Values, w)
    <2>1. /\ w \in Seq(Nat) /\ DOMAIN w = 1..n /\ Len(vs) = n
          /\ vs = [k \in 1..n |-> Values[w[k]]]
          /\ \A k \in 1..n : Holds("Scalar", tape[w[k]], vs[k])
      BY <2>0, ListHolds, HoldsKinds
    <2>2. GateValue(GateOf("product", "Scalar", w, NoLit), Values) = ProdSeq(vs)
      BY EvalFacts
    <2> HIDE DEF vs
    <2>3. \A k \in 1..n : vs[k] \in F /\ tape[w[k]] = Public(vs[k])
      BY <2>1, HoldsKinds
    <2>4. ASSUME NEW p \in Party PROVE [k \in DOMAIN w |-> tape[w[k]][p]] = vs
      <3>1. ASSUME NEW k \in 1..n PROVE tape[w[k]][p] = vs[k]
        <4>1. tape[w[k]] = Public(vs[k])
          BY <2>3
        <4>2. Public(vs[k])[p] = vs[k]
          BY DEF Public
        <4> QED BY <4>1, <4>2
      <3>2. vs = [k \in 1..n |-> vs[k]]
        BY <2>1
      <3> QED BY <2>1, <3>1, <3>2
    <2>5. A[w] = Public(ProdSeq(vs))
      BY <2>4 DEF Public
    <2>6. ProdSeq(vs) \in F
      BY <2>1, <2>3, CarrierFacts, ProdSeqClosed
    <2> QED BY <2>1, <2>2, <2>5, <2>6, HoldsKinds
  <1> HIDE DEF S, A
  <1>5. Emit(Gates("product", "Scalar", <<ws>>, NoLit), Each(A, <<ws>>)) /\ opening' = opening
    BY <1>1, <1>3
  <1>6. "product" \in Ops /\ "Scalar" \in Kinds
    BY DEF Ops, Kinds
  <1> QED BY <1>2, <1>4, <1>5, <1>6, FunctionStep

LEMMA CurvePointResultSumStep ==
    ASSUME CircuitInv, CurvePointResultSum PROVE Extends
  <1> DEFINE S == ArgLists(Wires("Point"))
             A == [w \in S |-> [p \in Party |-> SumSeq([j \in DOMAIN w |-> tape[w[j]][p]])]]
  <1>1. PICK ws \in S :
            /\ Emit(Gates("sum", "Point", <<ws>>, NoLit),
                    [k \in DOMAIN <<ws>> |-> [p \in Party |-> SumSeq([j \in DOMAIN <<ws>>[k] |-> tape[<<ws>>[k][j]][p]])]])
            /\ opening' = opening
    BY DEF CurvePointResultSum, Compute
  <1>2. IsBatch(<<ws>>, S)
    <2>1. <<ws>> \in [1..1 -> S]
      OBVIOUS
    <2> QED BY <2>1 DEF IsBatch
  <1>3. [k \in DOMAIN <<ws>> |-> [p \in Party |-> SumSeq([j \in DOMAIN <<ws>>[k] |-> tape[<<ws>>[k][j]][p]])]] = Each(A, <<ws>>)
    <2>1. \A k \in DOMAIN <<ws>> : <<ws>>[k] \in S
      OBVIOUS
    <2> QED BY <2>1 DEF Each
  <1>4. ASSUME NEW w \in S
        PROVE  /\ w \in Seq(Nat)
               /\ Holds("Point", A[w], GateValue(GateOf("sum", "Point", w, NoLit), Values))
    <2>0. PICK n \in Nat \ {0} : w \in [1..n -> Wires("Point")]
      BY ArgListFacts
    <2> DEFINE vs == Along(Values, w)
    <2>1. /\ w \in Seq(Nat) /\ DOMAIN w = 1..n /\ Len(vs) = n
          /\ vs = [k \in 1..n |-> Values[w[k]]]
          /\ \A k \in 1..n : Holds("Point", tape[w[k]], vs[k])
      BY <2>0, ListHolds, HoldsKinds
    <2>2. GateValue(GateOf("sum", "Point", w, NoLit), Values) = SumSeq(vs)
      BY EvalFacts
    <2> HIDE DEF vs
    <2>3. \A k \in 1..n : vs[k] \in Points /\ tape[w[k]] = Public(vs[k])
      BY <2>1, HoldsKinds
    <2>4. ASSUME NEW p \in Party PROVE [k \in DOMAIN w |-> tape[w[k]][p]] = vs
      <3>1. ASSUME NEW k \in 1..n PROVE tape[w[k]][p] = vs[k]
        <4>1. tape[w[k]] = Public(vs[k])
          BY <2>3
        <4>2. Public(vs[k])[p] = vs[k]
          BY DEF Public
        <4> QED BY <4>1, <4>2
      <3>2. vs = [k \in 1..n |-> vs[k]]
        BY <2>1
      <3> QED BY <2>1, <3>1, <3>2
    <2>5. A[w] = Public(SumSeq(vs))
      BY <2>4 DEF Public
    <2>6. SumSeq(vs) \in Points
      BY <2>1, <2>3, CarrierFacts, SumSeqClosed
    <2> QED BY <2>1, <2>2, <2>5, <2>6, HoldsKinds
  <1> HIDE DEF S, A
  <1>5. Emit(Gates("sum", "Point", <<ws>>, NoLit), Each(A, <<ws>>)) /\ opening' = opening
    BY <1>1, <1>3
  <1>6. "sum" \in Ops /\ "Point" \in Kinds
    BY DEF Ops, Kinds
  <1> QED BY <1>2, <1>4, <1>5, <1>6, FunctionStep

LEMMA ScalarSumStep ==
    ASSUME CircuitInv, ScalarSum PROVE Extends
  <1> DEFINE S == ArgLists(Wires("ScalarShare"))
             A == [w \in S |-> Sum([j \in DOMAIN w |-> tape[w[j]]])]
  <1>1. PICK ws \in S :
            /\ Emit(Gates("sum", "ScalarShare", <<ws>>, NoLit),
                    [k \in DOMAIN <<ws>> |-> Sum([j \in DOMAIN <<ws>>[k] |-> tape[<<ws>>[k][j]]])])
            /\ opening' = opening
    BY DEF ScalarSum, Compute
  <1>2. IsBatch(<<ws>>, S)
    <2>1. <<ws>> \in [1..1 -> S]
      OBVIOUS
    <2> QED BY <2>1 DEF IsBatch
  <1>3. [k \in DOMAIN <<ws>> |-> Sum([j \in DOMAIN <<ws>>[k] |-> tape[<<ws>>[k][j]]])] = Each(A, <<ws>>)
    <2>1. \A k \in DOMAIN <<ws>> : <<ws>>[k] \in S
      OBVIOUS
    <2> QED BY <2>1 DEF Each
  <1>4. ASSUME NEW w \in S
        PROVE  /\ w \in Seq(Nat)
               /\ Holds("ScalarShare", A[w], GateValue(GateOf("sum", "ScalarShare", w, NoLit), Values))
    <2>0. PICK n \in Nat \ {0} : w \in [1..n -> Wires("ScalarShare")]
      BY ArgListFacts
    <2> DEFINE vs == Along(Values, w)
    <2>1. /\ w \in Seq(Nat) /\ DOMAIN w = 1..n /\ Len(vs) = n
          /\ vs = [k \in 1..n |-> Values[w[k]]]
          /\ \A k \in 1..n : Holds("ScalarShare", tape[w[k]], vs[k])
      BY <2>0, ListHolds, HoldsKinds
    <2>2. GateValue(GateOf("sum", "ScalarShare", w, NoLit), Values) = SumSeq(vs)
      BY EvalFacts
    <2> HIDE DEF vs
    <2> DEFINE xs == [k \in DOMAIN w |-> tape[w[k]]]
    <2>3. A[w] = Sum(xs) /\ DOMAIN xs = 1..n
      BY <2>1
    <2>4. \A k \in 1..n : Authentic(xs[k], vs[k], F)
      BY <2>1, HoldsKinds
    <2> HIDE DEF xs
    <2>5. Authentic(Sum(xs), SumSeq(vs), F)
      BY <2>0, <2>1, <2>3, <2>4, KeyFacts, CarrierFacts, SumAuthentic
    <2> QED BY <2>1, <2>2, <2>3, <2>5, HoldsKinds
  <1> HIDE DEF S, A
  <1>5. Emit(Gates("sum", "ScalarShare", <<ws>>, NoLit), Each(A, <<ws>>)) /\ opening' = opening
    BY <1>1, <1>3
  <1>6. "sum" \in Ops /\ "ScalarShare" \in Kinds
    BY DEF Ops, Kinds
  <1> QED BY <1>2, <1>4, <1>5, <1>6, FunctionStep

LEMMA PointSumStep ==
    ASSUME CircuitInv, PointSum PROVE Extends
  <1> DEFINE S == ArgLists(Wires("PointShare"))
             A == [w \in S |-> Sum([j \in DOMAIN w |-> tape[w[j]]])]
  <1>1. PICK ws \in S :
            /\ Emit(Gates("sum", "PointShare", <<ws>>, NoLit),
                    [k \in DOMAIN <<ws>> |-> Sum([j \in DOMAIN <<ws>>[k] |-> tape[<<ws>>[k][j]]])])
            /\ opening' = opening
    BY DEF PointSum, Compute
  <1>2. IsBatch(<<ws>>, S)
    <2>1. <<ws>> \in [1..1 -> S]
      OBVIOUS
    <2> QED BY <2>1 DEF IsBatch
  <1>3. [k \in DOMAIN <<ws>> |-> Sum([j \in DOMAIN <<ws>>[k] |-> tape[<<ws>>[k][j]]])] = Each(A, <<ws>>)
    <2>1. \A k \in DOMAIN <<ws>> : <<ws>>[k] \in S
      OBVIOUS
    <2> QED BY <2>1 DEF Each
  <1>4. ASSUME NEW w \in S
        PROVE  /\ w \in Seq(Nat)
               /\ Holds("PointShare", A[w], GateValue(GateOf("sum", "PointShare", w, NoLit), Values))
    <2>0. PICK n \in Nat \ {0} : w \in [1..n -> Wires("PointShare")]
      BY ArgListFacts
    <2> DEFINE vs == Along(Values, w)
    <2>1. /\ w \in Seq(Nat) /\ DOMAIN w = 1..n /\ Len(vs) = n
          /\ vs = [k \in 1..n |-> Values[w[k]]]
          /\ \A k \in 1..n : Holds("PointShare", tape[w[k]], vs[k])
      BY <2>0, ListHolds, HoldsKinds
    <2>2. GateValue(GateOf("sum", "PointShare", w, NoLit), Values) = SumSeq(vs)
      BY EvalFacts
    <2> HIDE DEF vs
    <2> DEFINE xs == [k \in DOMAIN w |-> tape[w[k]]]
    <2>3. A[w] = Sum(xs) /\ DOMAIN xs = 1..n
      BY <2>1
    <2>4. \A k \in 1..n : Authentic(xs[k], vs[k], Points)
      BY <2>1, HoldsKinds
    <2> HIDE DEF xs
    <2>5. Authentic(Sum(xs), SumSeq(vs), Points)
      BY <2>0, <2>1, <2>3, <2>4, KeyFacts, CarrierFacts, SumAuthentic
    <2> QED BY <2>1, <2>2, <2>3, <2>5, HoldsKinds
  <1> HIDE DEF S, A
  <1>5. Emit(Gates("sum", "PointShare", <<ws>>, NoLit), Each(A, <<ws>>)) /\ opening' = opening
    BY <1>1, <1>3
  <1>6. "sum" \in Ops /\ "PointShare" \in Kinds
    BY DEF Ops, Kinds
  <1> QED BY <1>2, <1>4, <1>5, <1>6, FunctionStep

---------------------------------------------------------------------------
(* The protocols on batches                                                *)

\* A batch whose values V stand for the gates' values takes a step.
LEMMA ProtocolStep ==
    ASSUME NEW op \in Ops, op # "modify", op # "pow", NEW kind \in Kinds, NEW n \in Nat,
           NEW b \in [1..n -> Seq(Nat)], NEW V, V = [k \in 1..n |-> V[k]],
           Emit(Gates(op, kind, b, NoLit), V), opening' = opening,
           \A k \in 1..n :
              Holds(kind, V[k], GateValue(GateOf(op, kind, b[k], NoLit), Values))
    PROVE  Extends
  <1>1. ASSUME NEW k \in 1..n PROVE GateOK(GateOf(op, kind, b[k], NoLit), V[k])
    <2> DEFINE g == GateOf(op, kind, b[k], NoLit)
    <2>1. g.op = op /\ g.kind = kind
      BY DEF GateOf
    <2>2. Holds(kind, V[k], GateValue(g, Values))
      OBVIOUS
    <2> HIDE DEF g
    <2>3. ~ZerothPower(g)
      BY <2>1 DEF ZerothPower
    <2>4. GateOK(g, V[k])
      BY <2>1, <2>2, <2>3 DEF GateOK
    <2> QED BY <2>4 DEF g
  <1>2. NoLit \in Lits
    BY DEF NoLit, Lits
  <1> QED BY <1>1, <1>2, BatchStep

\* The arguments of a batch, column by column.
LEMMA Columns ==
    ASSUME CircuitInv, NEW k1 \in Kinds, NEW k2 \in Kinds, NEW n \in Nat,
           NEW b \in [1..n -> Pairs(k1, k2)]
    PROVE  /\ b \in [1..n -> Seq(Nat)]
           /\ Len(Col(b, 1)) = n /\ Len(Col(b, 2)) = n
           /\ \A k \in 1..n : /\ Holds(k1, Col(b, 1)[k], Values[b[k][1]])
                              /\ Holds(k2, Col(b, 2)[k], Values[b[k][2]])
  <1>1. Col(b, 1) = [k \in 1..n |-> tape[b[k][1]]] /\ Col(b, 2) = [k \in 1..n |-> tape[b[k][2]]]
    BY DEF Col
  <1>2. Len([k \in 1..n |-> tape[b[k][1]]]) = n /\ Len([k \in 1..n |-> tape[b[k][2]]]) = n
    OBVIOUS
  <1>3. ASSUME NEW k \in 1..n
        PROVE  /\ b[k] \in Seq(Nat)
               /\ Holds(k1, tape[b[k][1]], Values[b[k][1]])
               /\ Holds(k2, tape[b[k][2]], Values[b[k][2]])
    <2>1. b[k] \in Pairs(k1, k2)
      OBVIOUS
    <2> QED BY <2>1, PairHolds
  <1>4. b \in [1..n -> Seq(Nat)]
    BY <1>3
  <1>5. \A k \in 1..n : Col(b, 1)[k] = tape[b[k][1]] /\ Col(b, 2)[k] = tape[b[k][2]]
    BY <1>1
  <1> QED BY <1>1, <1>2, <1>3, <1>4, <1>5

LEMMA Column ==
    ASSUME CircuitInv, NEW kind \in Kinds, NEW n \in Nat,
           NEW b \in [1..n -> Singles(Wires(kind))]
    PROVE  /\ b \in [1..n -> Seq(Nat)]
           /\ Len(Col(b, 1)) = n
           /\ \A k \in 1..n : Holds(kind, Col(b, 1)[k], Values[b[k][1]])
  <1>1. Col(b, 1) = [k \in 1..n |-> tape[b[k][1]]]
    BY DEF Col
  <1>2. Len([k \in 1..n |-> tape[b[k][1]]]) = n
    OBVIOUS
  <1>3. ASSUME NEW k \in 1..n
        PROVE  b[k] \in Seq(Nat) /\ Holds(kind, tape[b[k][1]], Values[b[k][1]])
    <2>1. b[k] \in Singles(Wires(kind))
      OBVIOUS
    <2> QED BY <2>1, SingleHolds
  <1>4. b \in [1..n -> Seq(Nat)]
    BY <1>3
  <1>5. \A k \in 1..n : Col(b, 1)[k] = tape[b[k][1]]
    BY <1>1
  <1> QED BY <1>1, <1>2, <1>3, <1>4, <1>5

LEMMA ScalarBatchMulStep ==
    ASSUME CircuitInv, DrawsInField, ScalarBatchMul PROVE Extends
  <1> DEFINE S == Pairs("ScalarShare", "ScalarShare")
  <1>1. PICK b \in Batches(S), s \in program.draws :
            /\ Emit(Gates("mul", "ScalarShare", b, NoLit), BatchMul(Col(b, 1), Col(b, 2), s, 0))
            /\ opening' = opening
    BY DEF ScalarBatchMul, Protocol
  <1>2. PICK n \in Nat : b \in [1..n -> S]
    BY <1>1, AreBatches DEF IsBatch
  <1> DEFINE V == BatchMul(Col(b, 1), Col(b, 2), s, 0)
             xs == Col(b, 1)
             ys == Col(b, 2)
  <1>3. /\ b \in [1..n -> Seq(Nat)] /\ Len(xs) = n /\ Len(ys) = n
        /\ \A k \in 1..n : /\ Authentic(xs[k], Values[b[k][1]], F)
                           /\ Authentic(ys[k], Values[b[k][2]], F)
    BY <1>2, Columns, HoldsKinds
  <1>4. V = [k \in 1..n |-> V[k]]
    BY <1>3, BatchMulLen
  <1>5. ASSUME NEW k \in 1..n PROVE Authentic(V[k], Times(Values[b[k][1]], Values[b[k][2]]), F)
    <2>1. 0 \in Nat /\ k \in 1..Len(xs) /\ Len(xs) \in Nat
      BY <1>3
    <2>2. Authentic(xs[k], Values[b[k][1]], F) /\ Authentic(ys[k], Values[b[k][2]], F)
      BY <1>3
    <2> HIDE DEF xs, ys
    <2> QED BY <2>1, <2>2, KeyFacts, DrawFacts, BatchMulAuthentic DEF xs, ys
  <1>6. ASSUME NEW k \in 1..n
        PROVE  Holds("ScalarShare", V[k], GateValue(GateOf("mul", "ScalarShare", b[k], NoLit), Values))
    <2>1. GateValue(GateOf("mul", "ScalarShare", b[k], NoLit), Values) = Times(Values[b[k][1]], Values[b[k][2]])
      BY EvalFacts
    <2> QED BY <1>5, <2>1, HoldsKinds
  <1> HIDE DEF V, S
  <1>7. Emit(Gates("mul", "ScalarShare", b, NoLit), V) /\ opening' = opening
    BY <1>1 DEF V
  <1>8. "mul" \in Ops /\ "ScalarShare" \in Kinds
    BY DEF Ops, Kinds
  <1> QED BY <1>3, <1>4, <1>6, <1>7, <1>8, ProtocolStep

LEMMA PointBatchMulStep ==
    ASSUME CircuitInv, DrawsInField, PointBatchMul PROVE Extends
  <1> DEFINE S == Pairs("ScalarShare", "PointShare")
  <1>1. PICK b \in Batches(S), s \in program.draws :
            /\ Emit(Gates("mul", "PointShare", b, NoLit), BatchMulPointShares(Col(b, 1), Col(b, 2), s, 0))
            /\ opening' = opening
    BY DEF PointBatchMul, Protocol
  <1>2. PICK n \in Nat : b \in [1..n -> S]
    BY <1>1, AreBatches DEF IsBatch
  <1> DEFINE V == BatchMulPointShares(Col(b, 1), Col(b, 2), s, 0)
             xs == Col(b, 1)
             ys == Col(b, 2)
  <1>3. /\ b \in [1..n -> Seq(Nat)] /\ Len(xs) = n /\ Len(ys) = n
        /\ \A k \in 1..n : /\ Authentic(xs[k], Values[b[k][1]], F)
                           /\ Authentic(ys[k], Values[b[k][2]], Points)
    BY <1>2, Columns, HoldsKinds
  <1>4. V = [k \in 1..n |-> V[k]]
    BY <1>3, BatchMulPointLen
  <1>5. ASSUME NEW k \in 1..n PROVE Authentic(V[k], Times(Values[b[k][1]], Values[b[k][2]]), Points)
    <2>1. 0 \in Nat /\ k \in 1..Len(xs) /\ Len(xs) \in Nat
      BY <1>3
    <2>2. Authentic(xs[k], Values[b[k][1]], F) /\ Authentic(ys[k], Values[b[k][2]], Points)
      BY <1>3
    <2> QED BY <2>1, <2>2, KeyFacts, DrawFacts, BatchMulPointAuthentic
  <1>6. ASSUME NEW k \in 1..n
        PROVE  Holds("PointShare", V[k], GateValue(GateOf("mul", "PointShare", b[k], NoLit), Values))
    <2>1. GateValue(GateOf("mul", "PointShare", b[k], NoLit), Values) = Times(Values[b[k][1]], Values[b[k][2]])
      BY EvalFacts
    <2> QED BY <1>5, <2>1, HoldsKinds
  <1> HIDE DEF V, S
  <1>7. Emit(Gates("mul", "PointShare", b, NoLit), V) /\ opening' = opening
    BY <1>1 DEF V
  <1>8. "mul" \in Ops /\ "PointShare" \in Kinds
    BY DEF Ops, Kinds
  <1> QED BY <1>3, <1>4, <1>6, <1>7, <1>8, ProtocolStep

LEMMA ScalarDivStep ==
    ASSUME CircuitInv, DrawsInField, ScalarDiv PROVE Extends
  <1> DEFINE S == Pairs("ScalarShare", "ScalarShare")
  <1>1. PICK b \in Batches(S), s \in program.draws :
            /\ Emit(Gates("div", "ScalarShare", b, NoLit), BatchMul(Col(b, 1), BatchInverse(Col(b, 2), s, 0), s, 40))
            /\ opening' = opening
            /\ Zero \notin InverseMasks(Len(b), s, 0)
    BY DEF ScalarDiv, Protocol
  <1>2. PICK n \in Nat : b \in [1..n -> S]
    BY <1>1, AreBatches DEF IsBatch
  <1> DEFINE V == BatchMul(Col(b, 1), BatchInverse(Col(b, 2), s, 0), s, 40)
             xs == Col(b, 1)
             ys == Col(b, 2)
  <1>3. /\ b \in [1..n -> Seq(Nat)] /\ Len(xs) = n /\ Len(ys) = n
        /\ \A k \in 1..n : /\ Authentic(xs[k], Values[b[k][1]], F)
                           /\ Authentic(ys[k], Values[b[k][2]], F)
    BY <1>2, Columns, HoldsKinds
  <1>4. V = [k \in 1..n |-> V[k]]
    BY <1>3, BatchMulLen
  <1>5. ASSUME NEW k \in 1..n PROVE Authentic(V[k], Times(Values[b[k][1]], Inv(Values[b[k][2]])), F)
    <2>1. /\ 0 \in Nat /\ 40 \in Nat /\ k \in 1..Len(xs) /\ Len(xs) \in Nat
          /\ k \in 1..Len(ys) /\ Len(ys) \in Nat
      BY <1>3
    <2>2. Authentic(xs[k], Values[b[k][1]], F) /\ Authentic(ys[k], Values[b[k][2]], F)
      BY <1>3
    <2>3. Zero \notin InverseMasks(Len(ys), s, 0)
      <3>1. Len(b) = n
        BY <1>2
      <3> QED BY <1>1, <1>3, <3>1
    <2>4. Authentic(BatchInverse(ys, s, 0)[k], Inv(Values[b[k][2]]), F)
      BY <2>1, <2>2, <2>3, KeyFacts, DrawFacts, BatchInverseAuthentic
    <2> QED BY <2>1, <2>2, <2>4, KeyFacts, DrawFacts, BatchMulAuthentic
  <1>6. ASSUME NEW k \in 1..n
        PROVE  Holds("ScalarShare", V[k], GateValue(GateOf("div", "ScalarShare", b[k], NoLit), Values))
    <2>1. GateValue(GateOf("div", "ScalarShare", b[k], NoLit), Values) = Times(Values[b[k][1]], Inv(Values[b[k][2]]))
      BY EvalFacts
    <2> QED BY <1>5, <2>1, HoldsKinds
  <1> HIDE DEF V, S
  <1>7. Emit(Gates("div", "ScalarShare", b, NoLit), V) /\ opening' = opening
    BY <1>1 DEF V
  <1>8. "div" \in Ops /\ "ScalarShare" \in Kinds
    BY DEF Ops, Kinds
  <1> QED BY <1>3, <1>4, <1>6, <1>7, <1>8, ProtocolStep

LEMMA ScalarInverseStep ==
    ASSUME CircuitInv, DrawsInField, ScalarInverse PROVE Extends
  <1> DEFINE S == Singles(Wires("ScalarShare"))
  <1>1. PICK b \in Batches(S), s \in program.draws :
            /\ Emit(Gates("inverse", "ScalarShare", b, NoLit), BatchInverse(Col(b, 1), s, 0))
            /\ opening' = opening
            /\ Zero \notin InverseMasks(Len(b), s, 0)
    BY DEF ScalarInverse, Protocol
  <1>2. PICK n \in Nat : b \in [1..n -> S]
    BY <1>1, AreBatches DEF IsBatch
  <1> DEFINE xs == Col(b, 1)
             V == BatchInverse(xs, s, 0)
  <1>3. /\ b \in [1..n -> Seq(Nat)] /\ Len(xs) = n
        /\ \A k \in 1..n : Authentic(xs[k], Values[b[k][1]], F)
    BY <1>2, Column, HoldsKinds
  <1>4. V = [k \in 1..n |-> V[k]]
    BY <1>3, BatchInverseLen
  <1>5. Zero \notin InverseMasks(Len(xs), s, 0)
    <2>1. Len(b) = n
      BY <1>2
    <2> QED BY <1>1, <1>3, <2>1
  <1>6. ASSUME NEW k \in 1..n
        PROVE  Holds("ScalarShare", V[k],
                     GateValue(GateOf("inverse", "ScalarShare", b[k], NoLit), Values))
    <2>1. GateValue(GateOf("inverse", "ScalarShare", b[k], NoLit), Values)
          = Inv(Values[b[k][1]])
      BY EvalFacts
    <2>2. 0 \in Nat /\ k \in 1..Len(xs) /\ Len(xs) \in Nat
          /\ Authentic(xs[k], Values[b[k][1]], F)
      BY <1>3
    <2>3. Authentic(V[k], Inv(Values[b[k][1]]), F)
      BY <1>5, <2>2, KeyFacts, DrawFacts, BatchInverseAuthentic
    <2> QED BY <2>1, <2>3, HoldsKinds
  <1>7. Emit(Gates("inverse", "ScalarShare", b, NoLit), V) /\ opening' = opening
    BY <1>1
  <1> HIDE DEF V, S
  <1>8. "inverse" \in Ops /\ "ScalarShare" \in Kinds
    BY DEF Ops, Kinds
  <1> QED BY <1>3, <1>4, <1>6, <1>7, <1>8, ProtocolStep

LEMMA ScalarDivPublicStep ==
    ASSUME CircuitInv, ScalarDivPublic PROVE Extends
  <1> DEFINE S == Pairs("ScalarShare", "Scalar")
  <1>1. PICK b \in Singles(S) :
            /\ Emit(Gates("div", "ScalarShare", b, NoLit),
                    [k \in DOMAIN b |-> MulPublic([p \in Party |-> Inv(tape[b[k][2]][p])], tape[b[k][1]])])
            /\ opening' = opening
    BY DEF ScalarDivPublic, Compute
  <1>2. IsBatch(b, S)
    BY AreBatches
  <1> DEFINE A == [w \in S |-> MulPublic([p \in Party |-> Inv(tape[w[2]][p])], tape[w[1]])]
  <1>3. [k \in DOMAIN b |-> MulPublic([p \in Party |-> Inv(tape[b[k][2]][p])], tape[b[k][1]])] = Each(A, b)
    <2>1. \A k \in DOMAIN b : b[k] \in S
      BY <1>2 DEF IsBatch
    <2> QED BY <2>1 DEF Each
  <1>4. ASSUME NEW w \in S
        PROVE  /\ w \in Seq(Nat)
               /\ Holds("ScalarShare", A[w], GateValue(GateOf("div", "ScalarShare", w, NoLit), Values))
    <2>1. w \in Seq(Nat) /\ Holds("ScalarShare", tape[w[1]], Values[w[1]])
          /\ Holds("Scalar", tape[w[2]], Values[w[2]])
      BY PairHolds, HoldsKinds
    <2>2. PICK x, y, u, v : /\ x = tape[w[1]] /\ u = Values[w[1]]
                            /\ y = tape[w[2]] /\ v = Values[w[2]]
      OBVIOUS
    <2>3. Authentic(x, u, F) /\ v \in F /\ y = Public(v)
      BY <2>1, <2>2, HoldsKinds
    <2>4. Inv(v) \in F /\ u \in F
      BY <2>3, ScalarProducts, Parts, CarrierFacts
    <2>5. Authentic(MulPublic(Public(Inv(v)), x), Times(Inv(v), u), F)
      BY <2>3, <2>4, KeyFacts, CarrierFacts, MulPublicAuthentic
    <2>6. Times(Inv(v), u) = Times(u, Inv(v))
      BY <2>4, FieldAssumption
    <2>7. [p \in Party |-> Inv(y[p])] = Public(Inv(v))
      BY <2>3 DEF Public
    <2>8. A[w] = MulPublic(Public(Inv(v)), x)
      BY <2>2, <2>7
    <2>9. GateValue(GateOf("div", "ScalarShare", w, NoLit), Values) = Times(u, Inv(v))
      BY <2>2, EvalFacts
    <2> QED BY <2>1, <2>5, <2>6, <2>8, <2>9, HoldsKinds
  <1> HIDE DEF S, A
  <1>5. Emit(Gates("div", "ScalarShare", b, NoLit), Each(A, b)) /\ opening' = opening
    BY <1>1, <1>3
  <1>6. "div" \in Ops /\ "ScalarShare" \in Kinds
    BY DEF Ops, Kinds
  <1> QED BY <1>2, <1>4, <1>5, <1>6, FunctionStep

\* The arguments of an exclusive or are bits.
LEMMA BitHolds ==
    ASSUME CircuitInv, NEW k1 \in Kinds, NEW k2 \in Kinds, NEW w \in Bits(k1) \X Bits(k2)
    PROVE  /\ w \in Pairs(k1, k2)
           /\ Values[w[1]] \in {Zero, One} /\ Values[w[2]] \in {Zero, One}
  <1>1. w[1] \in Bits(k1) /\ w[2] \in Bits(k2) /\ w = <<w[1], w[2]>>
    OBVIOUS
  <1>2. w[1] \in Wires(k1) /\ w[2] \in Wires(k2)
        /\ Clear(w[1]) \in {Zero, One} /\ Clear(w[2]) \in {Zero, One}
    BY <1>1 DEF Bits
  <1>3. w[1] \in DOMAIN tape /\ w[2] \in DOMAIN tape
    BY <1>2, WireHolds
  <1>4. Values[w[1]] = Clear(w[1]) /\ Values[w[2]] = Clear(w[2])
    BY <1>3 DEF Values
  <1> QED BY <1>1, <1>2, <1>4 DEF Pairs

LEMMA ScalarBitXorStep ==
    ASSUME CircuitInv, DrawsInField, ScalarBitXor PROVE Extends
  <1> DEFINE S == Bits("ScalarShare") \X Bits("ScalarShare")
  <1>1. PICK b \in Singles(S), s \in program.draws :
            /\ Emit(Gates("xor", "ScalarShare", b, NoLit),
                    [k \in DOMAIN b |-> BitXor(tape[b[k][1]], tape[b[k][2]], s)])
            /\ opening' = opening
    BY DEF ScalarBitXor, Compute
  <1>2. IsBatch(b, S)
    BY AreBatches
  <1> DEFINE A == [w \in S |-> BitXor(tape[w[1]], tape[w[2]], s)]
  <1>3. [k \in DOMAIN b |-> BitXor(tape[b[k][1]], tape[b[k][2]], s)] = Each(A, b)
    <2>1. \A k \in DOMAIN b : b[k] \in S
      BY <1>2 DEF IsBatch
    <2> QED BY <2>1 DEF Each
  <1>4. ASSUME NEW w \in S
        PROVE  /\ w \in Seq(Nat)
               /\ Holds("ScalarShare", A[w], GateValue(GateOf("xor", "ScalarShare", w, NoLit), Values))
    <2>0. w \in Pairs("ScalarShare", "ScalarShare")
          /\ Values[w[1]] \in {Zero, One} /\ Values[w[2]] \in {Zero, One}
      BY BitHolds, HoldsKinds
    <2>1. w \in Seq(Nat) /\ Holds("ScalarShare", tape[w[1]], Values[w[1]])
          /\ Holds("ScalarShare", tape[w[2]], Values[w[2]])
      BY <2>0, PairHolds, HoldsKinds
    <2>2. PICK x, y, u, v : /\ x = tape[w[1]] /\ u = Values[w[1]]
                            /\ y = tape[w[2]] /\ v = Values[w[2]]
      OBVIOUS
    <2>3. Authentic(x, u, F) /\ Authentic(y, v, F) /\ u \in {Zero, One} /\ v \in {Zero, One}
      BY <2>0, <2>1, <2>2, HoldsKinds
    <2>4. Authentic(BitXor(x, y, s), IF u = v THEN Zero ELSE One, F)
      BY <2>3, KeyFacts, DrawFacts, BitXorAuthentic
    <2>5. A[w] = BitXor(x, y, s)
      BY <2>2
    <2>6. GateValue(GateOf("xor", "ScalarShare", w, NoLit), Values) = IF u = v THEN Zero ELSE One
      BY <2>2, EvalFacts
    <2> QED BY <2>1, <2>4, <2>5, <2>6, HoldsKinds
  <1> HIDE DEF S, A
  <1>5. Emit(Gates("xor", "ScalarShare", b, NoLit), Each(A, b)) /\ opening' = opening
    BY <1>1, <1>3
  <1>6. "xor" \in Ops /\ "ScalarShare" \in Kinds
    BY DEF Ops, Kinds
  <1> QED BY <1>2, <1>4, <1>5, <1>6, FunctionStep

LEMMA ScalarBitXorPublicStep ==
    ASSUME CircuitInv, ScalarBitXorPublic PROVE Extends
  <1> DEFINE S == Bits("Scalar") \X Bits("ScalarShare")
  <1>1. PICK b \in Singles(S) :
            /\ Emit(Gates("xor", "ScalarShare", b, NoLit),
                    [k \in DOMAIN b |-> BitXorPublic(tape[b[k][1]], tape[b[k][2]])])
            /\ opening' = opening
    BY DEF ScalarBitXorPublic, Compute
  <1>2. IsBatch(b, S)
    BY AreBatches
  <1> DEFINE A == [w \in S |-> BitXorPublic(tape[w[1]], tape[w[2]])]
  <1>3. [k \in DOMAIN b |-> BitXorPublic(tape[b[k][1]], tape[b[k][2]])] = Each(A, b)
    <2>1. \A k \in DOMAIN b : b[k] \in S
      BY <1>2 DEF IsBatch
    <2> QED BY <2>1 DEF Each
  <1>4. ASSUME NEW w \in S
        PROVE  /\ w \in Seq(Nat)
               /\ Holds("ScalarShare", A[w], GateValue(GateOf("xor", "ScalarShare", w, NoLit), Values))
    <2>0. w \in Pairs("Scalar", "ScalarShare")
          /\ Values[w[1]] \in {Zero, One} /\ Values[w[2]] \in {Zero, One}
      BY BitHolds, HoldsKinds
    <2>1. w \in Seq(Nat) /\ Holds("Scalar", tape[w[1]], Values[w[1]])
          /\ Holds("ScalarShare", tape[w[2]], Values[w[2]])
      BY <2>0, PairHolds, HoldsKinds
    <2>2. PICK x, y, u, v : /\ x = tape[w[1]] /\ u = Values[w[1]]
                            /\ y = tape[w[2]] /\ v = Values[w[2]]
      OBVIOUS
    <2>3. x = Public(u) /\ Authentic(y, v, F) /\ u \in {Zero, One} /\ v \in {Zero, One}
      BY <2>0, <2>1, <2>2, HoldsKinds
    <2>4. Authentic(BitXorPublic(x, y), IF u = v THEN Zero ELSE One, F)
      BY <2>3, KeyFacts, BitXorPublicAuthentic
    <2>5. A[w] = BitXorPublic(x, y)
      BY <2>2
    <2>6. GateValue(GateOf("xor", "ScalarShare", w, NoLit), Values) = IF u = v THEN Zero ELSE One
      BY <2>2, EvalFacts
    <2> QED BY <2>1, <2>4, <2>5, <2>6, HoldsKinds
  <1> HIDE DEF S, A
  <1>5. Emit(Gates("xor", "ScalarShare", b, NoLit), Each(A, b)) /\ opening' = opening
    BY <1>1, <1>3
  <1>6. "xor" \in Ops /\ "ScalarShare" \in Kinds
    BY DEF Ops, Kinds
  <1> QED BY <1>2, <1>4, <1>5, <1>6, FunctionStep

LEMMA ScalarBitXorPublicBatchStep ==
    ASSUME CircuitInv, ScalarBitXorPublicBatch PROVE Extends
  <1> DEFINE S == Bits("Scalar") \X Bits("ScalarShare")
  <1>1. PICK b \in Batches(S) :
            /\ Emit(Gates("xor", "ScalarShare", b, NoLit),
                    [k \in DOMAIN b |-> BitXorPublicBatch(tape[b[k][1]], tape[b[k][2]])])
            /\ opening' = opening
    BY DEF ScalarBitXorPublicBatch, Compute
  <1>2. IsBatch(b, S)
    BY AreBatches
  <1> DEFINE A == [w \in S |-> BitXorPublicBatch(tape[w[1]], tape[w[2]])]
  <1>3. [k \in DOMAIN b |-> BitXorPublicBatch(tape[b[k][1]], tape[b[k][2]])] = Each(A, b)
    <2>1. \A k \in DOMAIN b : b[k] \in S
      BY <1>2 DEF IsBatch
    <2> QED BY <2>1 DEF Each
  <1>4. ASSUME NEW w \in S
        PROVE  /\ w \in Seq(Nat)
               /\ Holds("ScalarShare", A[w], GateValue(GateOf("xor", "ScalarShare", w, NoLit), Values))
    <2>0. w \in Pairs("Scalar", "ScalarShare")
          /\ Values[w[1]] \in {Zero, One} /\ Values[w[2]] \in {Zero, One}
      BY BitHolds, HoldsKinds
    <2>1. w \in Seq(Nat) /\ Holds("Scalar", tape[w[1]], Values[w[1]])
          /\ Holds("ScalarShare", tape[w[2]], Values[w[2]])
      BY <2>0, PairHolds, HoldsKinds
    <2>2. PICK x, y, u, v : /\ x = tape[w[1]] /\ u = Values[w[1]]
                            /\ y = tape[w[2]] /\ v = Values[w[2]]
      OBVIOUS
    <2>3. x = Public(u) /\ Authentic(y, v, F) /\ u \in {Zero, One} /\ v \in {Zero, One}
      BY <2>0, <2>1, <2>2, HoldsKinds
    <2>4. Authentic(BitXorPublicBatch(x, y), IF u = v THEN Zero ELSE One, F)
      BY <2>3, KeyFacts, BitXorPublicBatchAuthentic
    <2>5. A[w] = BitXorPublicBatch(x, y)
      BY <2>2
    <2>6. GateValue(GateOf("xor", "ScalarShare", w, NoLit), Values) = IF u = v THEN Zero ELSE One
      BY <2>2, EvalFacts
    <2> QED BY <2>1, <2>4, <2>5, <2>6, HoldsKinds
  <1> HIDE DEF S, A
  <1>5. Emit(Gates("xor", "ScalarShare", b, NoLit), Each(A, b)) /\ opening' = opening
    BY <1>1, <1>3
  <1>6. "xor" \in Ops /\ "ScalarShare" \in Kinds
    BY DEF Ops, Kinds
  <1> QED BY <1>2, <1>4, <1>5, <1>6, FunctionStep

LEMMA ScalarBitXorBatchStep ==
    ASSUME CircuitInv, DrawsInField, ScalarBitXorBatch PROVE Extends
  <1> DEFINE S == Bits("ScalarShare") \X Bits("ScalarShare")
  <1>1. PICK b \in Batches(S), s \in program.draws :
            /\ Emit(Gates("xor", "ScalarShare", b, NoLit),
                    [k \in DOMAIN b |->
                        Sub(Add(tape[b[k][1]], tape[b[k][2]]),
                            MulPublic(Public(Two), BatchMul(Col(b, 1), Col(b, 2), s, 0)[k]))])
            /\ opening' = opening
    BY DEF ScalarBitXorBatch, Protocol
  <1>2. PICK n \in Nat : b \in [1..n -> S]
    BY <1>1, AreBatches DEF IsBatch
  <1> DEFINE xs == Col(b, 1)
             ys == Col(b, 2)
             ab == BatchMul(xs, ys, s, 0)
             V == [k \in 1..n |-> Sub(Add(tape[b[k][1]], tape[b[k][2]]),
                                      MulPublic(Public(Two), ab[k]))]
  <1>3. b \in [1..n -> Pairs("ScalarShare", "ScalarShare")]
    <2>1. \A k \in 1..n : b[k] \in S
      BY <1>2
    <2>2. \A w \in S : w \in Pairs("ScalarShare", "ScalarShare")
      BY BitHolds, HoldsKinds
    <2> HIDE DEF S
    <2> QED BY <1>2, <2>1, <2>2
  <1>4. /\ b \in [1..n -> Seq(Nat)] /\ Len(xs) = n /\ Len(ys) = n
        /\ \A k \in 1..n : /\ Authentic(xs[k], Values[b[k][1]], F)
                           /\ Authentic(ys[k], Values[b[k][2]], F)
    <2>1. "ScalarShare" \in Kinds
      BY HoldsKinds
    <2>2. /\ b \in [1..n -> Seq(Nat)] /\ Len(xs) = n /\ Len(ys) = n
          /\ \A k \in 1..n : /\ Holds("ScalarShare", xs[k], Values[b[k][1]])
                             /\ Holds("ScalarShare", ys[k], Values[b[k][2]])
      BY <1>3, <2>1, Columns
    <2> QED BY <2>2, HoldsKinds
  <1>5. DOMAIN b = 1..n /\ \A k \in 1..n : xs[k] = tape[b[k][1]] /\ ys[k] = tape[b[k][2]]
    BY <1>2 DEF Col
  <1>6. ASSUME NEW k \in 1..n
        PROVE  Holds("ScalarShare", V[k],
                     GateValue(GateOf("xor", "ScalarShare", b[k], NoLit), Values))
    <2>1. PICK x, y, u, v : /\ x = tape[b[k][1]] /\ u = Values[b[k][1]]
                            /\ y = tape[b[k][2]] /\ v = Values[b[k][2]]
      OBVIOUS
    <2>2. b[k] \in S
      BY <1>2
    <2>3. u \in {Zero, One} /\ v \in {Zero, One}
      BY <2>1, <2>2, BitHolds, HoldsKinds
    <2>4. Authentic(xs[k], u, F) /\ Authentic(ys[k], v, F) /\ xs[k] = x /\ ys[k] = y
      BY <1>4, <1>5, <2>1
    <2>5. 0 \in Nat /\ k \in 1..Len(xs) /\ Len(xs) \in Nat
      BY <1>4
    <2>6. Authentic(ab[k], Times(u, v), F)
      BY <2>4, <2>5, KeyFacts, DrawFacts, BatchMulAuthentic
    <2>7. V[k] = Sub(Add(x, y), MulPublic(Public(Two), ab[k]))
      BY <2>1
    <2> HIDE DEF ab, V
    <2>8. Authentic(V[k], IF u = v THEN Zero ELSE One, F)
      BY <2>3, <2>4, <2>6, <2>7, KeyFacts, XorForm
    <2>9. GateValue(GateOf("xor", "ScalarShare", b[k], NoLit), Values)
          = IF u = v THEN Zero ELSE One
      BY <2>1, EvalFacts
    <2> QED BY <2>8, <2>9, HoldsKinds
  <1>7. Emit(Gates("xor", "ScalarShare", b, NoLit), V) /\ opening' = opening
    BY <1>1, <1>5
  <1>8. V = [k \in 1..n |-> V[k]]
    OBVIOUS
  <1> HIDE DEF V, S
  <1>9. "xor" \in Ops /\ "ScalarShare" \in Kinds
    BY DEF Ops, Kinds
  <1> QED BY <1>4, <1>6, <1>7, <1>8, <1>9, ProtocolStep

LEMMA ScalarPrefixProductStep ==
    ASSUME CircuitInv, DrawsInField, ScalarPrefixProduct PROVE Extends
  <1> DEFINE S == Wires("ScalarShare")
  <1>1. PICK ws \in Batches(S), s \in program.draws :
            /\ \A k \in DOMAIN PrefixMasks(Len(ws), s) : PrefixMasks(Len(ws), s)[k] # Zero
            /\ Emit(Gates("product", "ScalarShare", [k \in DOMAIN ws |-> SubSeq(ws, 1, k)],
                          NoLit),
                    PrefixProduct([k \in DOMAIN ws |-> tape[ws[k]]], s))
            /\ opening' = opening
    BY DEF ScalarPrefixProduct, Protocol
  <1>2. PICK n \in Nat : ws \in [1..n -> S]
    BY <1>1, AreBatches DEF IsBatch
  <1> DEFINE xs == [k \in 1..n |-> tape[ws[k]]]
             vs == Along(Values, ws)
             b == [k \in 1..n |-> SubSeq(ws, 1, k)]
             V == PrefixProduct(xs, s)
  <1>3. /\ ws \in Seq(Nat) /\ DOMAIN ws = 1..n /\ Len(ws) = n
        /\ vs = [k \in 1..n |-> Values[ws[k]]]
        /\ \A k \in 1..n : Authentic(xs[k], vs[k], F)
    <2>1. /\ ws \in Seq(Nat) /\ DOMAIN ws = 1..n /\ vs = [k \in 1..n |-> Values[ws[k]]]
          /\ \A k \in 1..n : Holds("ScalarShare", tape[ws[k]], vs[k])
      BY <1>2, ListHolds, HoldsKinds
    <2>2. Len(ws) = n
      BY <1>2
    <2> HIDE DEF vs
    <2>3. \A k \in 1..n : Authentic(xs[k], vs[k], F)
      BY <2>1, HoldsKinds
    <2> QED BY <2>1, <2>2, <2>3
  <1>4. Len(xs) = n
    OBVIOUS
  <1> HIDE DEF vs
  <1>5. vs \in [1..n -> F] /\ \A k \in 1..n : vs[k] = Values[ws[k]]
    <2>1. ASSUME NEW k \in 1..n PROVE vs[k] \in F
      BY <1>3, Parts, CarrierFacts
    <2> QED BY <1>3, <2>1
  <1> HIDE DEF xs
  <1>6. ASSUME NEW k \in 1..n
        PROVE  /\ Authentic(V[k], ProdSeq(SubSeq(vs, 1, k)), F)
               /\ V = [j \in 1..n |-> V[j]]
    <2>1. \A j \in DOMAIN PrefixMasks(n, s) : PrefixMasks(n, s)[j] # Zero
      BY <1>1, <1>3
    <2> QED BY <1>3, <1>4, <1>5, <2>1, KeyFacts, DrawFacts, PrefixProductAuthentic
  <1>n. n \in Nat \ {0}
    <2>1. PICK m \in 1..(IF Room < MaxBatch THEN Room ELSE MaxBatch) : ws \in [1..m -> S]
      BY <1>1 DEF Batches
    <2>2. m = n
      BY <1>2, <2>1
    <2> QED BY <2>1, <2>2
  <1>7. V = [j \in 1..n |-> V[j]]
    <2>1. 1 \in 1..n
      BY <1>n
    <2> QED BY <1>6, <2>1
  <1>8. ASSUME NEW k \in 1..n
        PROVE  /\ b[k] \in Seq(Nat)
               /\ Along(Values, b[k]) = SubSeq(vs, 1, k)
    <2>1. /\ SubSeq(ws, 1, k) \in Seq(Nat) /\ DOMAIN SubSeq(ws, 1, k) = 1..k
          /\ \A j \in 1..k : SubSeq(ws, 1, k)[j] = ws[j]
      BY <1>3
    <2>2. vs \in Seq(F) /\ Len(vs) = n
      BY <1>5
    <2>3. SubSeq(vs, 1, k) = [j \in 1..k |-> vs[j]]
      <3>1. /\ SubSeq(vs, 1, k) \in Seq(F) /\ Len(SubSeq(vs, 1, k)) = k
            /\ \A j \in 1..k : SubSeq(vs, 1, k)[j] = vs[j]
        BY <2>2
      <3>2. SubSeq(vs, 1, k) = [j \in 1..k |-> SubSeq(vs, 1, k)[j]]
        BY <3>1
      <3> QED BY <3>1, <3>2
    <2>4. Along(Values, SubSeq(ws, 1, k)) = [j \in 1..k |-> Values[ws[j]]]
      BY <2>1 DEF Along
    <2>5. \A j \in 1..k : vs[j] = Values[ws[j]]
      BY <1>5
    <2>6. b[k] = SubSeq(ws, 1, k)
      OBVIOUS
    <2> HIDE DEF Values
    <2> QED BY <2>1, <2>3, <2>4, <2>5, <2>6
  <1>9. ASSUME NEW k \in 1..n
        PROVE  Holds("ScalarShare", V[k],
                     GateValue(GateOf("product", "ScalarShare", b[k], NoLit), Values))
    <2>1. GateValue(GateOf("product", "ScalarShare", b[k], NoLit), Values)
          = ProdSeq(Along(Values, b[k]))
      BY EvalFacts
    <2> QED BY <1>6, <1>8, <2>1, HoldsKinds
  <1>10. Emit(Gates("product", "ScalarShare", b, NoLit), V) /\ opening' = opening
    BY <1>1, <1>3 DEF xs
  <1>11. b \in [1..n -> Seq(Nat)]
    BY <1>8
  <1> HIDE DEF V, b
  <1>12. "product" \in Ops /\ "ScalarShare" \in Kinds
    BY DEF Ops, Kinds
  <1> QED BY <1>7, <1>9, <1>10, <1>11, <1>12, ProtocolStep

---------------------------------------------------------------------------
(* Powers                                                                  *)

\* An operation with one result takes a step.
LEMMA OneStep ==
    ASSUME NEW op \in Ops, NEW kind \in Kinds, NEW lit \in Lits, NEW w \in Seq(Nat), NEW x,
           Emit(Gates(op, kind, <<w>>, lit), <<x>>), opening' = opening,
           GateOK(GateOf(op, kind, w, lit), x)
    PROVE  Extends
  <1> DEFINE b == <<w>>
             V == <<x>>
  <1>1. b \in [1..1 -> Seq(Nat)] /\ V = [k \in 1..1 |-> V[k]] /\ 1 \in Nat
    OBVIOUS
  <1>2. \A k \in 1..1 : GateOK(GateOf(op, kind, b[k], lit), V[k])
    <2>1. \A k \in 1..1 : b[k] = w /\ V[k] = x
      OBVIOUS
    <2> HIDE DEF b, V
    <2> QED BY <2>1
  <1>3. Emit(Gates(op, kind, b, lit), V)
    OBVIOUS
  <1> HIDE DEF b, V
  <1> QED BY <1>1, <1>2, <1>3, BatchStep

\* The argument of an operation on one wire.
LEMMA SingleArgument ==
    ASSUME CircuitInv, NEW kind \in Kinds, NEW b \in Singles(Singles(Wires(kind)))
    PROVE  /\ b[1] \in Seq(Nat) /\ b = <<b[1]>>
           /\ Holds(kind, tape[b[1][1]], Values[b[1][1]])
           /\ b[1][1] \in Wires(kind)
  <1>1. PICK w \in Singles(Wires(kind)) : b = <<w>>
    BY DEF Singles
  <1>2. b[1] = w /\ b = <<b[1]>>
    BY <1>1
  <1> QED BY <1>2, SingleHolds

LEMMA ScalarResultPowStep ==
    ASSUME CircuitInv, ScalarResultPow PROVE Extends
  <1>1. PICK b \in Singles(Singles(Wires("Scalar"))), e \in Exponents :
            /\ Emit(Gates("pow", "Scalar", b, e),
                    <<[p \in Party |-> Power(tape[b[1][1]][p], e)]>>)
            /\ opening' = opening
    BY DEF ScalarResultPow
  <1>2. PICK w, x, v : w = b[1] /\ x = tape[b[1][1]] /\ v = Values[b[1][1]]
    OBVIOUS
  <1>3. w \in Seq(Nat) /\ b = <<w>> /\ v \in F /\ x = Public(v) /\ v = Values[w[1]]
    BY <1>2, SingleArgument, HoldsKinds
  <1>4. e \in Nat /\ e \in Lits
    BY CircuitAssumption DEF Lits
  <1>5. Power(v, e) \in F
    BY <1>3, <1>4, PowerLaws
  <1>6. [p \in Party |-> Power(x[p], e)] = Public(Power(v, e))
    BY <1>3 DEF Public
  <1> DEFINE g == GateOf("pow", "Scalar", w, e)
  <1>7. GateValue(g, Values) = Power(v, e)
    BY <1>3, EvalFacts
  <1>8. g.op = "pow" /\ g.kind = "Scalar" /\ g.lit = e
    BY DEF GateOf
  <1> HIDE DEF g
  <1>9. Holds("Scalar", Public(Power(v, e)), Power(v, e))
    BY <1>5, HoldsKinds
  <1>10. GateOK(g, Public(Power(v, e)))
    BY <1>7, <1>8, <1>9 DEF GateOK, ZerothPower
  <1>11. Emit(Gates("pow", "Scalar", <<w>>, e), <<Public(Power(v, e))>>)
    BY <1>1, <1>2, <1>3, <1>6
  <1>12. "pow" \in Ops /\ "Scalar" \in Kinds
    BY DEF Ops, Kinds
  <1> QED BY <1>1, <1>3, <1>4, <1>10, <1>11, <1>12, OneStep DEF g

LEMMA ScalarPowStep ==
    ASSUME CircuitInv, DrawsInField, ScalarPow PROVE Extends
  <1>1. PICK b \in Singles(Singles(Wires("ScalarShare"))), e \in Exponents,
             s \in program.draws :
            /\ Emit(Gates("pow", "ScalarShare", b, e), <<Pow(tape[b[1][1]], e, s)>>)
            /\ opening' = opening
    BY DEF ScalarPow
  <1>2. PICK w, x, v : w = b[1] /\ x = tape[b[1][1]] /\ v = Values[b[1][1]]
    OBVIOUS
  <1>3. w \in Seq(Nat) /\ b = <<w>> /\ Authentic(x, v, F) /\ v = Values[w[1]]
    BY <1>2, SingleArgument, HoldsKinds
  <1>4. e \in Nat /\ e \in Lits
    BY CircuitAssumption DEF Lits
  <1>5. Authentic(Pow(x, e, s), IF e = 0 THEN Zero ELSE Power(v, e), F)
    BY <1>3, <1>4, KeyFacts, DrawFacts, PowAuthentic
  <1> DEFINE g == GateOf("pow", "ScalarShare", w, e)
             u == IF e = 0 THEN Zero ELSE Power(v, e)
  <1>6. GateValue(g, Values) = Power(v, e)
    BY <1>3, EvalFacts
  <1>7. g.op = "pow" /\ g.kind = "ScalarShare" /\ g.lit = e
    BY DEF GateOf
  <1> HIDE DEF g
  <1>8. u = IF ZerothPower(g) THEN Zero ELSE GateValue(g, Values)
    BY <1>6, <1>7 DEF ZerothPower
  <1> HIDE DEF u
  <1>9. Holds("ScalarShare", Pow(x, e, s), u)
    BY <1>5, HoldsKinds DEF u
  <1>10. GateOK(g, Pow(x, e, s))
    BY <1>7, <1>8, <1>9 DEF GateOK
  <1>11. Emit(Gates("pow", "ScalarShare", <<w>>, e), <<Pow(x, e, s)>>)
    BY <1>1, <1>2, <1>3
  <1>12. "pow" \in Ops /\ "ScalarShare" \in Kinds
    BY DEF Ops, Kinds
  <1> QED BY <1>1, <1>3, <1>4, <1>10, <1>11, <1>12, OneStep DEF g

---------------------------------------------------------------------------
(* Multiscalar multiplications                                             *)

\* The terms of a multiscalar multiplication, and its wires in order.
LEMMA MsmFacts ==
    ASSUME CircuitInv, NEW k1 \in Kinds, NEW k2 \in Kinds, NEW b \in MsmTerms(k1, k2)
    PROVE  /\ b \in [1..2 -> Pairs(k1, k2)]
           /\ Holds(k1, tape[b[1][1]], Values[b[1][1]]) /\ Holds(k2, tape[b[1][2]], Values[b[1][2]])
           /\ Holds(k1, tape[b[2][1]], Values[b[2][1]]) /\ Holds(k2, tape[b[2][2]], Values[b[2][2]])
           /\ \E w \in Seq(Nat) :
                 /\ MsmArgs(b) = <<w>>
                 /\ w[1] = b[1][1] /\ w[2] = b[2][1] /\ w[3] = b[1][2] /\ w[4] = b[2][2]
  <1>1. PICK n \in 1..MaxBatch : b \in [1..n -> Pairs(k1, k2)] /\ Len(b) = 2
    BY DEF MsmTerms, ArgLists
  <1>2. n = 2
    <2>1. n \in Nat
      OBVIOUS
    <2>2. \A T, c : c \in [1..n -> T] => Len(c) = n
      BY <2>1
    <2> QED BY <1>1, <2>2
  <1>3. b \in [1..2 -> Pairs(k1, k2)]
    BY <1>1, <1>2
  <1>4. b[1] \in Pairs(k1, k2) /\ b[2] \in Pairs(k1, k2)
    BY <1>3
  <1>5. /\ Holds(k1, tape[b[1][1]], Values[b[1][1]]) /\ Holds(k2, tape[b[1][2]], Values[b[1][2]])
        /\ Holds(k1, tape[b[2][1]], Values[b[2][1]]) /\ Holds(k2, tape[b[2][2]], Values[b[2][2]])
    BY <1>4, PairHolds
  <1>6. b[1][1] \in Wires(k1) /\ b[2][1] \in Wires(k1) /\ b[1][2] \in Wires(k2) /\ b[2][2] \in Wires(k2)
    BY <1>4 DEF Pairs
  <1>7. b[1][1] \in Nat /\ b[2][1] \in Nat /\ b[1][2] \in Nat /\ b[2][2] \in Nat
    BY <1>6, WireHolds
  <1> DEFINE w == <<b[1][1], b[2][1], b[1][2], b[2][2]>>
  <1>8. w \in Seq(Nat) /\ MsmArgs(b) = <<w>>
    BY <1>7 DEF MsmArgs
  <1>9. w[1] = b[1][1] /\ w[2] = b[2][1] /\ w[3] = b[1][2] /\ w[4] = b[2][2]
    OBVIOUS
  <1> HIDE DEF w
  <1> QED BY <1>3, <1>5, <1>8, <1>9

\* A multiscalar multiplication whose value x stands for the sum of the
\* products takes a step.
LEMMA MsmStep ==
    ASSUME CircuitInv, NEW k1 \in Kinds, NEW k2 \in Kinds, NEW kind \in Kinds,
           NEW b \in MsmTerms(k1, k2), NEW x,
           Emit(Gates("msm", kind, MsmArgs(b), NoLit), <<x>>), opening' = opening,
           Holds(kind, x, Plus(Times(Values[b[1][1]], Values[b[1][2]]),
                               Times(Values[b[2][1]], Values[b[2][2]])))
    PROVE  Extends
  <1>1. PICK w \in Seq(Nat) :
            /\ MsmArgs(b) = <<w>>
            /\ w[1] = b[1][1] /\ w[2] = b[2][1] /\ w[3] = b[1][2] /\ w[4] = b[2][2]
    BY MsmFacts
  <1> DEFINE g == GateOf("msm", kind, w, NoLit)
  <1>2. g.op = "msm" /\ g.kind = kind
    BY DEF GateOf
  <1>3. GateValue(g, Values) = Plus(Times(Values[w[1]], Values[w[3]]),
                                    Times(Values[w[2]], Values[w[4]]))
    BY EvalFacts
  <1> HIDE DEF g
  <1>4. Holds(kind, x, GateValue(g, Values))
    BY <1>1, <1>3
  <1>5. GateOK(g, x)
    BY <1>2, <1>4 DEF GateOK, ZerothPower
  <1>6. "msm" \in Ops /\ NoLit \in Lits
    BY DEF Ops, NoLit, Lits
  <1>7. Emit(Gates("msm", kind, <<w>>, NoLit), <<x>>)
    BY <1>1
  <1> QED BY <1>5, <1>6, <1>7, OneStep DEF g

LEMMA CurvePointResultMsmStep ==
    ASSUME CircuitInv, CurvePointResultMsm PROVE Extends
  <1>1. PICK b \in MsmTerms("Scalar", "Point") :
            /\ Emit(Gates("msm", "Point", MsmArgs(b), NoLit),
                    [k \in DOMAIN MsmArgs(b) |-> [p \in Party |->
                        Plus(Times(tape[MsmArgs(b)[k][1]][p], tape[MsmArgs(b)[k][3]][p]),
                             Times(tape[MsmArgs(b)[k][2]][p], tape[MsmArgs(b)[k][4]][p]))]])
            /\ opening' = opening
    BY DEF CurvePointResultMsm, Compute
  <1>2. PICK w \in Seq(Nat) :
            /\ MsmArgs(b) = <<w>>
            /\ w[1] = b[1][1] /\ w[2] = b[2][1] /\ w[3] = b[1][2] /\ w[4] = b[2][2]
    BY MsmFacts, HoldsKinds
  <1>3. PICK u1, v1, u2, v2 : /\ u1 = Values[b[1][1]] /\ v1 = Values[b[1][2]]
                              /\ u2 = Values[b[2][1]] /\ v2 = Values[b[2][2]]
    OBVIOUS
  <1>4. /\ u1 \in F /\ u2 \in F /\ v1 \in Points /\ v2 \in Points
        /\ tape[w[1]] = Public(u1) /\ tape[w[3]] = Public(v1)
        /\ tape[w[2]] = Public(u2) /\ tape[w[4]] = Public(v2)
    <2>1. "Scalar" \in Kinds /\ "Point" \in Kinds
      BY HoldsKinds
    <2>2. /\ Holds("Scalar", tape[w[1]], u1) /\ Holds("Point", tape[w[3]], v1)
          /\ Holds("Scalar", tape[w[2]], u2) /\ Holds("Point", tape[w[4]], v2)
      BY <1>2, <1>3, <2>1, MsmFacts
    <2> QED BY <2>2, HoldsKinds
  <1> DEFINE x == Public(Plus(Times(u1, v1), Times(u2, v2)))
  <1>5. [k \in DOMAIN MsmArgs(b) |-> [p \in Party |->
            Plus(Times(tape[MsmArgs(b)[k][1]][p], tape[MsmArgs(b)[k][3]][p]),
                 Times(tape[MsmArgs(b)[k][2]][p], tape[MsmArgs(b)[k][4]][p]))]] = <<x>>
    <2>1. [p \in Party |-> Plus(Times(tape[w[1]][p], tape[w[3]][p]),
                                Times(tape[w[2]][p], tape[w[4]][p]))] = x
      BY <1>4 DEF Public
    <2>2. DOMAIN MsmArgs(b) = {1} /\ MsmArgs(b)[1] = w
      BY <1>2
    <2>3. <<x>> = [k \in {1} |-> x]
      OBVIOUS
    <2> QED BY <2>1, <2>2, <2>3
  <1>6. Plus(Times(u1, v1), Times(u2, v2)) \in Points
    BY <1>4, Closed, CarrierFacts
  <1>7. Holds("Point", x, Plus(Times(u1, v1), Times(u2, v2)))
    BY <1>6, HoldsKinds
  <1>8. Emit(Gates("msm", "Point", MsmArgs(b), NoLit), <<x>>) /\ opening' = opening
    BY <1>1, <1>5
  <1> HIDE DEF x
  <1> QED BY <1>3, <1>7, <1>8, MsmStep, HoldsKinds

LEMMA PointMsmStep ==
    ASSUME CircuitInv, DrawsInField, PointMsm PROVE Extends
  <1> DEFINE M(b, s) == BatchMulPointShares(Col(b, 1), Col(b, 2), s, 0)
  <1>1. PICK b \in MsmTerms("ScalarShare", "PointShare"), s \in program.draws :
            /\ Emit(Gates("msm", "PointShare", MsmArgs(b), NoLit),
                    <<Add(M(b, s)[1], M(b, s)[2])>>)
            /\ opening' = opening
    BY DEF PointMsm, Protocol
  <1>2. b \in [1..2 -> Pairs("ScalarShare", "PointShare")]
    BY MsmFacts, HoldsKinds
  <1> DEFINE xs == Col(b, 1)
             ys == Col(b, 2)
             out == BatchMulPointShares(xs, ys, s, 0)
  <1>3. /\ Len(xs) = 2
        /\ Authentic(xs[1], Values[b[1][1]], F) /\ Authentic(ys[1], Values[b[1][2]], Points)
        /\ Authentic(xs[2], Values[b[2][1]], F) /\ Authentic(ys[2], Values[b[2][2]], Points)
    <2>1. "ScalarShare" \in Kinds /\ "PointShare" \in Kinds
      BY HoldsKinds
    <2>2. PICK n \in Nat : n = 2
      OBVIOUS
    <2>3. b \in [1..n -> Pairs("ScalarShare", "PointShare")]
      BY <1>2, <2>2
    <2>4. /\ Len(xs) = n
          /\ \A k \in 1..n : /\ Holds("ScalarShare", xs[k], Values[b[k][1]])
                             /\ Holds("PointShare", ys[k], Values[b[k][2]])
      BY <2>1, <2>3, Columns
    <2>5. 1 \in 1..n /\ 2 \in 1..n
      BY <2>2
    <2> QED BY <2>2, <2>4, <2>5, HoldsKinds
  <1>4. PICK u1, v1, u2, v2 : /\ u1 = Values[b[1][1]] /\ v1 = Values[b[1][2]]
                              /\ u2 = Values[b[2][1]] /\ v2 = Values[b[2][2]]
    OBVIOUS
  <1>5. Authentic(out[1], Times(u1, v1), Points) /\ Authentic(out[2], Times(u2, v2), Points)
    <2>1. 0 \in Nat /\ Len(xs) \in Nat /\ 1 \in 1..Len(xs) /\ 2 \in 1..Len(xs)
      BY <1>3
    <2>2. /\ Authentic(xs[1], u1, F) /\ Authentic(ys[1], v1, Points)
          /\ Authentic(xs[2], u2, F) /\ Authentic(ys[2], v2, Points)
      BY <1>3, <1>4
    <2> HIDE DEF xs, ys
    <2> QED BY <2>1, <2>2, KeyFacts, DrawFacts, BatchMulPointAuthentic
  <1> HIDE DEF out
  <1>6. Authentic(Add(out[1], out[2]), Plus(Times(u1, v1), Times(u2, v2)), Points)
    BY <1>5, KeyFacts, CarrierFacts, AddAuthentic
  <1>7. Emit(Gates("msm", "PointShare", MsmArgs(b), NoLit), <<Add(out[1], out[2])>>)
        /\ opening' = opening
    BY <1>1 DEF out
  <1>8. Holds("PointShare", Add(out[1], out[2]), Plus(Times(u1, v1), Times(u2, v2)))
    BY <1>6, HoldsKinds
  <1> QED BY <1>4, <1>7, <1>8, MsmStep, HoldsKinds

\* The sum of two.
LEMMA SumOfTwo ==
    ASSUME NEW x, NEW y PROVE SumSeq(<<x, y>>) = Plus(x, y)
  <1> DEFINE s == <<x, y>>
  <1>1. Len(s) = 2 /\ s[1] = x /\ s[2] = y /\ 2 \in Nat
    OBVIOUS
  <1> HIDE DEF s
  <1>2. PICK acc : SumsOf(s, 2, acc) /\ SumSeq(s) = acc[2]
    BY <1>1, SumSeqExists
  <1>3. acc[1] = x /\ acc[2] = Plus(acc[1], y)
    BY <1>1, <1>2 DEF SumsOf
  <1> QED BY <1>2, <1>3 DEF s

LEMMA PointMsmAuthenticatedStep ==
    ASSUME CircuitInv, PointMsmAuthenticated PROVE Extends
  <1>1. PICK b \in MsmTerms("ScalarShare", "Point") :
            /\ Emit(Gates("msm", "PointShare", MsmArgs(b), NoLit),
                    <<Sum([k \in 1..2 |-> MulPoint(tape[b[k][1]], tape[b[k][2]])])>>)
            /\ opening' = opening
    BY DEF PointMsmAuthenticated, Protocol
  <1>2. PICK u1, v1, u2, v2 : /\ u1 = Values[b[1][1]] /\ v1 = Values[b[1][2]]
                              /\ u2 = Values[b[2][1]] /\ v2 = Values[b[2][2]]
    OBVIOUS
  <1>3. /\ Authentic(tape[b[1][1]], u1, F) /\ Authentic(tape[b[2][1]], u2, F)
        /\ v1 \in Points /\ v2 \in Points
        /\ tape[b[1][2]] = Public(v1) /\ tape[b[2][2]] = Public(v2)
    BY <1>2, MsmFacts, HoldsKinds
  <1> DEFINE xs == [k \in 1..2 |-> MulPoint(tape[b[k][1]], tape[b[k][2]])]
             vs == <<Times(u1, v1), Times(u2, v2)>>
  <1>4. /\ Authentic(MulPoint(tape[b[1][1]], tape[b[1][2]]), Times(u1, v1), Points)
        /\ Authentic(MulPoint(tape[b[2][1]], tape[b[2][2]]), Times(u2, v2), Points)
    BY <1>3, KeyFacts, CarrierFacts, MulPointAuthentic
  <1>5. \A k \in 1..2 : Authentic(xs[k], vs[k], Points)
    <2>1. /\ xs[1] = MulPoint(tape[b[1][1]], tape[b[1][2]])
          /\ xs[2] = MulPoint(tape[b[2][1]], tape[b[2][2]])
      OBVIOUS
    <2>2. vs[1] = Times(u1, v1) /\ vs[2] = Times(u2, v2)
      OBVIOUS
    <2>3. \A k \in 1..2 : k = 1 \/ k = 2
      OBVIOUS
    <2> HIDE DEF xs, vs
    <2> QED BY <1>4, <2>1, <2>2, <2>3
  <1>6. DOMAIN xs = 1..2 /\ Len(vs) = 2 /\ 2 \in Nat \ {0}
    OBVIOUS
  <1>7. SumSeq(vs) = Plus(Times(u1, v1), Times(u2, v2))
    BY SumOfTwo
  <1>8. Emit(Gates("msm", "PointShare", MsmArgs(b), NoLit), <<Sum(xs)>>)
        /\ opening' = opening
    BY <1>1
  <1> HIDE DEF xs, vs
  <1>9. Authentic(Sum(xs), SumSeq(vs), Points)
    BY <1>5, <1>6, KeyFacts, CarrierFacts, SumAuthentic
  <1>10. Holds("PointShare", Sum(xs), Plus(Times(u1, v1), Times(u2, v2)))
    BY <1>7, <1>9, HoldsKinds
  <1> QED BY <1>2, <1>8, <1>10, MsmStep, HoldsKinds

---------------------------------------------------------------------------
(* Inputs                                                                  *)

InputGates(kind, vals) ==
    [k \in DOMAIN vals |-> GateOf("input", kind, <<>>, vals[k])]

\* An input whose values V stand for the values brought in takes a step.
LEMMA InputStep ==
    ASSUME NEW kind \in Kinds, NEW n \in Nat, NEW vals \in [1..n -> CarrierOf(kind)],
           NEW V, V = [k \in 1..n |-> V[k]],
           Input(kind, vals, V), \A k \in 1..n : Holds(kind, V[k], vals[k])
    PROVE  Extends
  <1> DEFINE G == InputGates(kind, vals)
  <1>1. G = [k \in 1..n |-> GateOf("input", kind, <<>>, vals[k])]
    BY DEF InputGates
  <1>2. Emit(G, V) /\ opening' = opening
    BY DEF Input, InputGates, GateOf
  <1> HIDE DEF G
  <1>3. ASSUME NEW k \in 1..n PROVE G[k] \in Gate /\ V[k] \in Cells /\ GateOK(G[k], V[k])
    <2>1. G[k] = GateOf("input", kind, <<>>, vals[k])
      BY <1>1
    <2>2. vals[k] \in Lits
      BY DEF Lits, CarrierOf
    <2>3. <<>> \in Seq(Nat) /\ "input" \in Ops
      BY DEF Ops
    <2>4. G[k] \in Gate
      BY <2>1, <2>2, <2>3 DEF Gate, GateOf
    <2>5. G[k].op = "input" /\ G[k].kind = kind
      BY <2>1 DEF GateOf
    <2>6. GateValue(G[k], Values) = vals[k]
      BY <2>1, EvalFacts
    <2>7. Holds(kind, V[k], vals[k])
      OBVIOUS
    <2>8. GateOK(G[k], V[k])
      BY <2>5, <2>6, <2>7 DEF GateOK, ZerothPower
    <2>9. V[k] \in Cells
      BY <2>7, HoldsCell
    <2> QED BY <2>4, <2>8, <2>9
  <1>4. G \in Seq(Gate) /\ Len(G) = n /\ DOMAIN G = 1..n
    <2>1. G \in [1..n -> Gate]
      BY <1>1, <1>3
    <2> QED BY <2>1
  <1>5. V \in Seq(Cells) /\ Len(V) = n
    <2>1. V \in [1..n -> Cells]
      BY <1>3
    <2> QED BY <2>1
  <1>6. Step(G, V)
    BY <1>2, <1>3, <1>4, <1>5 DEF Step
  <1> QED BY <1>2, <1>6 DEF Extends

\* An input of one value.
LEMMA OneInput ==
    ASSUME NEW kind \in Kinds, NEW v \in CarrierOf(kind), NEW x,
           Input(kind, <<v>>, <<x>>), Holds(kind, x, v)
    PROVE  Extends
  <1> DEFINE vals == <<v>>
             V == <<x>>
  <1>1. vals \in [1..1 -> CarrierOf(kind)] /\ V = [k \in 1..1 |-> V[k]] /\ 1 \in Nat
    OBVIOUS
  <1>2. \A k \in 1..1 : vals[k] = v /\ V[k] = x
    OBVIOUS
  <1>3. Input(kind, vals, V)
    OBVIOUS
  <1> HIDE DEF vals, V
  <1>4. \A k \in 1..1 : Holds(kind, V[k], vals[k])
    BY <1>2
  <1> QED BY <1>1, <1>3, <1>4, InputStep

\* The carriers, kind by kind.
LEMMA CarrierKinds ==
    /\ CarrierOf("Scalar") = F /\ CarrierOf("ScalarShare") = F
    /\ CarrierOf("Point") = Points /\ CarrierOf("PointShare") = Points
  BY DEF CarrierOf

LEMMA AllocateScalarStep ==
    ASSUME CircuitInv, AllocateScalar PROVE Extends
  <1>1. PICK v \in PublicScalars : Input("Scalar", <<v>>, <<Public(v)>>)
    BY DEF AllocateScalar
  <1>2. v \in F
    BY CircuitAssumption
  <1>3. Holds("Scalar", Public(v), v)
    BY <1>2, HoldsKinds
  <1> QED BY <1>1, <1>2, <1>3, CarrierKinds, HoldsKinds, OneInput

LEMMA AllocatePointStep ==
    ASSUME CircuitInv, AllocatePoint PROVE Extends
  <1>1. PICK v \in PublicPoints : Input("Point", <<v>>, <<Public(v)>>)
    BY DEF AllocatePoint
  <1>2. v \in Points
    BY CircuitAssumption
  <1>3. Holds("Point", Public(v), v)
    BY <1>2, HoldsKinds
  <1> QED BY <1>1, <1>2, <1>3, CarrierKinds, HoldsKinds, OneInput

\* What the preprocessing phase deals out stands for the value dealt.
LEMMA DealHolds ==
    ASSUME CircuitInv, DrawsInField, NEW s \in program.draws, NEW v \in F, NEW i \in Nat
    PROVE  Authentic(Deal(v, s, i), v, F)
  <1>1. i + 1 \in Nat /\ FieldDraw(s)
    BY DrawFacts
  <1>2. Rand(s, i) \in F /\ Rand(s, i + 1) \in F
    BY <1>1 DEF FieldDraw
  <1> QED BY <1>2, KeyFacts, DealAuthentic

LEMMA ShareScalarStep ==
    ASSUME CircuitInv, DrawsInField, ShareScalar PROVE Extends
  <1>1. PICK vals \in ScalarInputs, sender \in Party, s \in program.draws :
            Input("ScalarShare", vals,
                  [k \in DOMAIN vals |->
                      AddPublic(Deal(Rand(s, 3 * k + sender), s, 3 * k + 1),
                                Public(Minus(vals[k], Rand(s, 3 * k + sender))))])
    BY DEF ShareScalar
  <1>2. vals \in Seq(F)
    BY CircuitAssumption
  <1>3. PICK n \in Nat : vals \in [1..n -> F] /\ DOMAIN vals = 1..n
    BY <1>2
  <1> DEFINE V == [k \in 1..n |->
                      AddPublic(Deal(Rand(s, 3 * k + sender), s, 3 * k + 1),
                                Public(Minus(vals[k], Rand(s, 3 * k + sender))))]
  <1>4. ASSUME NEW k \in 1..n PROVE Holds("ScalarShare", V[k], vals[k])
    <2>1. sender \in Nat
      BY DEF Party
    <2>2. 3 * k + sender \in Nat /\ 3 * k + 1 \in Nat
      BY <2>1
    <2>3. PICK m, v : m = Rand(s, 3 * k + sender) /\ v = vals[k]
      OBVIOUS
    <2>4. m \in F /\ v \in F
      BY <1>3, <2>2, <2>3, DrawFacts DEF FieldDraw
    <2>5. Authentic(Deal(m, s, 3 * k + 1), m, F)
      BY <2>2, <2>4, DealHolds
    <2>6. Minus(v, m) \in F /\ Plus(m, Minus(v, m)) = v
      BY <2>4, Closed, CarrierFacts, MinusPlus
    <2>7. Authentic(AddPublic(Deal(m, s, 3 * k + 1), Public(Minus(v, m))), Plus(m, Minus(v, m)), F)
      BY <2>5, <2>6, KeyFacts, CarrierFacts, AddPublicAuthentic
    <2>8. V[k] = AddPublic(Deal(m, s, 3 * k + 1), Public(Minus(v, m)))
      BY <2>3
    <2> HIDE DEF V
    <2>9. Authentic(V[k], v, F)
      BY <2>6, <2>7, <2>8
    <2> QED BY <2>3, <2>9, HoldsKinds
  <1>5. V = [k \in 1..n |-> V[k]]
    OBVIOUS
  <1>6. Input("ScalarShare", vals, V)
    BY <1>1, <1>3
  <1> HIDE DEF V
  <1> QED BY <1>3, <1>4, <1>5, <1>6, CarrierKinds, HoldsKinds, InputStep

LEMMA SharePointStep ==
    ASSUME CircuitInv, DrawsInField, SharePoint PROVE Extends
  <1>1. PICK vals \in PointInputs, sender \in Party, s \in program.draws :
            Input("PointShare", vals,
                  [k \in DOMAIN vals |->
                      AddPublic(MulPoint(Deal(Rand(s, 3 * k + sender), s, 3 * k + 1),
                                         Public(Generator)),
                                Public(Minus(vals[k], Times(Rand(s, 3 * k + sender), Generator))))])
    BY DEF SharePoint
  <1>2. vals \in Seq(Points)
    BY CircuitAssumption
  <1>3. PICK n \in Nat : vals \in [1..n -> Points] /\ DOMAIN vals = 1..n
    BY <1>2
  <1> DEFINE V == [k \in 1..n |->
                      AddPublic(MulPoint(Deal(Rand(s, 3 * k + sender), s, 3 * k + 1),
                                         Public(Generator)),
                                Public(Minus(vals[k], Times(Rand(s, 3 * k + sender), Generator))))]
  <1>4. ASSUME NEW k \in 1..n PROVE Holds("PointShare", V[k], vals[k])
    <2>1. sender \in Nat
      BY DEF Party
    <2>2. 3 * k + sender \in Nat /\ 3 * k + 1 \in Nat
      BY <2>1
    <2>3. PICK r, m, v : r = Rand(s, 3 * k + sender) /\ m = Times(r, Generator) /\ v = vals[k]
      OBVIOUS
    <2>4. r \in F /\ v \in Points /\ Generator \in Points
      BY <1>3, <2>2, <2>3, DrawFacts, FieldAssumption DEF FieldDraw
    <2>5. m \in Points
      BY <2>3, <2>4, Closed, CarrierFacts
    <2>6. Authentic(Deal(r, s, 3 * k + 1), r, F)
      BY <2>2, <2>4, DealHolds
    <2>7. Authentic(MulPoint(Deal(r, s, 3 * k + 1), Public(Generator)), m, Points)
      BY <2>3, <2>4, <2>6, KeyFacts, CarrierFacts, MulPointAuthentic
    <2>8. Minus(v, m) \in Points /\ Plus(m, Minus(v, m)) = v
      BY <2>4, <2>5, Closed, CarrierFacts, MinusPlus
    <2>9. Authentic(AddPublic(MulPoint(Deal(r, s, 3 * k + 1), Public(Generator)),
                              Public(Minus(v, m))), Plus(m, Minus(v, m)), Points)
      BY <2>7, <2>8, KeyFacts, CarrierFacts, AddPublicAuthentic
    <2>10. V[k] = AddPublic(MulPoint(Deal(r, s, 3 * k + 1), Public(Generator)),
                            Public(Minus(v, m)))
      BY <2>3
    <2> HIDE DEF V
    <2>11. Authentic(V[k], v, Points)
      BY <2>8, <2>9, <2>10
    <2> QED BY <2>3, <2>11, HoldsKinds
  <1>5. V = [k \in 1..n |-> V[k]]
    OBVIOUS
  <1>6. Input("PointShare", vals, V)
    BY <1>1, <1>3
  <1> HIDE DEF V
  <1> QED BY <1>3, <1>4, <1>5, <1>6, CarrierKinds, HoldsKinds, InputStep

LEMMA RandomSharedScalarStep ==
    ASSUME CircuitInv, DrawsInField, RandomSharedScalar PROVE Extends
  <1>1. PICK s \in program.draws :
            Input("ScalarShare", <<Rand(s, 1)>>, <<Deal(Rand(s, 1), s, 2)>>)
    BY DEF RandomSharedScalar
  <1>2. PICK v : v = Rand(s, 1)
    OBVIOUS
  <1>3. v \in F
    BY <1>2, DrawFacts DEF FieldDraw
  <1>4. 2 \in Nat
    OBVIOUS
  <1>5. Holds("ScalarShare", Deal(v, s, 2), v)
    BY <1>3, <1>4, DealHolds, HoldsKinds
  <1>6. Input("ScalarShare", <<v>>, <<Deal(v, s, 2)>>)
    BY <1>1, <1>2
  <1> QED BY <1>3, <1>5, <1>6, CarrierKinds, HoldsKinds, OneInput

LEMMA RandomSharedBitStep ==
    ASSUME CircuitInv, DrawsInField, RandomSharedBit PROVE Extends
  <1>1. PICK s \in program.draws, v \in {Zero, One} :
            Input("ScalarShare", <<v>>, <<Deal(v, s, 2)>>)
    BY DEF RandomSharedBit
  <1>2. v \in F
    BY Closed, CarrierFacts, FieldAssumption
  <1>3. 2 \in Nat
    OBVIOUS
  <1>4. Holds("ScalarShare", Deal(v, s, 2), v)
    BY <1>2, <1>3, DealHolds, HoldsKinds
  <1> QED BY <1>1, <1>2, <1>4, CarrierKinds, HoldsKinds, OneInput

LEMMA RandomInversePairStep ==
    ASSUME CircuitInv, DrawsInField, RandomInversePair PROVE Extends
  <1>1. PICK s \in program.draws :
            Input("ScalarShare", <<Rand(s, 1), Inv(Rand(s, 1))>>,
                  <<Deal(Rand(s, 1), s, 2), Deal(Inv(Rand(s, 1)), s, 4)>>)
    BY DEF RandomInversePair
  <1>2. PICK u, v : u = Rand(s, 1) /\ v = Inv(Rand(s, 1))
    OBVIOUS
  <1>3. u \in F /\ v \in F
    <2>1. u \in F
      BY <1>2, DrawFacts DEF FieldDraw
    <2>2. Inv(u) \in F
      BY <2>1, ScalarProducts
    <2> QED BY <1>2, <2>1, <2>2
  <1>4. 2 \in Nat /\ 4 \in Nat
    OBVIOUS
  <1>5. Authentic(Deal(u, s, 2), u, F) /\ Authentic(Deal(v, s, 4), v, F)
    BY <1>3, <1>4, DealHolds
  <1> DEFINE vals == <<u, v>>
             V == <<Deal(u, s, 2), Deal(v, s, 4)>>
  <1>6. vals \in [1..2 -> F] /\ V = [k \in 1..2 |-> V[k]]
    BY <1>3
  <1>7. Input("ScalarShare", vals, V)
    BY <1>1, <1>2
  <1>8. vals[1] = u /\ vals[2] = v /\ V[1] = Deal(u, s, 2) /\ V[2] = Deal(v, s, 4)
    OBVIOUS
  <1> HIDE DEF vals, V
  <1>9. \A k \in 1..2 : Holds("ScalarShare", V[k], vals[k])
    <2>1. \A k \in 1..2 : k = 1 \/ k = 2
      OBVIOUS
    <2> QED BY <1>5, <1>8, <2>1, HoldsKinds
  <1> QED BY <1>4, <1>6, <1>7, <1>9, CarrierKinds, HoldsKinds, InputStep

---------------------------------------------------------------------------
(* Corruptions                                                             *)

SharedKinds == {"ScalarShare", "PointShare"}

\* A helper that changes only shares or only MACs of a wire takes a step.
LEMMA ModifyStep ==
    ASSUME CircuitInv, NEW kind \in SharedKinds, NEW b \in Singles(Singles(Wires(kind))),
           NEW x \in [Party -> ShareOf(CarrierOf(kind))],
           Emit(Gates("modify", kind, b, NoLit), <<x>>), opening' = opening,
           \/ Open(x) = Open(tape[b[1][1]])
           \/ MacSumOf(x) = MacSumOf(tape[b[1][1]])
    PROVE  Extends
  <1>1. kind \in Kinds /\ IsShared(kind)
    BY DEF SharedKinds, Kinds, IsShared
  <1>2. PICK w : w = b[1]
    OBVIOUS
  <1>3. w \in Seq(Nat) /\ b = <<w>> /\ w[1] \in Wires(kind)
    BY <1>1, <1>2, SingleArgument
  <1>4. w[1] \in DOMAIN circuit /\ circuit[w[1]].kind = kind /\ circuit[w[1]].op # "modify"
    BY <1>3 DEF Wires
  <1> DEFINE g == GateOf("modify", kind, w, NoLit)
  <1>5. g.op = "modify" /\ g.kind = kind /\ g.args = w
    BY DEF GateOf
  <1> HIDE DEF g
  <1>6. ModifyOK(g, x)
    BY <1>1, <1>2, <1>4, <1>5 DEF ModifyOK
  <1>7. GateOK(g, x)
    BY <1>5, <1>6 DEF GateOK
  <1>8. "modify" \in Ops /\ NoLit \in Lits
    BY DEF Ops, NoLit, Lits
  <1>9. Emit(Gates("modify", kind, <<w>>, NoLit), <<x>>)
    BY <1>3
  <1> QED BY <1>1, <1>3, <1>7, <1>8, <1>9, OneStep DEF g

\* What the helpers write, of the sharing x.
WithMac(x, who, v) ==
    [p \in Party |-> IF p \in who THEN [x[p] EXCEPT !.mac = v] ELSE x[p]]
WithShare(x, who, v) ==
    [p \in Party |-> IF p \in who THEN [x[p] EXCEPT !.share = v] ELSE x[p]]

LEMMA WithFacts ==
    ASSUME NEW M, NEW x \in [Party -> ShareOf(M)], NEW who, NEW v \in M
    PROVE  /\ WithMac(x, who, v) \in [Party -> ShareOf(M)] /\ Open(WithMac(x, who, v)) = Open(x)
           /\ WithShare(x, who, v) \in [Party -> ShareOf(M)]
           /\ MacSumOf(WithShare(x, who, v)) = MacSumOf(x)
  <1>1. ASSUME NEW p \in Party
        PROVE  /\ x[p] = [share |-> x[p].share, mac |-> x[p].mac]
               /\ x[p].share \in M /\ x[p].mac \in M
    BY DEF ShareOf
  <1>2. ASSUME NEW p \in Party
        PROVE  /\ WithMac(x, who, v)[p] \in ShareOf(M)
               /\ WithMac(x, who, v)[p].share = x[p].share
    BY <1>1 DEF WithMac, ShareOf
  <1>3. ASSUME NEW p \in Party
        PROVE  /\ WithShare(x, who, v)[p] \in ShareOf(M)
               /\ WithShare(x, who, v)[p].mac = x[p].mac
    BY <1>1 DEF WithShare, ShareOf
  <1>4. WithMac(x, who, v) \in [Party -> ShareOf(M)]
    BY <1>2 DEF WithMac
  <1>5. WithShare(x, who, v) \in [Party -> ShareOf(M)]
    BY <1>3 DEF WithShare
  <1>6. 0 \in Party /\ 1 \in Party
    BY DEF Party
  <1>7. Open(WithMac(x, who, v)) = Open(x)
    BY <1>2, <1>6 DEF Open
  <1>8. MacSumOf(WithShare(x, who, v)) = MacSumOf(x)
    BY <1>3, <1>6 DEF MacSumOf
  <1> QED BY <1>4, <1>5, <1>7, <1>8

\* The sharing a helper is called on.
LEMMA ModifySource ==
    ASSUME CircuitInv, NEW kind \in SharedKinds, NEW b \in Singles(Singles(Wires(kind)))
    PROVE  /\ tape[b[1][1]] \in [Party -> ShareOf(CarrierOf(kind))]
           /\ b = <<b[1]>>
  <1>1. kind \in Kinds /\ IsShared(kind)
    BY DEF SharedKinds, Kinds, IsShared
  <1>2. Holds(kind, tape[b[1][1]], Values[b[1][1]]) /\ b = <<b[1]>>
    BY <1>1, SingleArgument
  <1> QED BY <1>1, <1>2, HoldsCell

LEMMA ModifyMacStep ==
    ASSUME CircuitInv, NEW kind \in SharedKinds, NEW v \in CarrierOf(kind),
           NEW who, NEW b \in Singles(Singles(Wires(kind))),
           Emit(Gates("modify", kind, b, NoLit),
                [k \in DOMAIN b |-> WithMac(tape[b[k][1]], who, v)]), opening' = opening
    PROVE  Extends
  <1>1. PICK x : x = tape[b[1][1]]
    OBVIOUS
  <1>2. x \in [Party -> ShareOf(CarrierOf(kind))] /\ b = <<b[1]>>
    BY <1>1, ModifySource
  <1>3. [k \in DOMAIN b |-> WithMac(tape[b[k][1]], who, v)] = <<WithMac(x, who, v)>>
    <2>1. DOMAIN b = {1}
      BY <1>2
    <2>2. <<WithMac(x, who, v)>> = [k \in {1} |-> WithMac(x, who, v)]
      OBVIOUS
    <2> QED BY <1>1, <2>1, <2>2
  <1>4. WithMac(x, who, v) \in [Party -> ShareOf(CarrierOf(kind))]
        /\ Open(WithMac(x, who, v)) = Open(x)
    BY <1>2, WithFacts
  <1>5. Emit(Gates("modify", kind, b, NoLit), <<WithMac(x, who, v)>>)
    BY <1>3
  <1> QED BY <1>1, <1>4, <1>5, ModifyStep

LEMMA ModifyShareStep ==
    ASSUME CircuitInv, NEW kind \in SharedKinds, NEW v \in CarrierOf(kind),
           NEW who, NEW b \in Singles(Singles(Wires(kind))),
           Emit(Gates("modify", kind, b, NoLit),
                [k \in DOMAIN b |-> WithShare(tape[b[k][1]], who, v)]), opening' = opening
    PROVE  Extends
  <1>1. PICK x : x = tape[b[1][1]]
    OBVIOUS
  <1>2. x \in [Party -> ShareOf(CarrierOf(kind))] /\ b = <<b[1]>>
    BY <1>1, ModifySource
  <1>3. [k \in DOMAIN b |-> WithShare(tape[b[k][1]], who, v)] = <<WithShare(x, who, v)>>
    <2>1. DOMAIN b = {1}
      BY <1>2
    <2>2. <<WithShare(x, who, v)>> = [k \in {1} |-> WithShare(x, who, v)]
      OBVIOUS
    <2> QED BY <1>1, <2>1, <2>2
  <1>4. WithShare(x, who, v) \in [Party -> ShareOf(CarrierOf(kind))]
        /\ MacSumOf(WithShare(x, who, v)) = MacSumOf(x)
    BY <1>2, WithFacts
  <1>5. Emit(Gates("modify", kind, b, NoLit), <<WithShare(x, who, v)>>)
    BY <1>3
  <1> QED BY <1>1, <1>4, <1>5, ModifyStep

\* Every corruption a test helper writes takes a step.
LEMMA ModificationsStep ==
    ASSUME CircuitInv, Modifications PROVE Extends
  <1>0. "ScalarShare" \in SharedKinds /\ "PointShare" \in SharedKinds
    BY DEF SharedKinds
  <1>1. CASE ScalarModifyMac
    <2>1. PICK v \in Corruptions \cap F, b \in Singles(Singles(Wires("ScalarShare"))),
               who \in SUBSET Party \ {{}} :
              /\ Emit(Gates("modify", "ScalarShare", b, NoLit),
                      [k \in DOMAIN b |-> WithMac(tape[b[k][1]], who, v)])
              /\ opening' = opening
      BY <1>1 DEF ScalarModifyMac, Modify, Compute, WithMac
    <2> QED BY <1>0, <2>1, CarrierKinds, ModifyMacStep
  <1>2. CASE ScalarModifyShare
    <2>1. PICK v \in Corruptions \cap F, b \in Singles(Singles(Wires("ScalarShare"))),
               who \in SUBSET Party \ {{}} :
              /\ Emit(Gates("modify", "ScalarShare", b, NoLit),
                      [k \in DOMAIN b |-> WithShare(tape[b[k][1]], who, v)])
              /\ opening' = opening
      BY <1>2 DEF ScalarModifyShare, Modify, Compute, WithShare
    <2> QED BY <1>0, <2>1, CarrierKinds, ModifyShareStep
  <1>3. CASE PointModifyMac \/ PointModifyShare
    <2>1. PICK v \in Corruptions \cap Points, b \in Singles(Singles(Wires("PointShare"))),
               who \in SUBSET Party \ {{}} :
              /\ Emit(Gates("modify", "PointShare", b, NoLit),
                      [k \in DOMAIN b |-> WithMac(tape[b[k][1]], who, v)])
              /\ opening' = opening
      BY <1>3 DEF PointModifyMac, PointModifyShare, Modify, Compute, WithMac
    <2> QED BY <1>0, <2>1, CarrierKinds, ModifyMacStep
  <1> QED BY <1>1, <1>2, <1>3 DEF Modifications

---------------------------------------------------------------------------
(* Openings                                                                *)

\* What any shared wire holds, a corrupted one too.
LEMMA SharedWire ==
    ASSUME CircuitInv, NEW kind \in SharedKinds, NEW w \in AllWires(kind)
    PROVE  /\ w \in Nat /\ w \in DOMAIN circuit /\ circuit[w].kind = kind
           /\ tape[w] \in [Party -> ShareOf(CarrierOf(kind))]
           /\ Values[w] = Open(tape[w]) /\ Clear(w) = Open(tape[w])
           /\ Open(tape[w]) \in CarrierOf(kind)
  <1>1. kind \in Kinds /\ IsShared(kind)
    BY DEF SharedKinds, Kinds, IsShared
  <1>2. w \in DOMAIN circuit /\ circuit[w].kind = kind
    BY DEF AllWires
  <1>3. w \in Nat /\ w \in DOMAIN tape
    BY <1>2 DEF CircuitInv
  <1>4. Clear(w) = Open(tape[w])
    BY <1>1, <1>2 DEF Clear
  <1>5. Values[w] = Open(tape[w])
    BY <1>3, <1>4 DEF Values
  <1>6. WireOK(circuit[w], tape[w])
    BY <1>2 DEF CircuitInv
  <1>7. tape[w] \in [Party -> ShareOf(CarrierOf(kind))]
    <2>1. CASE circuit[w].op = "modify"
      BY <1>2, <1>6, <2>1 DEF WireOK, ModifyOK
    <2>2. CASE circuit[w].op # "modify"
      <3>1. Holds(kind, tape[w], ClearOf(kind, tape[w]))
        BY <1>2, <1>6, <2>2 DEF WireOK
      <3> QED BY <1>1, <3>1, HoldsCell
    <2> QED BY <2>1, <2>2
  <1>8. Open(tape[w]) \in CarrierOf(kind)
    <2>1. tape[w][0].share \in CarrierOf(kind) /\ tape[w][1].share \in CarrierOf(kind)
      BY <1>7 DEF Party, ShareOf
    <2> QED BY <1>1, <2>1, KindFacts, Closed DEF Open
  <1> QED BY <1>2, <1>3, <1>4, <1>5, <1>7, <1>8

\* An authenticated opening of shared wires appends their values.
LEMMA OpenAuthenticatedStep ==
    ASSUME CircuitInv, NEW kind \in SharedKinds, NEW pub \in Kinds, ~IsShared(pub),
           CarrierOf(pub) = CarrierOf(kind),
           NEW n \in Nat, NEW ws \in [1..n -> AllWires(kind)], NEW oks,
           OpenAuthenticated(pub, ws, oks)
    PROVE  \E H, U : Step(H, U)
  <1> DEFINE b == [k \in 1..n |-> <<ws[k]>>]
             V == [k \in 1..n |-> Public(Open(tape[ws[k]]))]
  <1>1. DOMAIN ws = 1..n /\ \A k \in 1..n : ws[k] \in AllWires(kind)
    OBVIOUS
  <1>2. Emit(Gates("open", pub, b, NoLit), V)
    BY <1>1 DEF OpenAuthenticated
  <1>3. b \in [1..n -> Seq(Nat)]
    <2>1. \A k \in 1..n : ws[k] \in Nat
      BY <1>1, SharedWire
    <2>2. \A k \in 1..n : <<ws[k]>> \in Seq(Nat)
      BY <2>1
    <2> QED BY <2>2
  <1>4. ASSUME NEW k \in 1..n PROVE GateOK(GateOf("open", pub, b[k], NoLit), V[k])
    <2>1. PICK w : w = ws[k]
      OBVIOUS
    <2>2. w \in AllWires(kind)
      BY <1>1, <2>1
    <2>3. Values[w] = Open(tape[w]) /\ Open(tape[w]) \in CarrierOf(kind)
      BY <2>2, SharedWire
    <2>4. b[k] = <<w>> /\ V[k] = Public(Open(tape[w])) /\ b[k][1] = w
      BY <2>1
    <2> DEFINE g == GateOf("open", pub, b[k], NoLit)
    <2>5. g.op = "open" /\ g.kind = pub
      BY DEF GateOf
    <2> HIDE DEF b, V
    <2>6. GateValue(g, Values) = Open(tape[w])
      <3>1. GateValue(g, Values) = Values[b[k][1]]
        BY EvalFacts
      <3> QED BY <2>3, <2>4, <3>1
    <2> HIDE DEF g
    <2>7. Holds(pub, V[k], GateValue(g, Values))
      BY <2>3, <2>4, <2>6 DEF Holds
    <2>8. GateOK(g, V[k])
      BY <2>5, <2>7 DEF GateOK, ZerothPower
    <2> QED BY <2>8 DEF g
  <1>5. V = [k \in 1..n |-> V[k]]
    OBVIOUS
  <1>6. "open" \in Ops /\ NoLit \in Lits
    BY DEF Ops, NoLit, Lits
  <1> HIDE DEF b, V
  <1> QED BY <1>2, <1>3, <1>4, <1>5, <1>6, BatchGates

---------------------------------------------------------------------------
(* The invariant                                                           *)

LEMMA InputsStep ==
    ASSUME CircuitInv, DrawsInField, Inputs PROVE Extends
  BY AllocateScalarStep, AllocatePointStep, ShareScalarStep, SharePointStep,
     RandomSharedScalarStep, RandomInversePairStep, RandomSharedBitStep DEF Inputs

LEMMA PublicGatesStep ==
    ASSUME CircuitInv, PublicGates PROVE Extends
  BY ScalarResultAddStep, ScalarResultSubStep, ScalarResultMulStep,
     ScalarResultNegStep, ScalarResultInverseStep, ScalarResultBatchInverseStep,
     ScalarResultPowStep, ScalarResultProductStep,
     CurvePointResultAddStep, CurvePointResultSubStep, CurvePointResultMulStep,
     CurvePointResultNegStep, CurvePointResultSumStep, CurvePointResultMsmStep
     DEF PublicGates

LEMMA ScalarGatesStep ==
    ASSUME CircuitInv, DrawsInField, ScalarGates PROVE Extends
  BY ScalarAddPublicStep, ScalarAddStep, ScalarBatchAddPublicStep, ScalarSumStep,
     ScalarSubPublicStep, PublicSubScalarStep, ScalarSubStep,
     ScalarBatchSubPublicStep, ScalarNegStep, ScalarMulPublicStep,
     ScalarBatchMulPublicStep, ScalarMulStep, ScalarBatchMulStep,
     ScalarInverseStep, ScalarDivPublicStep, ScalarDivStep, ScalarPowStep,
     ScalarMulPointStep, ScalarBitXorStep, ScalarBitXorBatchStep,
     ScalarBitXorPublicStep, ScalarBitXorPublicBatchStep, ScalarPrefixProductStep DEF ScalarGates

LEMMA PointGatesStep ==
    ASSUME CircuitInv, DrawsInField, PointGates PROVE Extends
  BY PointAddPublicStep, PointAddStep, PointSumStep, PointSubPublicStep,
     PointSubStep, PointNegStep, PointMulPublicStep, PointMulStep,
     PointBatchMulStep, PointMulGeneratorStep, PointMsmStep,
     PointMsmAuthenticatedStep DEF PointGates

\* An authenticated opening of n wires of this kind.
Opened(n, kind) ==
    /\ \E G, V : Step(G, V)
    /\ \E ws \in [1..n -> AllWires(kind)] :
          /\ opening'.args = ws
          /\ opening'.value = [k \in 1..n |-> Public(Open(tape[ws[k]]))]
          /\ \/ opening'.ok = [k \in 1..n |-> [p \in Party |->
                                  Verdict(ws, Neutral(CarrierOf(kind)), p)]]
             \/ opening'.ok = [k \in 1..n |-> [p \in Party |->
                                  Verdict(<<ws[k]>>, Neutral(CarrierOf(kind)), p)]]

LEMMA ScalarOpenAuthenticatedStep ==
    ASSUME CircuitInv, ScalarOpenAuthenticated
    PROVE  \E n \in Nat, kind \in SharedKinds : Opened(n, kind)
  <1>1. PICK ws \in Batches(AllWires("ScalarShare")) :
            OpenAuthenticated("Scalar", ws,
                [k \in DOMAIN ws |-> [p \in Party |-> Verdict(ws, Zero, p)]])
    BY DEF ScalarOpenAuthenticated
  <1>2. PICK n \in Nat : ws \in [1..n -> AllWires("ScalarShare")]
    BY <1>1, AreBatches DEF IsBatch
  <1>3. "Scalar" \in Kinds /\ "ScalarShare" \in SharedKinds /\ ~IsShared("Scalar")
    BY DEF Kinds, SharedKinds, IsShared
  <1>4. CarrierOf("Scalar") = CarrierOf("ScalarShare") /\ Neutral(CarrierOf("ScalarShare")) = Zero
    BY CarrierKinds, CarrierFacts
  <1>5. \E G, V : Step(G, V)
    BY <1>1, <1>2, <1>3, <1>4, OpenAuthenticatedStep
  <1>6. DOMAIN ws = 1..n
    BY <1>2
  <1>7. /\ opening'.args = ws
        /\ opening'.value = [k \in 1..n |-> Public(Open(tape[ws[k]]))]
        /\ opening'.ok = [k \in 1..n |-> [p \in Party |-> Verdict(ws, Zero, p)]]
    BY <1>1, <1>6 DEF OpenAuthenticated
  <1>8. Opened(n, "ScalarShare")
    BY <1>2, <1>4, <1>5, <1>7 DEF Opened
  <1> QED BY <1>3, <1>8

LEMMA PointOpenAuthenticatedStep ==
    ASSUME CircuitInv, PointOpenAuthenticated
    PROVE  \E n \in Nat, kind \in SharedKinds : Opened(n, kind)
  <1>1. PICK ws \in Batches(AllWires("PointShare")) :
            OpenAuthenticated("Point", ws,
                [k \in DOMAIN ws |-> [p \in Party |-> Verdict(<<ws[k]>>, Identity, p)]])
    BY DEF PointOpenAuthenticated
  <1>2. PICK n \in Nat : ws \in [1..n -> AllWires("PointShare")]
    BY <1>1, AreBatches DEF IsBatch
  <1>3. "Point" \in Kinds /\ "PointShare" \in SharedKinds /\ ~IsShared("Point")
    BY DEF Kinds, SharedKinds, IsShared
  <1>4. CarrierOf("Point") = CarrierOf("PointShare") /\ Neutral(CarrierOf("PointShare")) = Identity
    BY <1>3, CarrierKinds, KindFacts
  <1>5. \E G, V : Step(G, V)
    BY <1>1, <1>2, <1>3, <1>4, OpenAuthenticatedStep
  <1>6. DOMAIN ws = 1..n
    BY <1>2
  <1>7. /\ opening'.args = ws
        /\ opening'.value = [k \in 1..n |-> Public(Open(tape[ws[k]]))]
        /\ opening'.ok = [k \in 1..n |-> [p \in Party |-> Verdict(<<ws[k]>>, Identity, p)]]
    BY <1>1, <1>6 DEF OpenAuthenticated
  <1>8. Opened(n, "PointShare")
    BY <1>2, <1>4, <1>5, <1>7 DEF Opened
  <1> QED BY <1>3, <1>8

\* Every operation appends gates, and opens nothing or what it appends.
LEMMA NextStep ==
    ASSUME CircuitInv, DrawsInField, Next
    PROVE  Extends \/ \E n \in Nat, kind \in SharedKinds : Opened(n, kind)
  <1>1. CASE Inputs
    BY <1>1, InputsStep
  <1>2. CASE PublicGates
    BY <1>2, PublicGatesStep
  <1>3. CASE ScalarGates
    BY <1>3, ScalarGatesStep
  <1>4. CASE PointGates
    BY <1>4, PointGatesStep
  <1>5. CASE Opens
    BY <1>5, ScalarOpenStep, PointOpenStep, ScalarOpenAuthenticatedStep,
       PointOpenAuthenticatedStep DEF Opens
  <1>6. CASE Modifications
    BY <1>6, ModificationsStep
  <1> QED BY <1>1, <1>2, <1>3, <1>4, <1>5, <1>6 DEF Next

\* The shared one: the parties' ids are its shares, their key shares its MACs.
LEMMA SharedOne ==
    ASSUME key \in [Party -> F]
    PROVE  Authentic([p \in Party |-> [share |-> IF p = 0 THEN Zero ELSE One,
                                       mac |-> key[p]]], One, F)
  <1> DEFINE x == [p \in Party |-> [share |-> IF p = 0 THEN Zero ELSE One, mac |-> key[p]]]
  <1>1. key[0] \in F /\ key[1] \in F /\ Zero \in F /\ One \in F
    BY Closed, CarrierFacts, FieldAssumption DEF Party
  <1>2. /\ x = [p \in Party |-> x[p]]
        /\ x[0] = [share |-> Zero, mac |-> key[0]] /\ x[1] = [share |-> One, mac |-> key[1]]
    BY DEF Party
  <1> HIDE DEF x
  <1>3. /\ x \in [Party -> ShareOf(F)] /\ x[0].share = Zero /\ x[1].share = One
        /\ x[0].mac = key[0] /\ x[1].mac = key[1]
    BY <1>1, <1>2, BothParties
  <1>4. Plus(Zero, One) = One
    BY <1>1, CarrierFacts, GroupAssumption
  <1>5. MacKey \in F
    BY <1>1, Closed, CarrierFacts DEF MacKey
  <1>6. Times(MacKey, One) = Plus(key[0], key[1])
    BY <1>5, ScalarProducts DEF MacKey
  <1>7. Authentic(x, One, F)
    BY <1>3, <1>4, <1>6 DEF Authentic, Open
  <1> QED BY <1>7 DEF x

\* The constant gates, one by one.
LEMMA ConstantGates ==
    /\ Ideal!ConstantGate(1) = GateOf("input", "Scalar", <<>>, Zero)
    /\ Ideal!ConstantGate(2) = GateOf("input", "Scalar", <<>>, One)
    /\ Ideal!ConstantGate(3) = GateOf("input", "Point", <<>>, Identity)
    /\ Ideal!ConstantGate(4) = GateOf("input", "ScalarShare", <<>>, Zero)
    /\ Ideal!ConstantGate(5) = GateOf("input", "ScalarShare", <<>>, One)
    /\ Ideal!ConstantGate(6) = GateOf("input", "PointShare", <<>>, Identity)
  BY DEF Ideal!ConstantGate, Ideal!Constants, GateOf

\* The constants stand for themselves.
LEMMA InitWires ==
    ASSUME Init
    PROVE  /\ key \in [Party -> F] /\ program \in Programs
           /\ DOMAIN circuit = 1..6 /\ DOMAIN tape = 1..6
           /\ circuit = [k \in 1..6 |-> Ideal!ConstantGate(k)]
           /\ tape = InitialValues
           /\ \A k \in 1..6 : /\ circuit[k] \in Gate /\ circuit[k].op = "input"
                              /\ Holds(circuit[k].kind, tape[k], circuit[k].lit)
  <1>1. key \in [Party -> F] /\ program \in Programs
    BY CircuitAssumption DEF Init
  <1>2. circuit = [k \in 1..6 |-> Ideal!ConstantGate(k)] /\ tape = InitialValues
    BY DEF Init, NConstants
  <1>3. /\ circuit[1] = GateOf("input", "Scalar", <<>>, Zero)
        /\ circuit[2] = GateOf("input", "Scalar", <<>>, One)
        /\ circuit[3] = GateOf("input", "Point", <<>>, Identity)
        /\ circuit[4] = GateOf("input", "ScalarShare", <<>>, Zero)
        /\ circuit[5] = GateOf("input", "ScalarShare", <<>>, One)
        /\ circuit[6] = GateOf("input", "PointShare", <<>>, Identity)
    BY <1>2, ConstantGates
  <1>4. /\ tape[1] = Public(Zero) /\ tape[2] = Public(One) /\ tape[3] = Public(Identity)
        /\ tape[4] = [p \in Party |-> [share |-> Zero, mac |-> Zero]]
        /\ tape[5] = [p \in Party |-> [share |-> IF p = 0 THEN Zero ELSE One, mac |-> key[p]]]
        /\ tape[6] = [p \in Party |-> [share |-> Identity, mac |-> Identity]]
        /\ DOMAIN tape = 1..6
    BY <1>2 DEF InitialValues
  <1>5. MacKey \in F
    <2>1. key[0] \in F /\ key[1] \in F
      BY <1>1 DEF Party
    <2> QED BY <2>1, Closed, CarrierFacts DEF MacKey
  <1>6. Zero \in F /\ One \in F /\ Identity \in Points /\ Neutral(Points) = Identity
    <2>1. Neutral(Points) = Identity
      BY CircuitAssumption DEF Neutral
    <2> QED BY <2>1, Closed, CarrierFacts, FieldAssumption
  <1>7. /\ Authentic(tape[4], Zero, F) /\ Authentic(tape[5], One, F)
        /\ Authentic(tape[6], Identity, Points)
    <2>1. Authentic([p \in Party |-> [share |-> Neutral(F), mac |-> Neutral(F)]], Neutral(F), F)
      BY <1>5, CarrierFacts, NeutralAuthentic
    <2>2. Authentic([p \in Party |-> [share |-> Neutral(Points), mac |-> Neutral(Points)]],
                    Neutral(Points), Points)
      BY <1>5, CarrierFacts, NeutralAuthentic
    <2>3. Authentic(tape[4], Zero, F)
      BY <1>4, <2>1, CarrierFacts
    <2>4. Authentic(tape[6], Identity, Points)
      BY <1>4, <1>6, <2>2
    <2>5. Authentic(tape[5], One, F)
      BY <1>1, <1>4, SharedOne
    <2> QED BY <2>3, <2>4, <2>5
  <1>8. /\ Holds("Scalar", tape[1], Zero) /\ Holds("Scalar", tape[2], One)
        /\ Holds("Point", tape[3], Identity) /\ Holds("ScalarShare", tape[4], Zero)
        /\ Holds("ScalarShare", tape[5], One) /\ Holds("PointShare", tape[6], Identity)
    BY <1>4, <1>6, <1>7, HoldsKinds
  <1>9. ASSUME NEW kind \in Kinds, NEW lit \in F \cup Points
        PROVE  /\ GateOf("input", kind, <<>>, lit) \in Gate
               /\ GateOf("input", kind, <<>>, lit).op = "input"
               /\ GateOf("input", kind, <<>>, lit).kind = kind
               /\ GateOf("input", kind, <<>>, lit).lit = lit
    <2>1. <<>> \in Seq(Nat) /\ "input" \in Ops /\ lit \in Lits
      BY DEF Ops, Lits
    <2> QED BY <2>1 DEF GateOf, Gate
  <1>10. /\ "Scalar" \in Kinds /\ "Point" \in Kinds /\ "ScalarShare" \in Kinds
         /\ "PointShare" \in Kinds
    BY DEF Kinds
  <1>11. ASSUME NEW k \in 1..6
         PROVE  /\ circuit[k] \in Gate /\ circuit[k].op = "input"
                /\ Holds(circuit[k].kind, tape[k], circuit[k].lit)
    <2>1. CASE k = 1
      BY <1>3, <1>6, <1>8, <1>9, <1>10, <2>1
    <2>2. CASE k = 2
      BY <1>3, <1>6, <1>8, <1>9, <1>10, <2>2
    <2>3. CASE k = 3
      BY <1>3, <1>6, <1>8, <1>9, <1>10, <2>3
    <2>4. CASE k = 4
      BY <1>3, <1>6, <1>8, <1>9, <1>10, <2>4
    <2>5. CASE k = 5
      BY <1>3, <1>6, <1>8, <1>9, <1>10, <2>5
    <2>6. CASE k = 6
      BY <1>3, <1>6, <1>8, <1>9, <1>10, <2>6
    <2> QED BY <2>1, <2>2, <2>3, <2>4, <2>5, <2>6
  <1>12. DOMAIN circuit = 1..6
    BY <1>2
  <1> QED BY <1>1, <1>2, <1>4, <1>11, <1>12

LEMMA InitInv == Init => CircuitInv
  <1> SUFFICES ASSUME Init PROVE CircuitInv
    OBVIOUS
  <1>1. /\ key \in [Party -> F] /\ program \in Programs
        /\ DOMAIN circuit = 1..6 /\ DOMAIN tape = 1..6
        /\ circuit = [k \in 1..6 |-> Ideal!ConstantGate(k)]
        /\ tape = InitialValues
    BY InitWires
  <1>2. ASSUME NEW k \in 1..6
        PROVE  circuit[k] \in Gate /\ tape[k] \in Cells /\ WireOK(circuit[k], tape[k])
    <2>1. PICK g, x : g = circuit[k] /\ x = tape[k]
      OBVIOUS
    <2>2. g \in Gate /\ g.op = "input" /\ Holds(g.kind, x, g.lit)
      BY <2>1, InitWires
    <2>3. g.kind \in Kinds
      BY <2>2 DEF Gate
    <2>4. x \in Cells /\ Holds(g.kind, x, ClearOf(g.kind, x))
      BY <2>2, <2>3, HoldsCell, HoldsClear
    <2>5. WireOK(g, x)
      BY <2>2, <2>4 DEF WireOK
    <2> QED BY <2>1, <2>2, <2>4, <2>5
  <1>3. circuit \in [1..6 -> Gate]
    BY <1>1, <1>2
  <1>4. tape \in [1..6 -> Cells]
    <2>1. tape = [k \in 1..6 |-> tape[k]]
      BY <1>1 DEF InitialValues
    <2> QED BY <1>2, <2>1
  <1>5. circuit \in Seq(Gate) /\ tape \in Seq(Cells) /\ Len(tape) = 6 /\ Len(circuit) = 6
    <2>1. \A n \in Nat : \A T : \A c \in [1..n -> T] : c \in Seq(T) /\ Len(c) = n
      OBVIOUS
    <2>2. 6 \in Nat
      OBVIOUS
    <2> QED BY <1>3, <1>4, <2>1, <2>2
  <1> QED BY <1>1, <1>2, <1>5 DEF CircuitInv

\* CircuitInv is inductive: every wire, whatever operation made it, holds
\* shares of its value with MACs under the key.
THEOREM CircuitInvariant ==
    ASSUME DrawsInField PROVE Spec => []CircuitInv
  <1>1. CircuitInv /\ [Next]_vars => CircuitInv'
    <2> SUFFICES ASSUME CircuitInv, [Next]_vars PROVE CircuitInv'
      OBVIOUS
    <2>1. CASE Next
      <3>1. \E G, V : Step(G, V)
        BY <2>1, NextStep DEF Extends, Opened
      <3> QED BY <3>1, StepInv
    <2>2. CASE UNCHANGED vars
      BY <2>2 DEF vars, CircuitInv, WireOK, Holds, ClearOf, ModifyOK, Authentic, Open,
                  MacSumOf, MacKey
    <2> QED BY <2>1, <2>2
  <1> QED BY <1>1, InitInv, PTL DEF Spec

\* TypeOK: every wire holds, at both parties, a value of the variant its
\* handle's conversion from ResultValue expects.
THEOREM CircuitTypeOK ==
    ASSUME DrawsInField PROVE Spec => []TypeOK
  <1>1. CircuitInv => TypeOK
    <2> SUFFICES ASSUME CircuitInv PROVE TypeOK
      OBVIOUS
    <2>1. ASSUME NEW w \in DOMAIN circuit
          PROVE  tape[w] \in [Party -> IF IsShared(circuit[w].kind)
                                       THEN ShareOf(CarrierOf(circuit[w].kind))
                                       ELSE CarrierOf(circuit[w].kind)]
      <3>1. PICK g, x : g = circuit[w] /\ x = tape[w]
        OBVIOUS
      <3>2. WireOK(g, x) /\ g \in Gate
        BY <3>1 DEF CircuitInv
      <3>3. g.kind \in Kinds
        BY <3>2 DEF Gate
      <3>4. CASE g.op = "modify"
        BY <3>1, <3>2, <3>4 DEF WireOK, ModifyOK
      <3>5. CASE g.op # "modify"
        <4>1. Holds(g.kind, x, ClearOf(g.kind, x))
          BY <3>2, <3>5 DEF WireOK
        <4> QED BY <3>1, <3>3, <4>1, HoldsCell
      <3> QED BY <3>4, <3>5
    <2> QED BY <2>1 DEF TypeOK, CircuitInv
  <1> QED BY <1>1, CircuitInvariant, PTL

\* An honest shared wire is authentic.
LEMMA HonestWire ==
    ASSUME CircuitInv, NEW w \in DOMAIN circuit, IsShared(circuit[w].kind),
           circuit[w].op # "modify"
    PROVE  MacSumOf(tape[w]) = Times(MacKey, Open(tape[w])) /\ Clear(w) = Open(tape[w])
  <1>1. PICK g, x : g = circuit[w] /\ x = tape[w]
    OBVIOUS
  <1>2. Holds(g.kind, x, ClearOf(g.kind, x))
    BY <1>1 DEF CircuitInv, WireOK
  <1>3. Authentic(x, Open(x), CarrierOf(g.kind))
    BY <1>1, <1>2 DEF Holds, ClearOf
  <1> QED BY <1>1, <1>3 DEF Authentic, MacSumOf, Clear

\* MacsAuthentic, the SPDZ invariant: whatever arithmetic of
\* AuthenticatedScalarResult and AuthenticatedPointResult made a shared wire,
\* its MACs add up to the MAC key times its value.
THEOREM CircuitMacsAuthentic ==
    ASSUME DrawsInField PROVE Spec => []MacsAuthentic
  <1>1. CircuitInv => MacsAuthentic
    BY HonestWire DEF MacsAuthentic, MacSum, MacSumOf
  <1> QED BY <1>1, CircuitInvariant, PTL

---------------------------------------------------------------------------
(* The authenticated openings                                              *)

\* The parties' shares of the MAC check of x cancel.
Cancels(x, M) == Plus(MacCheck(x, Open(x), 0), MacCheck(x, Open(x), 1)) = Neutral(M)

\* They do so exactly when the MACs are those of the value opened.
LEMMA CancelsExactly ==
    ASSUME NEW M \in Carriers, key[0] \in F, key[1] \in F, NEW x \in [Party -> ShareOf(M)]
    PROVE  /\ Cancels(x, M) <=> MacSumOf(x) = Times(MacKey, Open(x))
           /\ MacCheck(x, Open(x), 0) \in M /\ MacCheck(x, Open(x), 1) \in M
           /\ Open(x) \in M /\ MacSumOf(x) \in M
  <1>1. PICK s0, s1, m0, m1 \in M : /\ x[0].share = s0 /\ x[1].share = s1
                                    /\ x[0].mac = m0 /\ x[1].mac = m1
    <2>1. x[0] \in ShareOf(M) /\ x[1] \in ShareOf(M)
      BY DEF Party
    <2>2. x[0].share \in M /\ x[1].share \in M /\ x[0].mac \in M /\ x[1].mac \in M
      BY <2>1 DEF ShareOf
    <2> QED BY <2>2
  <1>2. PICK u : u = Open(x)
    OBVIOUS
  <1>3. u \in M /\ MacSumOf(x) = Plus(m0, m1) /\ Plus(m0, m1) \in M
    BY <1>1, <1>2, Closed DEF Open, MacSumOf
  <1>4. PICK k0, k1 \in F : k0 = key[0] /\ k1 = key[1]
    OBVIOUS
  <1> DEFINE c0 == Times(k0, u)
             c1 == Times(k1, u)
             total == Plus(MacCheck(x, u, 0), MacCheck(x, u, 1))
             t == Plus(c0, c1)
             m == Plus(m0, m1)
  <1>5. c0 \in M /\ c1 \in M /\ Neg(m0) \in M /\ Neg(m1) \in M /\ t \in M
    BY <1>3, Closed
  <1>6. MacCheck(x, u, 0) = Minus(c0, m0) /\ MacCheck(x, u, 1) = Minus(c1, m1)
    BY <1>1, <1>4 DEF MacCheck
  <1>7. t = Times(MacKey, u)
    BY <1>3, <1>4, ModuleAssumption DEF MacKey
  <1>8. total = Plus(Plus(c0, Neg(m0)), Plus(c1, Neg(m1)))
    BY <1>6 DEF Minus
  <1>9. Plus(Plus(c0, Neg(m0)), Plus(c1, Neg(m1))) = Plus(t, Plus(Neg(m0), Neg(m1)))
    BY <1>5, Regroup
  <1>10. Plus(Neg(m0), Neg(m1)) = Neg(m)
    BY NegPlus
  <1>11. total = Minus(t, m) /\ m \in M
    BY <1>3, <1>8, <1>9, <1>10 DEF Minus
  <1>12. Minus(c0, m0) \in M /\ Minus(c1, m1) \in M
    BY <1>5, Closed
  <1> HIDE DEF t, m, c0, c1
  <1>13. total = Neutral(M) <=> m = t
    <2>1. Plus(Minus(t, m), m) = t
      BY <1>5, <1>11, MinusPlus
    <2>2. Plus(Neutral(M), m) = m /\ Minus(m, m) = Neutral(M)
      BY <1>11, Closed, GroupAssumption DEF Minus
    <2> HIDE DEF total
    <2> QED BY <1>11, <2>1, <2>2
  <1>14. Cancels(x, M) <=> total = Neutral(M)
    BY <1>2 DEF Cancels
  <1>15. MacSumOf(x) = m
    BY <1>3 DEF m
  <1> HIDE DEF total
  <1> QED BY <1>2, <1>3, <1>6, <1>7, <1>12, <1>13, <1>14, <1>15

\* A verdict is the conjunction of the checks of the wires it is about.
LEMMA VerdictExactly ==
    ASSUME CircuitInv, NEW kind \in SharedKinds, NEW n \in Nat,
           NEW ws \in [1..n -> AllWires(kind)], NEW p \in Party
    PROVE  Verdict(ws, Neutral(CarrierOf(kind)), p)
           <=> \A k \in 1..n : Cancels(tape[ws[k]], CarrierOf(kind))
  <1> DEFINE M == CarrierOf(kind)
             c(k, q) == MacCheck(tape[ws[k]], Open(tape[ws[k]]), q)
  <1>1. M \in Carriers
    BY KindFacts DEF SharedKinds, Kinds
  <1>2. DOMAIN ws = 1..n
    OBVIOUS
  <1>3. Verdict(ws, Neutral(M), p)
        <=> \A k \in 1..n : Plus(c(k, p), c(k, 1 - p)) = Neutral(M)
    BY <1>2 DEF Verdict, batch_verify_mac_check, verify
  <1>4. ASSUME NEW k \in 1..n
        PROVE  Plus(c(k, p), c(k, 1 - p)) = Neutral(M) <=> Cancels(tape[ws[k]], M)
    <2>1. PICK x : x = tape[ws[k]]
      OBVIOUS
    <2>2. x \in [Party -> ShareOf(M)]
      BY <2>1, SharedWire
    <2>3. MacCheck(x, Open(x), 0) \in M /\ MacCheck(x, Open(x), 1) \in M
      BY <1>1, <2>2, KeyFacts, CancelsExactly
    <2>4. c(k, 0) = MacCheck(x, Open(x), 0) /\ c(k, 1) = MacCheck(x, Open(x), 1)
      BY <2>1
    <2>5. Plus(c(k, 1), c(k, 0)) = Plus(c(k, 0), c(k, 1))
      BY <1>1, <2>3, <2>4, GroupAssumption
    <2>6. (p = 0 /\ 1 - p = 1) \/ (p = 1 /\ 1 - p = 0)
      BY DEF Party
    <2>7. Cancels(x, M) <=> Plus(c(k, 0), c(k, 1)) = Neutral(M)
      BY <2>4 DEF Cancels
    <2> HIDE DEF c, M
    <2> QED BY <2>1, <2>5, <2>6, <2>7
  <1> QED BY <1>3, <1>4

\* What an opening recorded: the values opened, and verdicts that accept a
\* wire only if its check cancels, and all of them if all do.
OpeningOK(n, kind, args, value, ok) ==
    /\ args \in [1..n -> AllWires(kind)]
    /\ \A k \in 1..n, p \in Party :
          /\ value[k][p] = Open(tape[args[k]])
          /\ ok[k][p] => Cancels(tape[args[k]], CarrierOf(kind))
          /\ (\A j \in 1..n : Cancels(tape[args[j]], CarrierOf(kind))) => ok[k][p]

OpeningInv ==
    \E n \in Nat, kind \in SharedKinds :
        OpeningOK(n, kind, opening.args, opening.value, opening.ok)

\* What an opening recorded stays true: no later gate changes its wires.
LEMMA OpeningKept ==
    ASSUME CircuitInv, NEW G, NEW V, Step(G, V), NEW n \in Nat, NEW kind \in SharedKinds,
           NEW args, NEW value, NEW ok, OpeningOK(n, kind, args, value, ok)
    PROVE  OpeningOK(n, kind, args, value, ok)'
  <1>1. \A w \in 1..Len(circuit) : circuit'[w] = circuit[w] /\ tape'[w] = tape[w]
    BY StepWires
  <1>2. key' = key
    BY StepWires
  <1>3. DOMAIN circuit = 1..Len(circuit) /\ DOMAIN circuit' = 1..Len(circuit')
        /\ Len(circuit) \in Nat /\ Len(circuit') \in Nat /\ Len(circuit') >= Len(circuit)
    <2>1. circuit \in Seq(Gate) /\ G \in Seq(Gate)
      BY DEF CircuitInv, Step
    <2>2. circuit' \in Seq(Gate) /\ Len(circuit') = Len(circuit) + Len(G)
      BY StepWires
    <2>3. Len(G) \in Nat /\ Len(circuit) \in Nat
      BY <2>1
    <2> QED BY <2>1, <2>2, <2>3
  <1>4. ASSUME NEW k \in 1..n
        PROVE  args[k] \in 1..Len(circuit) /\ args[k] \in AllWires(kind)'
    <2>1. PICK w : w = args[k]
      OBVIOUS
    <2>2. w \in AllWires(kind)
      BY <2>1 DEF OpeningOK
    <2>3. w \in 1..Len(circuit) /\ circuit[w].kind = kind
      BY <1>3, <2>2 DEF AllWires
    <2>4. w \in DOMAIN circuit' /\ circuit'[w].kind = kind
      BY <1>1, <1>3, <2>3
    <2>5. w \in AllWires(kind)'
      BY <2>4 DEF AllWires
    <2> QED BY <2>1, <2>3, <2>5
  <1>5. \A k \in 1..n : tape'[args[k]] = tape[args[k]]
    BY <1>1, <1>4
  <1>6. args \in [1..n -> AllWires(kind)]'
    BY <1>4 DEF OpeningOK
  <1>7. ASSUME NEW k \in 1..n
        PROVE  /\ Open(tape[args[k]])' = Open(tape[args[k]])
               /\ Cancels(tape[args[k]], CarrierOf(kind))'
                  = Cancels(tape[args[k]], CarrierOf(kind))
    BY <1>2, <1>5 DEF Open, Cancels, MacCheck
  <1> QED BY <1>6, <1>7 DEF OpeningOK

\* The verdicts of a batch with one commitment, and of one with a
\* commitment to each check.
LEMMA OpenedOK ==
    ASSUME CircuitInv, NEW n \in Nat, NEW kind \in SharedKinds, Opened(n, kind)
    PROVE  OpeningInv'
  <1>1. PICK G, V : Step(G, V)
    BY DEF Opened
  <1>w. PICK ws \in [1..n -> AllWires(kind)] :
            /\ opening'.args = ws
            /\ opening'.value = [k \in 1..n |-> Public(Open(tape[ws[k]]))]
            /\ \/ opening'.ok = [k \in 1..n |-> [p \in Party |->
                                    Verdict(ws, Neutral(CarrierOf(kind)), p)]]
               \/ opening'.ok = [k \in 1..n |-> [p \in Party |->
                                    Verdict(<<ws[k]>>, Neutral(CarrierOf(kind)), p)]]
    BY DEF Opened
  <1>2. PICK value, ok :
            /\ opening'.args = ws /\ opening'.value = value /\ opening'.ok = ok
            /\ value = [k \in 1..n |-> Public(Open(tape[ws[k]]))]
            /\ \/ ok = [k \in 1..n |-> [p \in Party |->
                           Verdict(ws, Neutral(CarrierOf(kind)), p)]]
               \/ ok = [k \in 1..n |-> [p \in Party |->
                           Verdict(<<ws[k]>>, Neutral(CarrierOf(kind)), p)]]
    BY <1>w
  <1>3. ASSUME NEW k \in 1..n, NEW p \in Party
        PROVE  /\ value[k][p] = Open(tape[ws[k]])
               /\ ok[k][p] => Cancels(tape[ws[k]], CarrierOf(kind))
               /\ (\A j \in 1..n : Cancels(tape[ws[j]], CarrierOf(kind))) => ok[k][p]
    <2>1. value[k][p] = Open(tape[ws[k]])
      BY <1>2 DEF Public
    <2>2. CASE ok = [j \in 1..n |-> [q \in Party |->
                        Verdict(ws, Neutral(CarrierOf(kind)), q)]]
      <3>1. ok[k][p] = Verdict(ws, Neutral(CarrierOf(kind)), p)
        BY <2>2
      <3>2. Verdict(ws, Neutral(CarrierOf(kind)), p)
            <=> \A j \in 1..n : Cancels(tape[ws[j]], CarrierOf(kind))
        BY VerdictExactly
      <3> QED BY <2>1, <3>1, <3>2
    <2>3. CASE ok = [j \in 1..n |-> [q \in Party |->
                        Verdict(<<ws[j]>>, Neutral(CarrierOf(kind)), q)]]
      <3>1. PICK one : one = <<ws[k]>>
        OBVIOUS
      <3>2. ok[k][p] = Verdict(one, Neutral(CarrierOf(kind)), p)
        BY <2>3, <3>1
      <3>3. ws[k] \in AllWires(kind)
        OBVIOUS
      <3>4. one \in [1..1 -> AllWires(kind)] /\ one[1] = ws[k] /\ 1 \in Nat
        BY <3>1, <3>3
      <3>5. Verdict(one, Neutral(CarrierOf(kind)), p)
            <=> \A j \in 1..1 : Cancels(tape[one[j]], CarrierOf(kind))
        BY <3>4, VerdictExactly
      <3>6. Verdict(one, Neutral(CarrierOf(kind)), p) <=> Cancels(tape[ws[k]], CarrierOf(kind))
        <4>1. \A j : j \in 1..1 <=> j = 1
          OBVIOUS
        <4> QED BY <3>4, <3>5, <4>1
      <3> QED BY <2>1, <3>2, <3>6
    <2> QED BY <1>2, <2>2, <2>3
  <1>4. OpeningOK(n, kind, ws, value, ok)
    BY <1>2, <1>3 DEF OpeningOK
  <1>5. OpeningOK(n, kind, ws, value, ok)'
    BY <1>1, <1>4, OpeningKept
  <1> QED BY <1>2, <1>5 DEF OpeningInv

\* The invariant of the openings.
THEOREM OpeningInvariant ==
    ASSUME DrawsInField PROVE Spec => []OpeningInv
  <1>1. Init => OpeningInv
    <2> SUFFICES ASSUME Init PROVE OpeningInv
      OBVIOUS
    <2>1. opening.args = <<>> /\ opening.value = <<>> /\ opening.ok = <<>>
      BY DEF Init, NoOpening
    <2>2. <<>> \in [1..0 -> AllWires("ScalarShare")] /\ 0 \in Nat
          /\ \A k : k \notin 1..0
      OBVIOUS
    <2>3. "ScalarShare" \in SharedKinds
      BY DEF SharedKinds
    <2>4. OpeningOK(0, "ScalarShare", <<>>, <<>>, <<>>)
      BY <2>2 DEF OpeningOK
    <2> QED BY <2>1, <2>2, <2>3, <2>4 DEF OpeningInv
  <1>2. CircuitInv /\ OpeningInv /\ [Next]_vars => OpeningInv'
    <2> SUFFICES ASSUME CircuitInv, OpeningInv, [Next]_vars PROVE OpeningInv'
      OBVIOUS
    <2>1. CASE Next
      <3>1. CASE Extends
        <4>1. PICK G, V : Step(G, V)
          BY <3>1 DEF Extends
        <4>2. PICK n \in Nat, kind \in SharedKinds :
                  OpeningOK(n, kind, opening.args, opening.value, opening.ok)
          BY DEF OpeningInv
        <4>3. PICK args, value, ok :
                  /\ args = opening.args /\ value = opening.value /\ ok = opening.ok
                  /\ OpeningOK(n, kind, args, value, ok)
          BY <4>2
        <4>4. OpeningOK(n, kind, args, value, ok)'
          BY <4>1, <4>3, OpeningKept
        <4>5. opening' = opening
          BY <3>1 DEF Extends
        <4> QED BY <4>3, <4>4, <4>5 DEF OpeningInv
      <3>2. CASE \E n \in Nat, kind \in SharedKinds : Opened(n, kind)
        BY <3>2, OpenedOK
      <3> QED BY <2>1, <3>1, <3>2, NextStep
    <2>2. CASE UNCHANGED vars
      BY <2>2 DEF vars, OpeningInv, OpeningOK, AllWires, Cancels, MacCheck, Open
    <2> QED BY <2>1, <2>2
  <1> QED BY <1>1, <1>2, CircuitInvariant, PTL DEF Spec

\* The wires of an opening.
LEMMA OpeningWires ==
    ASSUME CircuitInv, NEW kind \in SharedKinds, NEW w \in AllWires(kind)
    PROVE  /\ w \in DOMAIN circuit /\ IsShared(circuit[w].kind)
           /\ Clear(w) = Open(tape[w]) /\ Clear(w) \in CarrierOf(kind)
           /\ CarrierOf(kind) \in Carriers
           /\ Cancels(tape[w], CarrierOf(kind)) <=> MacSumOf(tape[w]) = Times(MacKey, Clear(w))
  <1>1. kind \in Kinds /\ IsShared(kind)
    BY DEF SharedKinds, Kinds, IsShared
  <1>2. CarrierOf(kind) \in Carriers
    BY <1>1, KindFacts
  <1>3. /\ w \in DOMAIN circuit /\ circuit[w].kind = kind
        /\ tape[w] \in [Party -> ShareOf(CarrierOf(kind))]
        /\ Clear(w) = Open(tape[w]) /\ Open(tape[w]) \in CarrierOf(kind)
    BY SharedWire
  <1>4. Cancels(tape[w], CarrierOf(kind)) <=> MacSumOf(tape[w]) = Times(MacKey, Open(tape[w]))
    BY <1>2, <1>3, KeyFacts, CancelsExactly
  <1> QED BY <1>1, <1>2, <1>3, <1>4

\* HonestAccepted: open_authenticated of wires nobody tampered with, in a
\* batch too, is accepted by both parties, who hold the circuit's value.
THEOREM CircuitHonestAccepted ==
    ASSUME DrawsInField PROVE Spec => []HonestAccepted
  <1>1. CircuitInv /\ OpeningInv => HonestAccepted
    <2> SUFFICES ASSUME CircuitInv, OpeningInv,
                        \A k \in DOMAIN opening.args : circuit[opening.args[k]].op # "modify",
                        NEW k \in DOMAIN opening.args, NEW p \in Party
                 PROVE  opening.ok[k][p] /\ opening.value[k][p] = Clear(opening.args[k])
      BY DEF HonestAccepted
    <2>1. PICK n \in Nat, kind \in SharedKinds :
              OpeningOK(n, kind, opening.args, opening.value, opening.ok)
      BY DEF OpeningInv
    <2>2. opening.args \in [1..n -> AllWires(kind)] /\ DOMAIN opening.args = 1..n
      BY <2>1 DEF OpeningOK
    <2>3. ASSUME NEW j \in 1..n
          PROVE  /\ Cancels(tape[opening.args[j]], CarrierOf(kind))
                 /\ Clear(opening.args[j]) = Open(tape[opening.args[j]])
      <3>1. PICK w \in AllWires(kind) : w = opening.args[j]
        BY <2>2
      <3>2. circuit[w].op # "modify"
        BY <2>2, <3>1
      <3>3. /\ w \in DOMAIN circuit /\ IsShared(circuit[w].kind)
            /\ Clear(w) = Open(tape[w])
            /\ Cancels(tape[w], CarrierOf(kind))
               <=> MacSumOf(tape[w]) = Times(MacKey, Clear(w))
        BY <2>1, OpeningWires
      <3>4. MacSumOf(tape[w]) = Times(MacKey, Open(tape[w]))
        BY <3>2, <3>3, HonestWire
      <3> QED BY <3>1, <3>3, <3>4
    <2> QED BY <2>1, <2>2, <2>3 DEF OpeningOK
  <1> QED BY <1>1, CircuitInvariant, OpeningInvariant, PTL

\* A non-zero scalar may be cancelled.
LEMMA TimesCancel ==
    ASSUME NEW M \in Carriers, NEW a \in F, a # Zero, NEW x \in M, NEW y \in M,
           Times(a, x) = Times(a, y)
    PROVE  x = y
  <1>1. Inv(a) \in F /\ Times(Inv(a), a) = One
    BY ScalarProducts
  <1>2. Times(Times(Inv(a), a), x) = Times(Inv(a), Times(a, x))
    BY <1>1, ModuleAssumption
  <1>3. Times(Times(Inv(a), a), y) = Times(Inv(a), Times(a, y))
    BY <1>1, ModuleAssumption
  <1>4. Times(One, x) = x /\ Times(One, y) = y
    BY ModuleAssumption
  <1> QED BY <1>1, <1>2, <1>3, <1>4

\* CorruptionDetected: neither party accepts a wire whose share modify_share
\* changed, under a non-zero key, or whose MAC modify_mac changed.
THEOREM CircuitCorruptionDetected ==
    ASSUME DrawsInField PROVE Spec => []CorruptionDetected
  <1>1. CircuitInv /\ OpeningInv => CorruptionDetected
    <2> SUFFICES ASSUME CircuitInv, OpeningInv, NEW k \in DOMAIN opening.args,
                        NEW w, w = opening.args[k],
                        NEW src, src = circuit[w].args[1],
                        circuit[w].op = "modify",
                        \/ MacKey # Zero /\ Clear(w) # Clear(src)
                        \/ Clear(w) = Clear(src) /\ MacSum(w) # MacSum(src),
                        NEW p \in Party
                 PROVE  ~opening.ok[k][p]
      BY DEF CorruptionDetected
    <2>1. PICK n \in Nat, kind \in SharedKinds :
              OpeningOK(n, kind, opening.args, opening.value, opening.ok)
      BY DEF OpeningInv
    <2>2. DOMAIN opening.args = 1..n /\ w \in AllWires(kind)
          /\ (opening.ok[k][p] => Cancels(tape[w], CarrierOf(kind)))
      BY <2>1 DEF OpeningOK
    <2>3. /\ w \in DOMAIN circuit /\ Clear(w) = Open(tape[w]) /\ Clear(w) \in CarrierOf(kind)
          /\ CarrierOf(kind) \in Carriers /\ circuit[w].kind = kind
          /\ Cancels(tape[w], CarrierOf(kind)) <=> MacSumOf(tape[w]) = Times(MacKey, Clear(w))
      BY <2>1, <2>2, OpeningWires DEF AllWires
    <2>4. PICK g : g = circuit[w]
      OBVIOUS
    <2>5. ModifyOK(g, tape[w])
      BY <2>3, <2>4 DEF CircuitInv, WireOK
    <2>6. /\ src \in DOMAIN circuit /\ circuit[src].op # "modify" /\ circuit[src].kind = kind
          /\ Open(tape[w]) = Open(tape[src]) \/ MacSumOf(tape[w]) = MacSumOf(tape[src])
      BY <2>3, <2>4, <2>5 DEF ModifyOK
    <2>7. src \in AllWires(kind)
      BY <2>6 DEF AllWires
    <2>8. IsShared(circuit[src].kind) /\ Clear(src) = Open(tape[src]) /\ Clear(src) \in CarrierOf(kind)
      BY <2>1, <2>7, OpeningWires
    <2>9. MacSumOf(tape[src]) = Times(MacKey, Clear(src))
      BY <2>6, <2>8, HonestWire
    <2>10. MacSum(w) = MacSumOf(tape[w]) /\ MacSum(src) = MacSumOf(tape[src])
      BY DEF MacSum, MacSumOf
    <2>11. SUFFICES ASSUME MacSumOf(tape[w]) = Times(MacKey, Clear(w)) PROVE FALSE
      BY <2>2, <2>3
    <2>12. CASE MacKey # Zero /\ Clear(w) # Clear(src)
      <3>1. Times(MacKey, Clear(w)) = Times(MacKey, Clear(src))
        BY <2>3, <2>6, <2>8, <2>9, <2>11, <2>12
      <3>2. Clear(w) = Clear(src)
        BY <2>3, <2>8, <2>12, <3>1, KeyFacts, TimesCancel
      <3> QED BY <2>12, <3>2
    <2>13. CASE Clear(w) = Clear(src) /\ MacSum(w) # MacSum(src)
      BY <2>9, <2>10, <2>11, <2>13
    <2> QED BY <2>12, <2>13
  <1> QED BY <1>1, CircuitInvariant, OpeningInvariant, PTL

---------------------------------------------------------------------------
(* The ideal circuit                                                       *)

\* Every wire has a value, in a carrier.
ValuesOK ==
    /\ DOMAIN Values = 1..Len(circuit) /\ Values \in Seq(F \cup Points)
    /\ Len(Values) = Len(circuit)
    /\ \A w \in 1..Len(circuit) : Values[w] = ClearOf(circuit[w].kind, tape[w])

LEMMA ValuesType == CircuitInv => ValuesOK
  <1> SUFFICES ASSUME CircuitInv PROVE ValuesOK
    OBVIOUS
  <1>1. /\ circuit \in Seq(Gate) /\ tape \in Seq(Cells) /\ Len(tape) = Len(circuit)
        /\ Len(circuit) \in Nat
    BY DEF CircuitInv
  <1>2. DOMAIN tape = 1..Len(circuit) /\ DOMAIN circuit = 1..Len(circuit)
    BY <1>1
  <1>3. ASSUME NEW w \in 1..Len(circuit)
        PROVE  /\ Values[w] = ClearOf(circuit[w].kind, tape[w])
               /\ Values[w] \in F \cup Points
    <2>1. PICK g, x : g = circuit[w] /\ x = tape[w]
      OBVIOUS
    <2>2. Values[w] = ClearOf(g.kind, x)
      BY <1>2, <2>1 DEF Values, Clear, ClearOf
    <2>3. g \in Gate /\ WireOK(g, x)
      BY <1>1, <1>2, <2>1 DEF CircuitInv
    <2>4. g.kind \in Kinds
      BY <2>3 DEF Gate
    <2>5. CarrierOf(g.kind) \subseteq F \cup Points
      BY DEF CarrierOf
    <2>6. ClearOf(g.kind, x) \in CarrierOf(g.kind)
      <3>1. CASE g.op = "modify"
        <4>1. IsShared(g.kind) /\ x \in [Party -> ShareOf(CarrierOf(g.kind))]
          BY <2>3, <3>1 DEF WireOK, ModifyOK
        <4>2. x[0].share \in CarrierOf(g.kind) /\ x[1].share \in CarrierOf(g.kind)
          BY <4>1 DEF Party, ShareOf
        <4> QED BY <2>4, <4>1, <4>2, KindFacts, Closed DEF ClearOf, Open
      <3>2. CASE g.op # "modify"
        <4>1. Holds(g.kind, x, ClearOf(g.kind, x))
          BY <2>3, <3>2 DEF WireOK
        <4> QED BY <2>4, <4>1, HoldsClear
      <3> QED BY <3>1, <3>2
    <2> QED BY <2>1, <2>2, <2>5, <2>6
  <1>4. Values \in [1..Len(circuit) -> F \cup Points]
    BY <1>2, <1>3 DEF Values
  <1>5. \A n \in Nat : \A T : \A c \in [1..n -> T] : c \in Seq(T) /\ Len(c) = n /\ DOMAIN c = 1..n
    OBVIOUS
  <1>6. Values \in Seq(F \cup Points) /\ Len(Values) = Len(circuit) /\ DOMAIN Values = 1..Len(circuit)
    BY <1>1, <1>4, <1>5
  <1> QED BY <1>3, <1>6 DEF ValuesOK

LEMMA ValuesTypeNext == CircuitInv' => ValuesOK'
  BY ValuesType, PTL

\* A step of the circuit is a step of the ideal one, or allocates nothing.
LEMMA StepIdeal ==
    ASSUME CircuitInv, 0 \notin Exponents, NEW G, NEW V, Step(G, V)
    PROVE  [Ideal!Next]_<<circuit, Values>>
  <1>1. CircuitInv'
    BY StepInv
  <1>l. PICK n \in Nat, m \in Nat : n = Len(circuit) /\ m = Len(circuit')
    <2>1. Len(circuit) \in Nat
      BY DEF CircuitInv
    <2>2. Len(circuit') \in Nat
      BY <1>1 DEF CircuitInv
    <2> QED BY <2>1, <2>2
  <1>2. PICK C, D : n = Len(circuit) /\ m = Len(circuit') /\ C = circuit' /\ D = Values'
    BY <1>l
  <1>3. circuit \in Seq(Gate) /\ C \in Seq(Gate) /\ G \in Seq(Gate) /\ m = n + Len(G)
        /\ Len(G) \in Nat /\ DOMAIN circuit = 1..n /\ DOMAIN C = 1..m /\ Len(C) = m
    <2>1. circuit \in Seq(Gate) /\ G \in Seq(Gate)
      BY DEF CircuitInv, Step
    <2>2. C \in Seq(Gate) /\ m = n + Len(G)
      BY <1>2, StepWires
    <2>3. \A c \in Seq(Gate) : Len(c) \in Nat /\ DOMAIN c = 1..Len(c)
      OBVIOUS
    <2>4. Len(C) = m
      BY <1>2
    <2> QED BY <1>2, <2>1, <2>2, <2>3, <2>4
  <1>4. /\ DOMAIN Values = 1..n /\ Values \in Seq(F \cup Points) /\ Len(Values) = n
        /\ \A w \in 1..n : Values[w] = ClearOf(circuit[w].kind, tape[w])
    BY <1>2, ValuesType DEF ValuesOK
  <1>5. /\ DOMAIN D = 1..m /\ D \in Seq(F \cup Points) /\ Len(D) = m
        /\ \A w \in 1..m : D[w] = ClearOf(C[w].kind, tape'[w])
    <2>1. /\ DOMAIN Values' = 1..Len(circuit') /\ Values' \in Seq(F \cup Points)
          /\ Len(Values') = Len(circuit')
      BY <1>1, ValuesTypeNext DEF ValuesOK
    <2>2. ASSUME NEW w \in 1..m PROVE D[w] = ClearOf(C[w].kind, tape'[w])
      <3>1. (\A j \in 1..Len(circuit) : Values[j] = ClearOf(circuit[j].kind, tape[j]))'
        BY <1>1, ValuesTypeNext DEF ValuesOK
      <3>2. w \in 1..Len(circuit')
        BY <1>2
      <3>3. Values'[w] = ClearOf(circuit'[w].kind, tape'[w])
        BY <3>1, <3>2 DEF ClearOf, Open
      <3> QED BY <1>2, <3>3
    <2> QED BY <1>2, <2>1, <2>2
  <1>6. \A w \in 1..n : C[w] = circuit[w] /\ tape'[w] = tape[w]
    BY <1>2, StepWires
  <1>7. \A w \in 1..n : D[w] = Values[w]
    BY <1>3, <1>4, <1>5, <1>6
  <1>8. \A T : \A c, d \in Seq(T) :
            Len(c) = n /\ Len(d) = m /\ (\A w \in 1..n : d[w] = c[w]) => SubSeq(d, 1, n) = c
    <2> SUFFICES ASSUME NEW T, NEW c \in Seq(T), NEW d \in Seq(T), Len(c) = n, Len(d) = m,
                        \A w \in 1..n : d[w] = c[w]
                 PROVE  SubSeq(d, 1, n) = c
      OBVIOUS
    <2>1. SubSeq(d, 1, n) = [w \in 1..n |-> d[w]]
      BY <1>3
    <2>2. c = [w \in 1..n |-> c[w]]
      OBVIOUS
    <2> QED BY <2>1, <2>2
  <1>9. SubSeq(C, 1, n) = circuit /\ SubSeq(D, 1, n) = Values
    <2>1. Len(circuit) = n
      BY <1>2
    <2>2. SubSeq(C, 1, n) = circuit
      BY <1>3, <1>6, <1>8, <2>1
    <2>3. SubSeq(D, 1, n) = Values
      BY <1>4, <1>5, <1>7, <1>8
    <2> QED BY <2>2, <2>3
  <1>10. ASSUME NEW w \in n + 1..m PROVE D[w] \in Ideal!Admissible(C[w], Values)
    <2>0. PICK k \in 1..Len(G) : C[w] = G[k] /\ tape'[w] = V[k]
      <3>1. w \in Len(circuit) + 1..Len(circuit')
        BY <1>2
      <3>2. /\ w - Len(circuit) \in 1..Len(G)
            /\ circuit'[w] = G[w - Len(circuit)] /\ tape'[w] = V[w - Len(circuit)]
        BY <3>1, StepWires
      <3> QED BY <1>2, <3>2
    <2>1. PICK g, x : /\ C[w] = G[k] /\ tape'[w] = V[k]
                      /\ g = G[k] /\ x = V[k]
      BY <2>0
    <2>2. g \in Gate /\ GateOK(g, x)
      BY <1>3, <2>1 DEF Step
    <2>3. g.kind \in Kinds
      BY <2>2 DEF Gate
    <2>4. D[w] = ClearOf(g.kind, x)
      <3>1. w \in 1..m
        BY <1>3
      <3> QED BY <1>5, <2>1, <3>1
    <2>5. CASE g.op = "modify"
      <3>1. IsShared(g.kind) /\ x \in [Party -> ShareOf(CarrierOf(g.kind))]
        BY <2>2, <2>5 DEF GateOK, ModifyOK
      <3>2. x[0].share \in CarrierOf(g.kind) /\ x[1].share \in CarrierOf(g.kind)
        BY <3>1 DEF Party, ShareOf
      <3>3. ClearOf(g.kind, x) \in CarrierOf(g.kind)
        BY <2>3, <3>1, <3>2, KindFacts, Closed DEF ClearOf, Open
      <3>4. Ideal!Admissible(g, Values) = CarrierOf(g.kind)
        BY <2>5 DEF Ideal!Admissible, Ideal!Carrier, CarrierOf
      <3> QED BY <2>1, <2>4, <3>3, <3>4
    <2>6. CASE g.op # "modify"
      <3>1. ~ZerothPower(g)
        BY <2>2, <2>6 DEF GateOK, ZerothPower
      <3>2. Holds(g.kind, x, GateValue(g, Values))
        BY <2>2, <2>6, <3>1 DEF GateOK
      <3>3. ClearOf(g.kind, x) = GateValue(g, Values)
        BY <2>3, <3>2, HoldsClear
      <3>4. Ideal!Admissible(g, Values) = {GateValue(g, Values)}
        BY <2>6 DEF Ideal!Admissible, GateValue
      <3> QED BY <2>1, <2>4, <3>3, <3>4
    <2> QED BY <2>5, <2>6
  <1>11. CASE m > n
    <2>1. Ideal!Next
      BY <1>2, <1>3, <1>4, <1>5, <1>9, <1>10, <1>11 DEF Ideal!Next, Values
    <2> QED BY <2>1
  <1>12. CASE m = n
    <2>1. C = circuit
      BY <1>3, <1>6, <1>12
    <2>2. D = Values
      BY <1>4, <1>5, <1>7, <1>12
    <2> QED BY <1>2, <2>1, <2>2
  <1> QED BY <1>3, <1>11, <1>12

\* The fabric's constants are the ideal circuit's.
LEMMA InitIdeal == Init => Ideal!Init
  <1> SUFFICES ASSUME Init PROVE Ideal!Init
    OBVIOUS
  <1>1. CircuitInv
    BY InitInv
  <1>2. /\ DOMAIN circuit = 1..6 /\ DOMAIN tape = 1..6
        /\ circuit = [k \in 1..6 |-> Ideal!ConstantGate(k)]
    BY InitWires
  <1>3. DOMAIN Ideal!Constants = 1..6
    BY DEF Ideal!Constants
  <1>4. ASSUME NEW k \in 1..6 PROVE Clear(k) = Ideal!Constants[k][2]
    <2>1. PICK g, x : g = circuit[k] /\ x = tape[k]
      OBVIOUS
    <2>2. g \in Gate /\ Holds(g.kind, x, g.lit)
      BY <2>1, InitWires
    <2>3. g.kind \in Kinds
      BY <2>2 DEF Gate
    <2>4. ClearOf(g.kind, x) = g.lit
      BY <2>2, <2>3, HoldsClear
    <2>5. g.lit = Ideal!Constants[k][2]
      BY <1>2, <2>1 DEF Ideal!ConstantGate
    <2> QED BY <2>1, <2>4, <2>5 DEF Clear, ClearOf
  <1> QED BY <1>2, <1>3, <1>4 DEF Ideal!Init

\* Refines: the circuit over shares computes what a trusted party would.
\* With the exponent zero it does not: pow then returns the shared zero.
THEOREM CircuitRefines ==
    ASSUME DrawsInField, 0 \notin Exponents PROVE Spec => Refines
  <1>1. CircuitInv /\ [Next]_vars => [Ideal!Next]_(Ideal!vars)
    <2> SUFFICES ASSUME CircuitInv, [Next]_vars PROVE [Ideal!Next]_(Ideal!vars)
      OBVIOUS
    <2>1. CASE Next
      <3>1. PICK G, V : Step(G, V)
        BY <2>1, NextStep DEF Extends, Opened
      <3>2. [Ideal!Next]_<<circuit, Values>>
        BY <3>1, StepIdeal
      <3> QED BY <3>2 DEF Ideal!vars, Values
    <2>2. CASE UNCHANGED vars
      <3>1. circuit' = circuit /\ tape' = tape
        BY <2>2 DEF vars
      <3>2. [w \in DOMAIN tape |-> Clear(w)]' = [w \in DOMAIN tape |-> Clear(w)]
        BY <3>1 DEF Clear, Open
      <3> QED BY <3>1, <3>2 DEF Ideal!vars
    <2> QED BY <2>1, <2>2
  <1> QED BY <1>1, InitIdeal, CircuitInvariant, PTL DEF Spec, Refines, Ideal!Spec
=============================================================================
