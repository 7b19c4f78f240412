---------------------------- MODULE IdealCircuit ----------------------------
(***************************************************************************)
(* What an MPC circuit promises: the program allocates gates one batch at  *)
(* a time, and every wire carries the value the gate computes in the clear *)
(* from the values of its argument wires, as if a trusted party evaluated  *)
(* the circuit.  Nothing here is shared, masked or authenticated.          *)
(*                                                                         *)
(* A gate names its operation, its argument wires, the kind of its result  *)
(* (a variant of ResultValue) and, where the operation has one, a literal. *)
(***************************************************************************)
EXTENDS Field

VARIABLES
    circuit,   \* the gates the program has allocated, in order
    clear      \* the value of each gate's wire

vars == <<circuit, clear>>

Carrier(kind) == IF kind \in {"Scalar", "ScalarShare"} THEN F ELSE Points

\* The value of gate g over the values v of the wires before it.
Eval(g, v) ==
    LET x == v[g.args[1]]
        y == v[g.args[2]]
        vals == [k \in DOMAIN g.args |-> v[g.args[k]]]
    IN CASE g.op = "input"   -> g.lit
         [] g.op = "open"    -> x
         [] g.op = "add"     -> Plus(x, y)
         [] g.op = "sub"     -> Minus(x, y)
         [] g.op = "neg"     -> Neg(x)
         [] g.op = "mul"     -> Times(x, y)
         [] g.op = "mulgen"  -> Times(x, Generator)
         [] g.op = "inverse" -> Inv(x)
         [] g.op = "div"     -> Times(x, Inv(y))
         [] g.op = "pow"     -> Power(x, g.lit)
         [] g.op = "sum"     -> SumSeq(vals)
         [] g.op = "product" -> ProdSeq(vals)
         [] g.op = "xor"     -> IF x = y THEN Zero ELSE One
         [] g.op = "msm"     -> Plus(Times(x, v[g.args[3]]), Times(y, v[g.args[4]]))

\* A corrupted wire (the modify_* test helpers) may carry any value.
Admissible(g, v) ==
    IF g.op = "modify" THEN Carrier(g.kind) ELSE {Eval(g, v)}

\* The fabric starts with the public and the shared 0, 1 and identity.
Constants == << <<"Scalar", Zero>>, <<"Scalar", One>>, <<"Point", Identity>>,
                <<"ScalarShare", Zero>>, <<"ScalarShare", One>>,
                <<"PointShare", Identity>> >>

ConstantGate(k) == [op |-> "input", args |-> <<>>, kind |-> Constants[k][1],
                    lit |-> Constants[k][2]]

Init ==
    /\ circuit = [k \in DOMAIN Constants |-> ConstantGate(k)]
    /\ clear = [k \in DOMAIN Constants |-> Constants[k][2]]

\* The circuit grows by whole batches; a wire never changes its value.
Next ==
    LET n == Len(circuit) IN
    /\ Len(circuit') > n
    /\ Len(clear') = Len(circuit')
    /\ SubSeq(circuit', 1, n) = circuit
    /\ SubSeq(clear', 1, n) = clear
    /\ \A k \in n + 1..Len(circuit') :
          clear'[k] \in Admissible(circuit'[k], clear)

Spec == Init /\ [][Next]_vars
=============================================================================
