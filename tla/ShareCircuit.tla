---------------------------- MODULE ShareCircuit ----------------------------
(***************************************************************************)
(* A circuit over authenticated shares: AuthenticatedScalarResult and      *)
(* AuthenticatedPointResult, the public ScalarResult and CurvePointResult, *)
(* and the fabric's calls that bring values in.  Both parties run the same *)
(* program, so one `circuit` describes both; `tape` holds what each party  *)
(* computed for each wire.  A single gate and the batch of one coincide.   *)
(*                                                                         *)
(* A program draws its inputs first (an input reads no wire, so no gate is *)
(* lost by that order) and then allocates gates; its record bounds both.   *)
(***************************************************************************)
EXTENDS Shares, FiniteSets

CONSTANTS
    KeyShares,      \* the sharings of the MAC key a run starts from
    ScalarInputs,   \* batches of scalars a party shares
    PointInputs,    \* batches of points a party shares
    PublicScalars,  \* scalars allocated in the clear
    PublicPoints,   \* points allocated in the clear
    Exponents,      \* the exponents of pow
    Corruptions,    \* the values a test helper writes
    Programs,       \* the bounds of a program: the kinds of its inputs, in
                    \* order, its number of computed wires, and the seeds
                    \* its preprocessing phase may have
    MaxBatch        \* a batch gate has at most this many elements

\* Scalars and points are two types; what the program brings in has the
\* type its call asks for.
ASSUME CircuitAssumption ==
    /\ F # Points
    /\ KeyShares \subseteq [Party -> F]
    /\ \A vals \in ScalarInputs : vals \in Seq(F)
    /\ \A vals \in PointInputs : vals \in Seq(Points)
    /\ PublicScalars \subseteq F /\ PublicPoints \subseteq Points
    /\ Exponents \subseteq Nat /\ MaxBatch \in Nat
    /\ \A pr \in Programs : Len(pr.inputs) \in Nat /\ pr.gates \in Nat

VARIABLES
    program,        \* the bounds of the running program
    circuit,        \* the gates, as in IdealCircuit
    tape,           \* tape[w][p]: party p's value of wire w
    opening         \* the last authenticated opening

vars == <<key, program, circuit, tape, opening>>

Kinds == {"Scalar", "Point", "ScalarShare", "PointShare"}
IsShared(kind) == kind \in {"ScalarShare", "PointShare"}
CarrierOf(kind) == IF kind \in {"Scalar", "ScalarShare"} THEN F ELSE Points

\* What the two parties' values of wire w stand for.
Clear(w) == IF IsShared(circuit[w].kind) THEN Open(tape[w]) ELSE tape[w][0]

Ideal == INSTANCE IdealCircuit WITH clear <- [w \in DOMAIN tape |-> Clear(w)]

NoOpening == [args |-> <<>>, value |-> <<>>, ok |-> <<>>]

NConstants == 6

\* Mutant: the ids of the shared zero and the shared identity are swapped.
InitialValues_Swapped ==
    << Public(Zero), Public(One), Public(Identity),
       [p \in Party |-> [share |-> Identity, mac |-> Identity]],
       [p \in Party |-> [share |-> IF p = 0 THEN Zero ELSE One, mac |-> key[p]]],
       [p \in Party |-> [share |-> Zero, mac |-> Zero]] >>

\* FabricInner::new: the shared one gives each party its id and its key share.
InitialValues ==
    << Public(Zero), Public(One), Public(Identity),
       [p \in Party |-> [share |-> Zero, mac |-> Zero]],
       [p \in Party |-> [share |-> IF p = 0 THEN Zero ELSE One, mac |-> key[p]]],
       [p \in Party |-> [share |-> Identity, mac |-> Identity]] >>

Init ==
    /\ key \in KeyShares
    /\ program \in Programs
    /\ circuit = [k \in 1..NConstants |-> Ideal!ConstantGate(k)]
    /\ tape = InitialValues
    /\ opening = NoOpening

---------------------------------------------------------------------------
(* Allocating gates                                                        *)

\* The wires of a kind that no test helper has corrupted.
Wires(kind) == {w \in DOMAIN circuit : circuit[w].kind = kind
                                       /\ circuit[w].op # "modify"}

InputsDone == Len(circuit) >= NConstants + Len(program.inputs)

\* How many more wires the program may compute.
Room == IF InputsDone
        THEN NConstants + Len(program.inputs) + program.gates - Len(circuit)
        ELSE 0

\* The batches, the single elements and the argument lists over S.
Batches(S) == UNION {[1..n -> S] : n \in 1..IF Room < MaxBatch THEN Room ELSE MaxBatch}
Singles(S) == IF Room = 0 THEN {} ELSE {<<x>> : x \in S}
ArgLists(S) == IF Room = 0 THEN {} ELSE UNION {[1..n -> S] : n \in 1..MaxBatch}
Pairs(kind1, kind2) == Wires(kind1) \X Wires(kind2)

\* Append the gates of one operation and each party's values of them.
Emit(gates, values) ==
    /\ circuit' = circuit \o gates
    /\ tape' = tape \o values
    /\ UNCHANGED <<key, program>>

\* The gates of a batch whose k-th element has the argument wires b[k].
Gates(op, kind, b, lit) ==
    [k \in DOMAIN b |-> [op |-> op, args |-> b[k], kind |-> kind, lit |-> lit]]

NoLit == 0

\* A batch gate: the k-th result is f of the wires b[k].
Compute(op, kind, b, f(_)) ==
    /\ Emit(Gates(op, kind, b, NoLit), [k \in DOMAIN b |-> f(b[k])])
    /\ UNCHANGED opening

\* The next inputs of the program are n of this kind.
Expects(kind, n) ==
    LET next == Len(circuit) - NConstants IN
    /\ next + n <= Len(program.inputs)
    /\ \A k \in 1..n : program.inputs[next + k] = kind

\* Bring in the values vals with the sharings or public copies given.
Input(kind, vals, values) ==
    /\ Emit([k \in DOMAIN vals |-> [op |-> "input", args |-> <<>>,
                                    kind |-> kind, lit |-> vals[k]]], values)
    /\ UNCHANGED opening

Col(b, j) == [k \in DOMAIN b |-> tape[b[k][j]]]

---------------------------------------------------------------------------
(* Inputs                                                                  *)

\* Both parties call allocate_scalar with the same value.
AllocateScalar ==
    \E v \in PublicScalars :
        Expects("Scalar", 1) /\ Input("Scalar", <<v>>, <<Public(v)>>)

AllocatePoint ==
    \E v \in PublicPoints :
        Expects("Point", 1) /\ Input("Point", <<v>>, <<Public(v)>>)

\* The sender opens each value minus its mask, of which both hold a share.
ShareScalar ==
    \E vals \in ScalarInputs, sender \in Party, s \in program.draws :
        LET mask(k) == Rand(s, 3 * k + sender)
            shared(k) == Deal(mask(k), s, 3 * k + 1)
            masked(k) == Public(Minus(vals[k], mask(k)))
        IN  /\ Expects("ScalarShare", Len(vals))
            /\ Input("ScalarShare", vals,
                     [k \in DOMAIN vals |-> AddPublic(shared(k), masked(k))])

SharePoint ==
    \E vals \in PointInputs, sender \in Party, s \in program.draws :
        LET g == Generator
            mask(k) == Rand(s, 3 * k + sender)
            shared(k) == Deal(mask(k), s, 3 * k + 1)
            masked(k) == Public(Minus(vals[k], Times(mask(k), g)))
        IN  /\ Expects("PointShare", Len(vals))
            /\ Input("PointShare", vals,
                     [k \in DOMAIN vals |->
                         AddPublic(MulPoint(shared(k), Public(g)), masked(k))])

\* A random shared value of the preprocessing phase, as a wire.
RandomSharedScalar ==
    \E s \in program.draws :
        /\ Expects("ScalarShare", 1)
        /\ Input("ScalarShare", <<Rand(s, 1)>>, <<Deal(Rand(s, 1), s, 2)>>)

RandomInversePair ==
    \E s \in program.draws :
        LET l == Rand(s, 1) IN
        /\ l # Zero
        /\ Expects("ScalarShare", 2)
        /\ Input("ScalarShare", <<l, Inv(l)>>,
                 <<Deal(l, s, 2), Deal(Inv(l), s, 4)>>)

RandomSharedBit ==
    \E s \in program.draws, bit \in {Zero, One} :
        /\ Expects("ScalarShare", 1)
        /\ Input("ScalarShare", <<bit>>, <<Deal(bit, s, 2)>>)

Inputs ==
    \/ AllocateScalar \/ AllocatePoint \/ ShareScalar \/ SharePoint
    \/ RandomSharedScalar \/ RandomInversePair \/ RandomSharedBit

---------------------------------------------------------------------------
(* Public scalars and points                                               *)

ScalarResultAdd ==
    \E b \in Batches(Pairs("Scalar", "Scalar")) :
        Compute("add", "Scalar", b,
                LAMBDA w : [p \in Party |-> Plus(tape[w[1]][p], tape[w[2]][p])])

ScalarResultSub ==
    \E b \in Batches(Pairs("Scalar", "Scalar")) :
        Compute("sub", "Scalar", b,
                LAMBDA w : [p \in Party |-> Minus(tape[w[1]][p], tape[w[2]][p])])

ScalarResultMul ==
    \E b \in Batches(Pairs("Scalar", "Scalar")) :
        Compute("mul", "Scalar", b,
                LAMBDA w : [p \in Party |-> Times(tape[w[1]][p], tape[w[2]][p])])

ScalarResultNeg ==
    \E b \in Batches(Singles(Wires("Scalar"))) :
        Compute("neg", "Scalar", b,
                LAMBDA w : [p \in Party |-> Neg(tape[w[1]][p])])

InvertAt(w) == [p \in Party |-> Inv(tape[w[1]][p])]

\* The gate's closure unwraps the inverse: a zero panics instead.
ScalarResultInverse ==
    \E b \in Singles(Singles(Wires("Scalar"))) :
        /\ \A p \in Party : tape[b[1][1]][p] # Zero
        /\ Compute("inverse", "Scalar", b, InvertAt)

\* batch_inversion passes over the zeros of the batch.
ScalarResultBatchInverse ==
    \E b \in Batches(Singles(Wires("Scalar"))) :
        Compute("inverse", "Scalar", b, InvertAt)

ScalarResultPow ==
    \E b \in Singles(Singles(Wires("Scalar"))), e \in Exponents :
        /\ Emit(Gates("pow", "Scalar", b, e),
                <<[p \in Party |-> Power(tape[b[1][1]][p], e)]>>)
        /\ UNCHANGED opening

ScalarResultProduct ==
    \E ws \in ArgLists(Wires("Scalar")) :
        Compute("product", "Scalar", <<ws>>,
                LAMBDA w : [p \in Party |->
                                ProdSeq([k \in DOMAIN w |-> tape[w[k]][p]])])

CurvePointResultAdd ==
    \E b \in Batches(Pairs("Point", "Point")) :
        Compute("add", "Point", b,
                LAMBDA w : [p \in Party |-> Plus(tape[w[1]][p], tape[w[2]][p])])

CurvePointResultSub ==
    \E b \in Batches(Pairs("Point", "Point")) :
        Compute("sub", "Point", b,
                LAMBDA w : [p \in Party |-> Minus(tape[w[1]][p], tape[w[2]][p])])

CurvePointResultMul ==
    \E b \in Batches(Pairs("Scalar", "Point")) :
        Compute("mul", "Point", b,
                LAMBDA w : [p \in Party |-> Times(tape[w[1]][p], tape[w[2]][p])])

CurvePointResultNeg ==
    \E b \in Batches(Singles(Wires("Point"))) :
        Compute("neg", "Point", b,
                LAMBDA w : [p \in Party |-> Neg(tape[w[1]][p])])

CurvePointResultSum ==
    \E ws \in ArgLists(Wires("Point")) :
        Compute("sum", "Point", <<ws>>,
                LAMBDA w : [p \in Party |->
                                SumSeq([k \in DOMAIN w |-> tape[w[k]][p]])])

\* A multiscalar multiplication, of two terms: pairs of a scalar and a point.
MsmTerms(kind1, kind2) == {b \in ArgLists(Pairs(kind1, kind2)) : Len(b) = 2}
MsmArgs(b) == << <<b[1][1], b[2][1], b[1][2], b[2][2]>> >>

CurvePointResultMsm ==
    \E b \in MsmTerms("Scalar", "Point") :
        Compute("msm", "Point", MsmArgs(b),
                LAMBDA w : [p \in Party |->
                    Plus(Times(tape[w[1]][p], tape[w[3]][p]),
                         Times(tape[w[2]][p], tape[w[4]][p]))])

PublicGates ==
    \/ ScalarResultAdd \/ ScalarResultSub \/ ScalarResultMul
    \/ ScalarResultNeg \/ ScalarResultInverse \/ ScalarResultBatchInverse
    \/ ScalarResultPow \/ ScalarResultProduct
    \/ CurvePointResultAdd \/ CurvePointResultSub \/ CurvePointResultMul
    \/ CurvePointResultNeg \/ CurvePointResultSum \/ CurvePointResultMsm

---------------------------------------------------------------------------
(* AuthenticatedScalarResult                                               *)

\* share + public, and the constant the gate's closure captures
ScalarAddPublic ==
    \E b \in Singles(Pairs("ScalarShare", "Scalar")) :
        Compute("add", "ScalarShare", b,
                LAMBDA w : AddPublic(tape[w[1]], tape[w[2]]))

ScalarAdd ==
    \E b \in Batches(Pairs("ScalarShare", "ScalarShare")) :
        Compute("add", "ScalarShare", b, LAMBDA w : Add(tape[w[1]], tape[w[2]]))

ScalarBatchAddPublic ==
    \E b \in Batches(Pairs("ScalarShare", "Scalar")) :
        Compute("add", "ScalarShare", b,
                LAMBDA w : AddPublic(tape[w[1]], tape[w[2]]))

ScalarSum ==
    \E ws \in ArgLists(Wires("ScalarShare")) :
        Compute("sum", "ScalarShare", <<ws>>,
                LAMBDA w : Sum([k \in DOMAIN w |-> tape[w[k]]]))

ScalarSubPublic ==
    \E b \in Singles(Pairs("ScalarShare", "Scalar")) :
        Compute("sub", "ScalarShare", b,
                LAMBDA w : SubPublic(tape[w[1]], tape[w[2]]))

PublicSubScalar ==
    \E b \in Singles(Pairs("Scalar", "ScalarShare")) :
        Compute("sub", "ScalarShare", b,
                LAMBDA w : PublicSub(tape[w[1]], tape[w[2]]))

ScalarSub ==
    \E b \in Batches(Pairs("ScalarShare", "ScalarShare")) :
        Compute("sub", "ScalarShare", b, LAMBDA w : Sub(tape[w[1]], tape[w[2]]))

ScalarBatchSubPublic ==
    \E b \in Batches(Pairs("ScalarShare", "Scalar")) :
        Compute("sub", "ScalarShare", b,
                LAMBDA w : SubPublic(tape[w[1]], tape[w[2]]))

ScalarNeg ==
    \E b \in Batches(Singles(Wires("ScalarShare"))) :
        Compute("neg", "ScalarShare", b, LAMBDA w : Negate(tape[w[1]]))

ScalarMulPublic ==
    \E b \in Singles(Pairs("Scalar", "ScalarShare")) :
        Compute("mul", "ScalarShare", b,
                LAMBDA w : MulPublic(tape[w[1]], tape[w[2]]))

ScalarBatchMulPublic ==
    \E b \in Batches(Pairs("Scalar", "ScalarShare")) :
        Compute("mul", "ScalarShare", b,
                LAMBDA w : MulPublic(tape[w[1]], tape[w[2]]))

ScalarMul ==
    \E b \in Singles(Pairs("ScalarShare", "ScalarShare")), s \in program.draws :
        Compute("mul", "ScalarShare", b,
                LAMBDA w : Mul(tape[w[1]], tape[w[2]], s, 0))

\* A batch gate whose results a protocol computes together.
Protocol(op, kind, b, results) ==
    /\ Emit(Gates(op, kind, b, NoLit), results)
    /\ UNCHANGED opening

ScalarBatchMul ==
    \E b \in Batches(Pairs("ScalarShare", "ScalarShare")), s \in program.draws :
        Protocol("mul", "ScalarShare", b, BatchMul(Col(b, 1), Col(b, 2), s, 0))

ScalarInverse ==
    \E b \in Batches(Singles(Wires("ScalarShare"))), s \in program.draws :
        /\ Zero \notin InverseMasks(Len(b), s, 0)
        /\ Protocol("inverse", "ScalarShare", b, BatchInverse(Col(b, 1), s, 0))

\* share / public multiplies by the inverse; a zero divisor panics
ScalarDivPublic ==
    \E b \in Singles(Pairs("ScalarShare", "Scalar")) :
        /\ \A p \in Party : tape[b[1][2]][p] # Zero
        /\ Compute("div", "ScalarShare", b,
                   LAMBDA w : MulPublic([p \in Party |-> Inv(tape[w[2]][p])],
                                        tape[w[1]]))

ScalarDiv ==
    \E b \in Batches(Pairs("ScalarShare", "ScalarShare")), s \in program.draws :
        /\ Zero \notin InverseMasks(Len(b), s, 0)
        /\ Protocol("div", "ScalarShare", b,
                    BatchMul(Col(b, 1), BatchInverse(Col(b, 2), s, 0), s, 40))

ScalarPow ==
    \E b \in Singles(Singles(Wires("ScalarShare"))), e \in Exponents,
       s \in program.draws :
        /\ Emit(Gates("pow", "ScalarShare", b, e), <<Pow(tape[b[1][1]], e, s)>>)
        /\ UNCHANGED opening

\* public point * shared scalar
ScalarMulPoint ==
    \E b \in Batches(Pairs("ScalarShare", "Point")) :
        Compute("mul", "PointShare", b,
                LAMBDA w : MulPoint(tape[w[1]], tape[w[2]]))

\* the gadgets; XOR is only meant for bits
Bits(kind) == {w \in Wires(kind) : Clear(w) \in {Zero, One}}

ScalarBitXor ==
    \E b \in Singles(Bits("ScalarShare") \X Bits("ScalarShare")), s \in program.draws :
        Compute("xor", "ScalarShare", b,
                LAMBDA w : BitXor(tape[w[1]], tape[w[2]], s))

ScalarBitXorBatch ==
    \E b \in Batches(Bits("ScalarShare") \X Bits("ScalarShare")), s \in program.draws :
        LET ab == BatchMul(Col(b, 1), Col(b, 2), s, 0) IN
        Protocol("xor", "ScalarShare", b,
                 [k \in DOMAIN b |-> Sub(Add(tape[b[k][1]], tape[b[k][2]]),
                                         MulPublic(Public(Two), ab[k]))])

ScalarBitXorPublic ==
    \E b \in Singles(Bits("Scalar") \X Bits("ScalarShare")) :
        Compute("xor", "ScalarShare", b,
                LAMBDA w : BitXorPublic(tape[w[1]], tape[w[2]]))

ScalarBitXorPublicBatch ==
    \E b \in Batches(Bits("Scalar") \X Bits("ScalarShare")) :
        Compute("xor", "ScalarShare", b,
                LAMBDA w : BitXorPublicBatch(tape[w[1]], tape[w[2]]))

\* wire k of the result multiplies the first k values
ScalarPrefixProduct ==
    \E ws \in Batches(Wires("ScalarShare")), s \in program.draws :
        LET masks == PrefixMasks(Len(ws), s) IN
        /\ \A k \in DOMAIN masks : masks[k] # Zero
        /\ Protocol("product", "ScalarShare",
                    [k \in DOMAIN ws |-> SubSeq(ws, 1, k)],
                    PrefixProduct([k \in DOMAIN ws |-> tape[ws[k]]], s))

ScalarGates ==
    \/ ScalarAddPublic \/ ScalarAdd \/ ScalarBatchAddPublic \/ ScalarSum
    \/ ScalarSubPublic \/ PublicSubScalar \/ ScalarSub
    \/ ScalarBatchSubPublic \/ ScalarNeg
    \/ ScalarMulPublic \/ ScalarBatchMulPublic \/ ScalarMul \/ ScalarBatchMul
    \/ ScalarInverse \/ ScalarDivPublic \/ ScalarDiv \/ ScalarPow
    \/ ScalarMulPoint
    \/ ScalarBitXor \/ ScalarBitXorBatch
    \/ ScalarBitXorPublic \/ ScalarBitXorPublicBatch
    \/ ScalarPrefixProduct

---------------------------------------------------------------------------
(* AuthenticatedPointResult                                                *)

PointAddPublic ==
    \E b \in Batches(Pairs("PointShare", "Point")) :
        Compute("add", "PointShare", b,
                LAMBDA w : AddPublic(tape[w[1]], tape[w[2]]))

PointAdd ==
    \E b \in Batches(Pairs("PointShare", "PointShare")) :
        Compute("add", "PointShare", b, LAMBDA w : Add(tape[w[1]], tape[w[2]]))

PointSum ==
    \E ws \in ArgLists(Wires("PointShare")) :
        Compute("sum", "PointShare", <<ws>>,
                LAMBDA w : Sum([k \in DOMAIN w |-> tape[w[k]]]))

PointSubPublic ==
    \E b \in Batches(Pairs("PointShare", "Point")) :
        Compute("sub", "PointShare", b,
                LAMBDA w : SubPublic(tape[w[1]], tape[w[2]]))

PointSub ==
    \E b \in Batches(Pairs("PointShare", "PointShare")) :
        Compute("sub", "PointShare", b, LAMBDA w : Sub(tape[w[1]], tape[w[2]]))

PointNeg ==
    \E b \in Batches(Singles(Wires("PointShare"))) :
        Compute("neg", "PointShare", b, LAMBDA w : Negate(tape[w[1]]))

PointMulPublic ==
    \E b \in Batches(Pairs("Scalar", "PointShare")) :
        Compute("mul", "PointShare", b,
                LAMBDA w : MulPublic(tape[w[1]], tape[w[2]]))

PointMul ==
    \E b \in Singles(Pairs("ScalarShare", "PointShare")), s \in program.draws :
        Compute("mul", "PointShare", b,
                LAMBDA w : MulPointShares(tape[w[1]], tape[w[2]], s, 0))

PointBatchMul ==
    \E b \in Batches(Pairs("ScalarShare", "PointShare")), s \in program.draws :
        Protocol("mul", "PointShare", b,
                 BatchMulPointShares(Col(b, 1), Col(b, 2), s, 0))

PointMulGenerator ==
    \E b \in Batches(Singles(Wires("ScalarShare"))) :
        Compute("mulgen", "PointShare", b,
                LAMBDA w : MulPoint(tape[w[1]], Public(Generator)))

\* The shared points are multiplied in a batch and then added up.
PointMsm ==
    \E b \in MsmTerms("ScalarShare", "PointShare"), s \in program.draws :
        Protocol("msm", "PointShare", MsmArgs(b),
                 LET out == BatchMulPointShares(Col(b, 1), Col(b, 2), s, 0)
                 IN  <<Add(out[1], out[2])>>)

PointMsmAuthenticated ==
    \E b \in MsmTerms("ScalarShare", "Point") :
        Protocol("msm", "PointShare", MsmArgs(b),
                 <<Sum([k \in 1..2 |-> MulPoint(tape[b[k][1]], tape[b[k][2]])])>>)

PointGates ==
    \/ PointAddPublic \/ PointAdd \/ PointSum \/ PointSubPublic \/ PointSub
    \/ PointNeg \/ PointMulPublic \/ PointMul \/ PointBatchMul
    \/ PointMulGenerator \/ PointMsm \/ PointMsmAuthenticated

---------------------------------------------------------------------------
(* Opening, and the corruptions the tests open                             *)

\* open and open_batch, which check no MAC
ScalarOpen ==
    \E b \in Batches(Singles(Wires("ScalarShare"))) :
        Compute("open", "Scalar", b, LAMBDA w : Public(Open(tape[w[1]])))

PointOpen ==
    \E b \in Batches(Singles(Wires("PointShare"))) :
        Compute("open", "Point", b, LAMBDA w : Public(Open(tape[w[1]])))

AllWires(kind) == {w \in DOMAIN circuit : circuit[w].kind = kind}

\* Party p's verdict on the values opened from the wires ws: each party
\* commits to its MAC checks, then reveals them and its blinder.
Verdict(ws, zero, p) ==
    LET checks(q) == [k \in DOMAIN ws |->
                        MacCheck(tape[ws[k]], Open(tape[ws[k]]), q)]
        blinder(q) == Rand(CHOOSE s \in program.draws : TRUE, q)
        peer == 1 - p
    IN  batch_verify_mac_check(checks(p), checks(peer), blinder(peer),
                               commit(checks(peer), blinder(peer)), zero)

\* Open the wires ws; oks[k][p] is party p's verdict on the k-th.
OpenAuthenticated(kind, ws, oks) ==
    LET values == [k \in DOMAIN ws |-> Public(Open(tape[ws[k]]))] IN
    /\ Emit(Gates("open", kind, [k \in DOMAIN ws |-> <<ws[k]>>], NoLit), values)
    /\ opening' = [args |-> ws, value |-> values, ok |-> oks]

\* One commitment to all the checks: the whole batch has one verdict.
ScalarOpenAuthenticated ==
    \E ws \in Batches(AllWires("ScalarShare")) :
        OpenAuthenticated("Scalar", ws,
            [k \in DOMAIN ws |-> [p \in Party |-> Verdict(ws, Zero, p)]])

\* One commitment to each check: every point has its own verdict.
PointOpenAuthenticated ==
    \E ws \in Batches(AllWires("PointShare")) :
        OpenAuthenticated("Point", ws,
            [k \in DOMAIN ws |-> [p \in Party |-> Verdict(<<ws[k]>>, Identity, p)]])

Opens == ScalarOpen \/ PointOpen
         \/ ScalarOpenAuthenticated \/ PointOpenAuthenticated

\* The parties in `who` replace their share of wire w by f of it.
Modify(kind, f(_)) ==
    \E b \in Singles(Singles(Wires(kind))), who \in SUBSET Party \ {{}} :
        Compute("modify", kind, b,
                LAMBDA a : [p \in Party |-> IF p \in who THEN f(tape[a[1]][p])
                                            ELSE tape[a[1]][p]])

ScalarModifyMac ==
    \E v \in Corruptions \cap F : Modify("ScalarShare", LAMBDA x : [x EXCEPT !.mac = v])

ScalarModifyShare ==
    \E v \in Corruptions \cap F : Modify("ScalarShare", LAMBDA x : [x EXCEPT !.share = v])

PointModifyMac ==
    \E v \in Corruptions \cap Points : Modify("PointShare", LAMBDA x : [x EXCEPT !.mac = v])

\* modify_share of a point assigns the MAC, as modify_mac does.
PointModifyShare ==
    \E v \in Corruptions \cap Points : Modify("PointShare", LAMBDA x : [x EXCEPT !.mac = v])

Modifications == ScalarModifyMac \/ ScalarModifyShare
                 \/ PointModifyMac \/ PointModifyShare

---------------------------------------------------------------------------

Next == Inputs \/ PublicGates \/ ScalarGates \/ PointGates \/ Opens
        \/ Modifications

Spec == Init /\ [][Next]_vars

---------------------------------------------------------------------------
(* Properties                                                              *)

\* Every wire holds, at both parties, a value of the type its handle claims
\* (ResultHandle<C, T> converts by T: From<ResultValue>, which panics on
\* another variant).
TypeOK ==
    /\ key \in [Party -> F]
    /\ Len(tape) = Len(circuit)
    /\ \A w \in DOMAIN circuit :
          LET M == CarrierOf(circuit[w].kind) IN
          tape[w] \in [Party -> IF IsShared(circuit[w].kind) THEN ShareOf(M)
                                ELSE M]

\* The circuit computes what a trusted party would: the shares of every wire
\* add up to the gate's value in the clear, through masking, Beaver triples,
\* telescoped blinding and batching, and no later gate changes a wire.
Refines == Ideal!Spec

MacSum(w) == Plus(tape[w][0].mac, tape[w][1].mac)

\* The SPDZ invariant: the MACs of every shared wire add up to the MAC key
\* times its value, whatever arithmetic produced it.
MacsAuthentic ==
    \A w \in DOMAIN circuit :
        IsShared(circuit[w].kind) /\ circuit[w].op # "modify"
            => MacSum(w) = Times(MacKey, Clear(w))

\* Both parties accept the opening of wires nobody tampered with, and hold
\* the circuit's value; in a batch too.
HonestAccepted ==
    (\A k \in DOMAIN opening.args : circuit[opening.args[k]].op # "modify")
        => \A k \in DOMAIN opening.args, p \in Party :
              /\ opening.ok[k][p]
              /\ opening.value[k][p] = Clear(opening.args[k])

\* A corrupted share, under a non-zero key, or a corrupted MAC is rejected by
\* both parties, the one that corrupted it included.
CorruptionDetected ==
    \A k \in DOMAIN opening.args :
        LET w == opening.args[k]
            source == circuit[w].args[1]
        IN  /\ circuit[w].op = "modify"
            /\ \/ MacKey # Zero /\ Clear(w) # Clear(source)
               \/ Clear(w) = Clear(source) /\ MacSum(w) # MacSum(source)
            => \A p \in Party : ~opening.ok[k][p]

\* pow computes the exponentiation of its argument, as ScalarResult::pow
\* does for a public one.
PowIsPower ==
    \A w \in DOMAIN circuit :
        circuit[w].op = "pow"
            => Clear(w) = Power(Clear(circuit[w].args[1]), circuit[w].lit)
=============================================================================
