----------------------------- MODULE MCLowGear ------------------------------
(***************************************************************************)
(* LowGear over the integers modulo P, for a prime P = 3 mod 4 that is     *)
(* large enough for an error to escape a random check only by a chance     *)
(* that the chosen draws do not meet.                                      *)
(***************************************************************************)
EXTENDS LowGear

CONSTANTS P, Errors

MCF == 0..P - 1
MCPlus(x, y) == (x + y) % P
MCNeg(x) == (P - x) % P
MCTimes(a, x) == (a * x) % P

\* Exponentiation by repeated squaring, one bit of the exponent at a time.
PowMod(x, e) ==
    LET pow[k \in 0..e] == IF k = 0 THEN 1
                           ELSE LET h == pow[k \div 2]
                                IN  (h * h * (IF k % 2 = 1 THEN x ELSE 1)) % P
    IN  pow[e]

MCInv(x) == PowMod(x, P - 2)
MCSqrt(x) == PowMod(x, (P + 1) \div 4)

MCRand(p, i) == (PowMod(3, 7 * i + 11 * p + 2) + 5 * i * i + 13 * p * i + p) % P

MCKeyShares == {[p \in 0..1 |-> 7 * p + 4]}

Call(op) == [op |-> op]
CallN(op, n) == [op |-> op, n |-> n]
NextOf(pool, n) == [op |-> "next", req |-> [pool |-> pool, n |-> n]]
Mask(owner, n) == [op |-> "next", req |-> [pool |-> "mask", owner |-> owner, n |-> n]]
Phase(i, b, r, m) ==
    [op |-> "run_offline_phase",
     sizes |-> [num_inverse_pairs |-> i, num_bits |-> b, num_randomness |-> r,
                num_input_masks |-> m]]

Setup == Call("run_key_exchange")
Triples == Call("generate_triples")
GetResult == Call("get_offline_result")

\* The whole phase, then every kind of request.
FullRun ==
    << Setup, Phase(1, 2, 2, 1), CallN("generate_input_masks", 1), GetResult,
       NextOf("triplets", 1), Mask(0, 1), Mask(1, 2), NextOf("inverse_pairs", 1),
       NextOf("bits", 1), NextOf("bits", 1), NextOf("values", 2), Mask(0, 1),
       NextOf("triplets", 1) >>

\* A second batch of triples, appended to the first.
TwoBatches ==
    << Setup, Triples, GetResult, NextOf("triplets", 2), Triples,
       [op |-> "append", pools |-> {"triplets"}], NextOf("triplets", 2),
       NextOf("triplets", 4), NextOf("triplets", 1) >>

\* A restart from the setup parameters between two phases.
Restart ==
    << Setup, Phase(1, 1, 0, 0), GetResult, Call("new_from_params"), Phase(1, 1, 0, 0),
       [op |-> "append", pools |-> {"triplets", "inverse_pairs", "bits"}],
       NextOf("inverse_pairs", 2), NextOf("bits", 2), NextOf("triplets", 4) >>

\* Triples that are copied before a generator consumes some, that are copied twice,
\* and that are copied and appended: the online phase may meet used ones.
Copies ==
    { << Setup, Triples, GetResult, CallN("generate_inverse_tuples", 2), NextOf("triplets", 3) >>,
      << Setup, Triples, CallN("generate_shared_bits", 1), GetResult, NextOf("triplets", 2),
         CallN("generate_inverse_tuples", 1), GetResult, NextOf("triplets", 3) >>,
      << Setup, Triples, GetResult, [op |-> "append", pools |-> {"triplets"}],
         CallN("generate_shared_bits", 2), [op |-> "append", pools |-> {"triplets", "bits"}],
         NextOf("triplets", 7), NextOf("triplets", 8) >> }

\* Calls that end in an error at both parties.
Failing ==
    { <<Triples>>, <<GetResult>>, <<CallN("generate_input_masks", 1)>>,
      <<Setup, CallN("generate_inverse_tuples", 1)>>,
      <<Setup, CallN("generate_input_masks", Slots)>>,
      <<Setup, CallN("generate_input_masks", Slots + 1)>> }

\* Any two generators after the first batch, then a request for what the second
\* one made and for more triples than may be left.
AnyTwo ==
    LET gens == { <<Triples, NextOf("triplets", 1)>>,
                  <<CallN("generate_inverse_tuples", 2), NextOf("inverse_pairs", 2)>>,
                  <<CallN("generate_shared_bits", 2), NextOf("bits", 1)>>,
                  <<CallN("generate_input_masks", 2), Mask(1, 2)>>,
                  <<CallN("generate_shared_randomness", 4), NextOf("values", 3)>> }
    IN  { <<Setup, Triples, g[1], h[1], GetResult, h[2], NextOf("triplets", 3)>> :
            g \in gens, h \in gens }

Both(calls) == [p \in 0..1 |-> calls]

\* One error in any one message of a phase that checks what it generates.
Checked == << Setup, Phase(2, 1, 0, 0) >>

MCScenarios ==
    { [calls |-> Both(c), errors |-> {}] :
        c \in {FullRun, TwoBatches, Restart} \cup Copies \cup Failing \cup AnyTwo }
    \cup { [calls |-> Both(Checked), errors |-> Errors] }
    \cup { [calls |-> c, errors |-> {}] :
             c \in { [p \in 0..1 |-> <<Setup, CallN(IF p = q THEN "generate_input_masks"
                                    ELSE "generate_shared_randomness", 1)>>] : q \in 0..1 } }
=============================================================================
