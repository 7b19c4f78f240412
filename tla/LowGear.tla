------------------------------ MODULE LowGear -------------------------------
(***************************************************************************)
(* The LowGear offline phase (offline-phase/src/lowgear) and the store of  *)
(* correlated randomness it leaves to the online phase (structs.rs).       *)
(*                                                                         *)
(* The two parties make the same calls in the same order, each in its own  *)
(* task, over a pair of FIFO streams.  A call awaits its way through sub-   *)
(* protocols; here each async function is the sequence of steps it awaits  *)
(* through, with its sub-protocols inlined: a step sends the message in a  *)
(* register, receives one into a register, or computes locally.  Registers *)
(* are the local variables of the call.                                    *)
(*                                                                         *)
(* One party may deviate once: it adds an error to one message it sends.   *)
(* The MAC checks, the commitments and the sacrifice exist to catch that.  *)
(***************************************************************************)
EXTENDS Shares, Fhe, FiniteSets

CONSTANTS
    PokBatch,      \* plaintexts in one batch of the proof of knowledge
    Sqrt(_),       \* a square root of a square
    KeyShares,     \* the MAC key shares to explore
    Scenarios      \* what the application calls, and who deviates where

VARIABLES
    party,         \* each party's LowGear and LowGearPrep and its running call
    wire,          \* wire[p]: the messages on their way to p
    dev            \* the errors a party may still add to a message, and
                   \* whether one did

lgVars == <<key, party, wire, dev>>

\* Every batch has a plaintext, a MAC key share is a scalar, and the field has
\* odd characteristic and square roots of its squares.
ASSUME LowGearAssumption ==
    /\ PokBatch \in Nat \ {0}
    /\ KeyShares \subseteq [Party -> F]
    /\ Two # Zero
    /\ \A x \in F : LET y == Times(x, x)
                    IN  Sqrt(y) \in F /\ Times(Sqrt(y), Sqrt(y)) = y

\* What an application may call: the generators, the offline phase as a whole,
\* and the store's methods.
Sizes == [num_inverse_pairs : Nat, num_bits : Nat, num_randomness : Nat,
          num_input_masks : Nat]
Requests ==
    [pool : {"triplets", "inverse_pairs", "bits", "values"}, n : Nat]
    \cup [pool : {"mask"}, owner : Party, n : Nat]
Calls ==
    [op : {"run_key_exchange", "generate_triples", "get_offline_result", "new_from_params"}]
    \cup [op : {"generate_inverse_tuples", "generate_shared_bits",
                "generate_shared_randomness", "generate_input_masks"}, n : Nat]
    \cup [op : {"run_offline_phase"}, sizes : Sizes]
    \cup [op : {"next"}, req : Requests]
    \cup [op : {"append"}, pools : SUBSET {"triplets", "inverse_pairs", "bits"}]

ASSUME CallsAssumption ==
    \A sc \in Scenarios : \A p \in Party : sc.calls[p] \in Seq(Calls)

\* Option: <<>> or a sequence of one
None == <<>>
Some(v) == <<v>>

NoBatch == <<>>
NoTriples == [a |-> NoBatch, b |-> NoBatch, c |-> NoBatch]
NoPairs == [lhs |-> NoBatch, rhs |-> NoBatch]
NoMasks == [my_masks |-> NoBatch, my_mask_shares |-> NoBatch, their_masks |-> NoBatch]

\* LowGear::new, with the fields the offline phase fills
NewLowGear ==
    [other_pk |-> None, other_mac_enc |-> None, triples |-> NoTriples,
     inverse_tuples |-> NoPairs, shared_bits |-> NoBatch,
     shared_randomness |-> NoBatch, input_masks |-> NoMasks]

---------------------------------------------------------------------------
(* ValueMacBatch: sequences of ScalarShares                                *)

values(x) == [k \in DOMAIN x |-> x[k].share]
macs(x)   == [k \in DOMAIN x |-> x[k].mac]

BatchAdd(x, y) == [k \in DOMAIN x |-> add(x[k], y[k])]
BatchSub(x, y) == [k \in DOMAIN x |-> sub(x[k], y[k])]
BatchScale(x, c) == [k \in DOMAIN x |-> mul(x[k], c)]
BatchScaleBy(x, cs) == [k \in DOMAIN x |-> mul(x[k], cs[k])]

\* The MACs may come from padded slots, of which the padding is dropped.
from_parts(v, m) == [k \in DOMAIN v |-> [share |-> v[k], mac |-> m[k]]]

\* The two parts of split_off: what stays, and the last n elements.
Stays(x, n) == SubSeq(x, 1, Len(x) - n)
split_off(x, n) == SubSeq(x, Len(x) - n + 1, Len(x))

num_triples(lg) == Len(lg.triples.a)

linear_combination(v, coeffs) == SumSeq(PtMul(v, coeffs))

commit_scalars(v) == [hash |-> v]

---------------------------------------------------------------------------
(* Steps.  Do(op, args, res) computes register res from registers args.    *)

Do(op, args, res) == <<[op |-> op, args |-> args, res |-> res]>>
Draw(n, res) == <<[op |-> "draw", n |-> n, res |-> res]>>
Check(op, args) == Do(op, args, "")

\* Mutant: neither party sends before it has received.
exchange_BothReceive(p, kind, out, in) ==
    << [op |-> "recv", kind |-> kind, reg |-> in], [op |-> "send", kind |-> kind, reg |-> out] >>

\* Party 0 sends first, then receives; party 1 answers.
exchange(p, kind, out, in) ==
    LET send == [op |-> "send", kind |-> kind, reg |-> out]
        recv == [op |-> "recv", kind |-> kind, reg |-> in]
    IN  IF p = 0 THEN <<send, recv>> ELSE <<recv, send>>

exchange_message(p, out, in) == exchange(p, "Bytes", out, in)

(* commit_reveal.rs *)

\* Mutant: the values follow the commitment without waiting for the peer's.
commit_reveal_NoWait(p, mine, theirs) ==
    Do("commit_scalars", <<mine>>, "my_comm")
    \o << [op |-> "send", kind |-> "Scalar", reg |-> "my_comm"],
          [op |-> "send", kind |-> "ScalarBatch", reg |-> mine],
          [op |-> "recv", kind |-> "Scalar", reg |-> "their_comm"],
          [op |-> "recv", kind |-> "ScalarBatch", reg |-> theirs] >>
    \o Check("check_commitment", <<theirs, "their_comm">>)

commit_reveal(p, mine, theirs) ==
    Do("commit_scalars", <<mine>>, "my_comm")
    \o exchange(p, "Scalar", "my_comm", "their_comm")
    \o exchange(p, "ScalarBatch", mine, theirs)
    \o Check("check_commitment", <<theirs, "their_comm">>)

\* Also open_single, on a batch of one.
open_batch(p, x, res) ==
    exchange(p, "ScalarBatch", x, "their_values")
    \o Do("sum", <<x, "their_values">>, res)

(* shared_random.rs *)

get_shared_randomness_vec(p, n, res) ==
    Draw(n, "my_shares") \o commit_reveal(p, "my_shares", "their_shares")
    \o Do("sum", <<"my_shares", "their_shares">>, res)

(* mac_check.rs *)

check_mac(p) ==
    commit_reveal(p, "mac_check", "their_mac_check")
    \o Check("check_mac", <<"mac_check", "their_mac_check">>)

open_and_check_macs(p, x, n, res) ==
    Do("values", <<x>>, "x_values") \o open_batch(p, "x_values", res)
    \o get_shared_randomness_vec(p, n, "coeffs")
    \o Do("mac_check", <<res, x, "coeffs">>, "mac_check") \o check_mac(p)

(* triplets.rs *)

\* Shares of a product by exchanging my_b * Enc(their a) + mask.
share_product(p, enc, b, c, res) ==
    Do("cross_products", <<enc, b, c>>, "c_res")
    \o exchange_message(p, "cross", "their_cross")
    \o Do("add_cross", <<"c_res", "their_cross">>, res)

\* The MAC shares of a plaintext vector
authenticate_vec(p, x, res) ==
    Check("need_setup", <<>>) \o Do("other_mac_enc", <<x>>, "mac_enc")
    \o Do("mac_product", <<x>>, "mac_mine")
    \o share_product(p, "mac_enc", x, "mac_mine", res)

\* Mutant: tau is opened and its MACs are checked, but not that it is zero.
sacrifice_AnyTau(p, n) ==
    get_shared_randomness_vec(p, 1, "r")
    \o Do("rho", <<"B", "r", "B_prime">>, "my_rho")
    \o open_and_check_macs(p, "my_rho", n, "rho")
    \o Do("tau", <<"C", "r", "C_prime", "A", "rho">>, "my_tau")
    \o open_and_check_macs(p, "my_tau", n, "tau")

sacrifice(p, n) ==
    get_shared_randomness_vec(p, 1, "r")
    \o Do("rho", <<"B", "r", "B_prime">>, "my_rho")
    \o open_and_check_macs(p, "my_rho", n, "rho")
    \o Do("tau", <<"C", "r", "C_prime", "A", "rho">>, "my_tau")
    \o open_and_check_macs(p, "my_tau", n, "tau")
    \o Check("check_zero", <<"tau">>)

generate_triples(p) ==
    LET n == PokBatch * Slots
        auth(v, sh) == authenticate_vec(p, v, "mac") \o Do("from_parts", <<v, "mac">>, sh)
    IN  Draw(n, "a") \o Draw(n, "b") \o Draw(n, "b_prime")
        \o Do("product", <<"a", "b">>, "c_mine")
        \o Do("product", <<"a", "b_prime">>, "c_prime_mine")
        \o Do("encrypt", <<"a">>, "a_enc")
        \o exchange_message(p, "a_enc", "their_a_enc") \o Check("need_setup", <<>>)
        \o share_product(p, "their_a_enc", "b", "c_mine", "c")
        \o share_product(p, "their_a_enc", "b_prime", "c_prime_mine", "c_prime")
        \o auth("a", "A") \o auth("b", "B") \o auth("c", "C")
        \o auth("b_prime", "B_prime") \o auth("c_prime", "C_prime")
        \o sacrifice(p, n)
        \o Do("set_triples", <<"A", "B", "C">>, "")

(* multiplication.rs *)

beaver_mul(p, x, y, n, res) ==
    Check("need_triples", <<x>>) \o Do("consume_triples", <<x>>, "")
    \o Do("sub", <<x, "ta">>, "x_a") \o open_and_check_macs(p, "x_a", n, "d")
    \o Do("sub", <<y, "tb">>, "y_b") \o open_and_check_macs(p, "y_b", n, "e")
    \o Do("beaver", <<"d", "e", "ta", "tb", "tc">>, res)

(* The remaining generators *)

get_authenticated_randomness_vec(p, n, res) ==
    Draw(n, "rand") \o Do("from_scalars", <<"rand">>, "rand_pt")
    \o authenticate_vec(p, "rand_pt", "rand_mac")
    \o Do("from_parts", <<"rand", "rand_mac">>, res)

generate_shared_randomness(p, n) ==
    IF n = 0 THEN <<>>
    ELSE get_authenticated_randomness_vec(p, n, "vals")
         \o Do("set_shared_randomness", <<"vals">>, "")

Panic == Check("panic", <<>>)

generate_inverse_tuples(p, lg, n) ==
    IF num_triples(lg) < n THEN Panic
    ELSE IF n = 0 THEN <<>>
    ELSE get_authenticated_randomness_vec(p, 2 * n, "vals")
         \o Do("first_half", <<"vals">>, "lhs") \o Do("second_half", <<"vals">>, "rhs")
         \o beaver_mul(p, "lhs", "rhs", n, "product")
         \o open_and_check_macs(p, "product", n, "opened")
         \o Check("nonzero", <<"opened">>)
         \o Do("set_inverse_tuples", <<"lhs", "rhs", "opened">>, "")

generate_shared_bits(p, lg, n) ==
    IF num_triples(lg) < n THEN Panic
    ELSE IF n = 0 THEN <<>>
    ELSE get_authenticated_randomness_vec(p, n, "vals")
         \o beaver_mul(p, "vals", "vals", n, "squares")
         \o open_and_check_macs(p, "squares", n, "opened")
         \o Check("nonzero", <<"opened">>)
         \o Do("set_shared_bits", <<"vals", "opened">>, "")

\* The local masks are stored before the counterparty's arrive.
generate_input_masks(p, n) ==
    IF n > Slots THEN Panic
    ELSE IF n = 0 THEN <<>>
    ELSE Draw(n, "my_values") \o Draw(n, "my_share") \o Draw(Slots, "mac_mask")
         \o Do("mask_macs", <<"my_values", "mac_mask">>, "my_mac_shares")
         \o Do("from_parts", <<"my_share", "my_mac_shares">>, "my_values_shares")
         \o Do("add_local_masks", <<"my_values", "my_values_shares">>, "")
         \o Do("difference", <<"my_values", "my_share">>, "their_share")
         \o Check("need_setup", <<>>) \o Check("fits_slots", <<"my_values">>)
         \o Do("masked_mac", <<"my_values", "mac_mask">>, "their_mac")
         \o exchange(p, "ScalarBatch", "their_share", "my_shares")
         \o exchange_message(p, "their_mac", "counterparty_macs")
         \o Do("decrypt", <<"counterparty_macs">>, "my_macs")
         \o Do("from_parts", <<"my_shares", "my_macs">>, "counterparty_shares")
         \o Do("add_counterparty_masks", <<"counterparty_shares">>, "")

(* setup.rs *)

run_key_exchange(p) ==
    Do("public_key", <<>>, "my_pk") \o exchange_message(p, "my_pk", "their_pk")
    \o Do("mac_plaintext", <<>>, "mac_pt") \o Do("encrypt", <<"mac_pt">>, "mac_pok")
    \o exchange_message(p, "mac_pok", "their_mac_pok")
    \o Do("set_keys", <<"their_pk", "their_mac_pok">>, "")

---------------------------------------------------------------------------
(* What the local steps compute.  v holds the arguments' values.           *)

\* add_public_value: only party 0 adds to its share, both to their MACs.
add_public_value(p, public, x) ==
    [k \in DOMAIN x |-> add_public(x[k], public[k], p)]

\* [x * y] = de + d[b] + e[a] + [c]
Beaver(p, d, e, a, b, c) ==
    add_public_value(p, PtMul(d, e),
        BatchAdd(BatchAdd(BatchScaleBy(b, d), BatchScaleBy(a, e)), c))

\* Mutant: the MACs are summed without the random coefficients.
MacCheckOf_PlainSum(p, opened, x, coeffs) ==
    Minus(SumSeq(macs(x)), Times(key[p], linear_combination(opened, coeffs)))

\* mac - mac_share * x, of the random linear combination of a batch
MacCheckOf(p, opened, x, coeffs) ==
    Minus(linear_combination(macs(x), coeffs),
          Times(key[p], linear_combination(opened, coeffs)))

\* (r / sqrt(r^2) + 1) / 2
SharedBits(p, x, opened) ==
    LET sqrt_inv == [k \in DOMAIN opened |-> Inv(Sqrt(opened[k]))]
        neg_one_or_one == BatchScaleBy(x, sqrt_inv)
    IN  BatchScale(add_public_value(p, set_all(One, Len(x)), neg_one_or_one), Inv(Two))

Half(x) == Len(x) \div 2

\* As many copies of the ciphertext as fill n slots
get_other_mac_enc(lg, n) ==
    [lg.other_mac_enc[1] EXCEPT !.val = [k \in 1..n |-> @[((k - 1) % Slots) + 1]]]

Result(p, s, op, v) ==
    CASE op = "public_key"     -> [owner |-> p]
      [] op = "mac_plaintext"  -> set_all(key[p], Slots)
      [] op = "encrypt"        -> encrypt(p, v[1])
      [] op = "decrypt"        -> decrypt(p, v[1])
      [] op = "product"        -> PtMul(v[1], v[2])
      [] op = "sum"            -> PtAdd(v[1], v[2])
      [] op = "difference"     -> PtSub(v[1], v[2])
      [] op = "from_scalars"   -> from_scalars(v[1])
      [] op = "from_parts"     -> from_parts(v[1], v[2])
      [] op = "values"         -> values(v[1])
      [] op = "sub"            -> BatchSub(v[1], v[2])
      [] op = "first_half"     -> SubSeq(v[1], 1, Half(v[1]))
      [] op = "second_half"    -> SubSeq(v[1], Half(v[1]) + 1, Len(v[1]))
      [] op = "mac_product"    -> PtMul(set_all(key[p], Len(v[1])), v[1])
      [] op = "other_mac_enc"  -> get_other_mac_enc(s.lg, Len(v[1]))
      [] op = "add_cross"      -> PtAdd(v[1], decrypt(p, v[2]))
      [] op = "mac_check"      -> <<MacCheckOf(p, v[1], v[2], v[3])>>
      [] op = "rho"            -> BatchSub(BatchScale(v[1], v[2][1]), v[3])
      [] op = "tau"            -> BatchSub(BatchSub(BatchScale(v[1], v[2][1]), v[3]),
                                           BatchScaleBy(v[4], v[5]))
      [] op = "beaver"         -> Beaver(p, v[1], v[2], v[3], v[4], v[5])
      [] op = "mask_macs"      -> [k \in DOMAIN v[1] |->
                                     Minus(Times(key[p], v[1][k]), v[2][k])]
      [] op = "masked_mac"     -> CtAddPlain(CtMulPlain(s.lg.other_mac_enc[1],
                                                        from_scalars(v[1])), v[2])

\* The condition under which a call goes on, and the error it returns if not.
Checks == {"need_setup", "need_triples", "fits_slots", "nonzero", "panic",
           "unexpected", "check_commitment", "check_mac", "check_zero"}

Passes(s, op, v) ==
    CASE op = "need_setup"       -> s.lg.other_pk # None
      [] op = "need_triples"     -> num_triples(s.lg) >= Len(v[1])
      [] op = "fits_slots"       -> Len(v[1]) < Slots
      [] op = "nonzero"          -> \A k \in DOMAIN v[1] : v[1][k] # Zero
      [] op = "check_commitment" -> commit_scalars(v[1]) = v[2]
      [] op = "check_mac"        -> Plus(v[1][1], v[2][1]) = Zero
      [] op = "check_zero"       -> \A k \in DOMAIN v[1] : v[1][k] = Zero
      [] OTHER                   -> FALSE

ErrorOf(op) ==
    CASE op = "check_commitment" -> "InvalidCommitment"
      [] op = "check_mac"        -> "InvalidMac"
      [] op = "check_zero"       -> "SacrificeError"
      [] op = "unexpected"       -> "UnexpectedMessage"
      [] OTHER                   -> "panic"

\* Mutant: the third batch of the pool is not split.
consume_triples_KeepsC(lg, n) ==
    [lg EXCEPT !.triples.a = Stays(@, n), !.triples.b = Stays(@, n)]

\* Mutant: the triples are copied out of the pool.
consume_triples_Copies(lg, n) == lg

\* Steps that change the LowGear itself
consume_triples(lg, n) ==
    [lg EXCEPT !.triples = [i \in DOMAIN @ |-> Stays(@[i], n)]]

\* A new batch replaces what is left of the last one.
set_triples(lg, a, b, c) == [lg EXCEPT !.triples = [a |-> a, b |-> b, c |-> c]]

set_inverse_tuples(lg, lhs, rhs, opened) ==
    LET inverses == [k \in DOMAIN opened |-> Inv(opened[k])]
    IN  [lg EXCEPT !.inverse_tuples =
                       [lhs |-> lhs, rhs |-> BatchScaleBy(rhs, inverses)]]

add_local_masks(lg, vals, shares) ==
    [lg EXCEPT !.input_masks.my_masks = @ \o vals,
               !.input_masks.my_mask_shares = @ \o shares]

add_counterparty_masks(lg, shares) ==
    [lg EXCEPT !.input_masks.their_masks = @ \o shares]

Stores == {"set_keys", "set_triples", "set_inverse_tuples", "set_shared_bits",
           "set_shared_randomness", "add_local_masks", "add_counterparty_masks"}

Store(p, lg, op, v) ==
    CASE op = "set_keys"              -> [lg EXCEPT !.other_pk = Some(v[1].owner),
                                                    !.other_mac_enc = Some(v[2])]
      [] op = "set_triples"           -> set_triples(lg, v[1], v[2], v[3])
      [] op = "set_inverse_tuples"    -> set_inverse_tuples(lg, v[1], v[2], v[3])
      [] op = "set_shared_bits"       -> [lg EXCEPT !.shared_bits =
                                                      SharedBits(p, v[1], v[2])]
      [] op = "set_shared_randomness" -> [lg EXCEPT !.shared_randomness = v[1]]
      [] op = "add_local_masks"       -> add_local_masks(lg, v[1], v[2])
      [] op = "add_counterparty_masks" -> add_counterparty_masks(lg, v[1])

---------------------------------------------------------------------------
(* Running a call                                                          *)

Put(s, reg, v) ==
    [s EXCEPT !.mem = [r \in DOMAIN @ \cup {reg} |-> IF r = reg THEN v ELSE @[r]]]
Forget(s, reg) == [s EXCEPT !.mem = [r \in DOMAIN @ \ {reg} |-> @[r]]]

\* `?`, a failed assertion or an unwrap: the call ends, and with it the task.
Fail(s, err) == [s EXCEPT !.status = err, !.prog = <<>>]

Randoms(p, s, n) == [k \in 1..n |-> Rand(p, s.drawn + k)]

\* Entries of the log of triples, for the triples of the three batches t: consumed
\* by the offline phase, copied into a result, or handed to the online phase.
Log(by, t) ==
    [k \in DOMAIN t.a |-> [by |-> by, triple |-> <<t.a[k], t.b[k], t.c[k]>>]]

\* The n last triples, t, leave the pool to be used.
Use(s, n, t) == [s EXCEPT !.lg = consume_triples(@, n), !.used = @ \o Log("offline", t)]

\* One local step of party p, whose state s has already moved past it
Compute(p, s, i) ==
    LET v == IF i.op = "draw" THEN <<>> ELSE [k \in DOMAIN i.args |-> s.mem[i.args[k]]]
    IN  CASE i.op = "draw" ->
               [Put(s, i.res, Randoms(p, s, i.n)) EXCEPT !.drawn = @ + i.n]
          [] i.op = "cross_products" ->
               LET mask == Randoms(p, s, Len(v[2]))
               IN  [Put(Put(s, i.res, PtSub(v[3], mask)),
                        "cross", CtAddPlain(CtMulPlain(v[1], v[2]), mask))
                    EXCEPT !.drawn = @ + Len(v[2])]
          [] i.op = "consume_triples" ->
               LET n == Len(v[1])
                   t == [f \in DOMAIN s.lg.triples |-> split_off(s.lg.triples[f], n)]
               IN  Put(Put(Put(Use(s, n, t), "ta", t.a), "tb", t.b), "tc", t.c)
          [] i.op = "commit_scalars" ->   \* a new round: no commitment is held yet
               Put(Forget(s, "their_comm"), i.res, commit_scalars(v[1]))
          [] i.op \in Stores -> [s EXCEPT !.lg = Store(p, @, i.op, v)]
          [] i.op \in Checks -> IF Passes(s, i.op, v) THEN s ELSE Fail(s, ErrorOf(i.op))
          [] OTHER -> Put(s, i.res, Result(p, s, i.op, v))

---------------------------------------------------------------------------
(* LowGearPrep: the pools the online phase draws from (structs.rs)         *)

\* Values taken from the tail of each pool of a record of pools
Take(pools, n) == [f \in DOMAIN pools |-> split_off(pools[f], n)]
Leave(pools, n) == [f \in DOMAIN pools |-> Stays(pools[f], n)]
Append2(pools, other) == [f \in DOMAIN pools |-> pools[f] \o other[f]]

get_offline_result(lg) ==
    [triplets |-> lg.triples, inverse_pairs |-> lg.inverse_tuples,
     bits |-> [bit |-> lg.shared_bits], values |-> [val |-> lg.shared_randomness],
     local |-> [mask |-> lg.input_masks.my_masks,
                share |-> lg.input_masks.my_mask_shares],
     theirs |-> [share |-> lg.input_masks.their_masks]]

SizeOf(pools) == Len(pools[CHOOSE f \in DOMAIN pools : TRUE])

\* The next_* methods: which pool of party p a request draws from.  For an
\* input of party q, q takes one of its own masks and the other its share.
PoolOf(p, req) == IF req.pool # "mask" THEN req.pool
                  ELSE IF req.owner = p THEN "local" ELSE "theirs"

\* Mutant: the share of a counterparty's mask comes from the head of its pool.
next_MaskFromHead(s, p, req) ==
    LET f == PoolOf(p, req)
        pools == s.prep[f]
        head(x) == SubSeq(x, 1, req.n)
    IN  IF SizeOf(pools) < req.n THEN Fail(s, "panic")
        ELSE [s EXCEPT !.prep[f] = Leave(pools, req.n),
                       !.handed = Append(@, [req |-> req, got |->
                           IF f = "theirs" THEN [share |-> head(pools.share)]
                           ELSE Take(pools, req.n)]),
                       !.used = IF f = "triplets"
                                THEN @ \o Log("online", Take(pools, req.n)) ELSE @]

\* next_triplet, next_shared_bit, ... and their batches: an assertion or an
\* arithmetic overflow ends the task when the pool holds too few.
next(s, p, req) ==
    LET f == PoolOf(p, req)
        pools == s.prep[f]
    IN  IF SizeOf(pools) < req.n THEN Fail(s, "panic")
        ELSE [s EXCEPT !.prep[f] = Leave(pools, req.n),
                       !.handed = Append(@, [req |-> req, got |-> Take(pools, req.n)]),
                       !.used = IF f = "triplets"
                                THEN @ \o Log("online", Take(pools, req.n)) ELSE @]

---------------------------------------------------------------------------
(* The application's calls                                                 *)

\* run_offline_phase makes the five generator calls in turn.
run_offline_phase(sizes) ==
    << [op |-> "generate_triples"],
       [op |-> "generate_inverse_tuples", n |-> sizes.num_inverse_pairs],
       [op |-> "generate_shared_bits", n |-> sizes.num_bits],
       [op |-> "generate_shared_randomness", n |-> sizes.num_randomness],
       [op |-> "generate_input_masks", n |-> sizes.num_input_masks] >>

Generators == {"run_key_exchange", "generate_triples", "generate_inverse_tuples",
               "generate_shared_bits", "generate_shared_randomness",
               "generate_input_masks"}

Program(p, lg, call) ==
    CASE call.op = "run_key_exchange"           -> run_key_exchange(p)
      [] call.op = "generate_triples"           -> generate_triples(p)
      [] call.op = "generate_inverse_tuples"    -> generate_inverse_tuples(p, lg, call.n)
      [] call.op = "generate_shared_bits"       -> generate_shared_bits(p, lg, call.n)
      [] call.op = "generate_shared_randomness" -> generate_shared_randomness(p, call.n)
      [] call.op = "generate_input_masks"       -> generate_input_masks(p, call.n)

\* The log once the triples of the LowGear are copied, if they are among the pools
Copied(s, pools) ==
    IF "triplets" \in pools THEN s.used \o Log("copy", s.lg.triples) ELSE s.used

\* The setup parameters and the result exist only after the key exchange.
CallOnResult(s, call) ==
    CASE call.op = "new_from_params" ->
           [s EXCEPT !.lg = [NewLowGear EXCEPT !.other_pk = s.lg.other_pk,
                                               !.other_mac_enc = s.lg.other_mac_enc]]
      [] call.op = "get_offline_result" ->
           [s EXCEPT !.prep = get_offline_result(s.lg), !.used = Copied(s, {"triplets"})]
      [] call.op = "append" ->
           LET other == get_offline_result(s.lg)
           IN  [s EXCEPT !.prep = [f \in DOMAIN @ |->
                    IF f \in call.pools THEN Append2(@[f], other[f]) ELSE @[f]],
                             !.used = Copied(s, call.pools)]

\* What a call that sends nothing does.
LocalCall(p, s, call) ==
    CASE call.op = "run_offline_phase" ->
           [s EXCEPT !.calls = run_offline_phase(call.sizes) \o @]
      [] call.op = "next" -> next(s, p, call.req)
      [] OTHER -> IF s.lg.other_pk = None THEN Fail(s, "NotSetup") ELSE CallOnResult(s, call)

Network == {"send", "recv"}

\* A task runs until its next send or receive; what it computes on the way
\* concerns nobody else.
Advance(p, s) ==
    LET awaits == {k \in DOMAIN s.prog : s.prog[k].op \in Network}
        n == IF awaits = {} THEN Len(s.prog)
             ELSE (CHOOSE k \in awaits : \A j \in awaits : k <= j) - 1
        step(t) == IF t.status # "running" THEN t
                   ELSE Compute(p, [t EXCEPT !.prog = Tail(@)], Head(t.prog))
        run[k \in 0..n] ==
            IF k = 0 THEN s ELSE CHOOSE u \in {step(t) : t \in {run[k - 1]}} : TRUE
    IN  run[n]

Past(s) == [s EXCEPT !.prog = Tail(@)]

Begin(p) ==
    LET s == party[p]
        call == Head(s.calls)
        past == [s EXCEPT !.calls = Tail(@), !.mem = <<>>]
    IN  /\ s.status = "running" /\ s.prog = <<>> /\ s.calls # <<>>
        /\ party' = [party EXCEPT ![p] =
               IF call.op \in Generators
               THEN Advance(p, [past EXCEPT !.prog = Program(p, s.lg, call)])
               ELSE LocalCall(p, past, call)]
        /\ UNCHANGED <<key, wire, dev>>

At(p, op) ==
    /\ party[p].status = "running" /\ party[p].prog # <<>>
    /\ Head(party[p].prog).op = op

Outgoing(p) ==
    LET i == Head(party[p].prog)
    IN  [kind |-> i.kind, body |-> party[p].mem[i.reg]]

Transmit(p, m) ==
    /\ At(p, "send")
    /\ wire' = [wire EXCEPT ![1 - p] = Append(@, m)]
    /\ party' = [party EXCEPT ![p] = Advance(p, Past(@))]
    /\ UNCHANGED key

Send(p) == Transmit(p, Outgoing(p)) /\ UNCHANGED dev

\* A party that deviates adds an error to the first value of a message.  A
\* public key and a commitment have no value to add to.
Wrong(m, delta) ==
    IF m.kind = "ScalarBatch" THEN [m EXCEPT !.body[1] = Plus(@, delta)]
    ELSE [m EXCEPT !.body.val[1] = Plus(@, delta)]

SendWrong(p) ==
    \E delta \in dev.errors :
        /\ At(p, "send")
        /\ Outgoing(p).kind # "ScalarBatch" => "val" \in DOMAIN Outgoing(p).body
        /\ Transmit(p, Wrong(Outgoing(p), delta))
        /\ dev' = [errors |-> {}, made |-> TRUE]

\* receive_message returns an error on a payload that is not bytes, which
\* party 1 passes on only after its answer; receive_network_payload panics on
\* a payload of another type.
Unexpected(p, s, kind) ==
    CASE kind # "Bytes" -> Fail(s, "panic")
      [] kind = "Bytes" /\ p = 0 -> Fail(s, "UnexpectedMessage")
      [] kind = "Bytes" /\ p = 1 ->
           [s EXCEPT !.prog = <<Head(@)>> \o Check("unexpected", <<>>)]

Receive(p) ==
    LET i == Head(party[p].prog)
        m == Head(wire[p])
    IN  /\ At(p, "recv") /\ wire[p] # <<>>
        /\ wire' = [wire EXCEPT ![p] = Tail(@)]
        /\ party' = [party EXCEPT ![p] =
               IF m.kind = i.kind THEN Advance(p, Put(Past(@), i.reg, m.body))
               ELSE Unexpected(p, Past(@), i.kind)]
        /\ UNCHANGED <<key, dev>>

Stopped(p) == party[p].status # "running"

\* A party whose task ended has dropped its connection.  What it had sent is
\* still delivered; then the stream ends, which receive unwraps.
Disconnected(p) ==
    /\ At(p, "recv") /\ wire[p] = <<>> /\ Stopped(1 - p)
    /\ party' = [party EXCEPT ![p] = Fail(@, "panic")]
    /\ UNCHANGED <<key, wire, dev>>

\* A send on a connection the peer dropped returns an error or is lost.
SendFails(p) ==
    /\ At(p, "send") /\ Stopped(1 - p)
    /\ party' = [party EXCEPT ![p] = Fail(@, "SendMessage")]
    /\ UNCHANGED <<key, wire, dev>>

Finish(p) ==
    /\ party[p].status = "running" /\ party[p].prog = <<>> /\ party[p].calls = <<>>
    /\ party' = [party EXCEPT ![p].status = "done"]
    /\ UNCHANGED <<key, wire, dev>>

Step(p) ==
    \/ Begin(p) \/ Send(p) \/ SendWrong(p) \/ Receive(p)
    \/ Disconnected(p) \/ SendFails(p) \/ Finish(p)

Init ==
    /\ key \in KeyShares
    /\ \E sc \in Scenarios :
          /\ dev = [errors |-> sc.errors, made |-> FALSE]
          /\ party = [p \in Party |->
                [lg |-> NewLowGear, prep |-> get_offline_result(NewLowGear),
                 used |-> <<>>, handed |-> <<>>, calls |-> sc.calls[p], prog |-> <<>>,
                 mem |-> <<>>, drawn |-> 0, status |-> "running"]]
    /\ wire = [p \in Party |-> <<>>]

Next == \E p \in Party : Step(p)

Spec == Init /\ [][Next]_lgVars

\* Each party's task is polled again after every await it can make progress at.
FairSpec == Spec /\ \A p \in Party : WF_lgVars(Step(p))

---------------------------------------------------------------------------
(* Properties                                                              *)

Statuses == {"running", "done", "panic", "NotSetup", "InvalidCommitment", "InvalidMac",
             "SacrificeError", "UnexpectedMessage", "SendMessage"}

\* Every pool holds shares, the parts of a pool have one length, every message
\* has a payload type, and a stopped party has nothing left to run.
TypeOK ==
    /\ key \in [Party -> F]
    /\ \A p \in Party :
          LET s == party[p]
              m == s.lg.input_masks
          IN  /\ s.status \in Statuses /\ s.drawn \in Nat
              /\ s.status # "running" => s.prog = <<>>
              /\ s.lg.other_pk \in {None, Some(1 - p)}
              /\ \A x \in {s.lg.triples.a, s.lg.triples.b, s.lg.triples.c} :
                    x \in Seq(ShareOf(F)) /\ Len(x) = num_triples(s.lg)
              /\ s.lg.inverse_tuples \in [{"lhs", "rhs"} -> Seq(ShareOf(F))]
              /\ s.lg.shared_bits \in Seq(ShareOf(F))
              /\ s.lg.shared_randomness \in Seq(ShareOf(F))
              /\ Len(m.my_masks) = Len(m.my_mask_shares)
              /\ \A k \in DOMAIN wire[p] : wire[p][k].kind \in {"Bytes", "Scalar", "ScalarBatch"}

\* The parties are between calls, and have made the same ones.
InStep ==
    /\ \A p \in Party : party[p].prog = <<>> /\ party[p].status \in {"running", "done"}
    /\ party[0].calls = party[1].calls

\* The two parties' shares x and y of one value are authenticated.
Reconstruct(x, y) == Plus(x.share, y.share)
Valid(x, y) == Plus(x.mac, y.mac) = Times(MacKey, Reconstruct(x, y))
AllValid(xs, ys) ==
    Len(xs) = Len(ys) /\ \A k \in DOMAIN xs : Valid(xs[k], ys[k])

ValidTriples(t, u) ==
    /\ \A f \in DOMAIN t : AllValid(t[f], u[f])
    /\ \A k \in DOMAIN t.a : Reconstruct(t.c[k], u.c[k]) =
          Times(Reconstruct(t.a[k], u.a[k]), Reconstruct(t.b[k], u.b[k]))

ValidPairs(t, u) ==
    /\ \A f \in DOMAIN t : AllValid(t[f], u[f])
    /\ \A k \in DOMAIN t.lhs :
          Times(Reconstruct(t.lhs[k], u.lhs[k]), Reconstruct(t.rhs[k], u.rhs[k])) = One

ValidBits(x, y) ==
    AllValid(x, y) /\ \A k \in DOMAIN x : Reconstruct(x[k], y[k]) \in {Zero, One}

ValidMasks(mask, own, theirs) ==
    /\ AllValid(own, theirs) /\ Len(mask) = Len(own)
    /\ \A k \in DOMAIN own : Reconstruct(own[k], theirs[k]) = mask[k]

\* Whenever both parties are between calls, index k of a pool at one party and
\* index k at the other are an authenticated sharing of a triple, an inverse
\* pair or a bit, even if one message of the protocol carried an error: the
\* sacrifice and the MAC checks of generate_triples, beaver_mul and the
\* openings stop both parties before such values are stored.
PoolsAuthentic ==
    InStep =>
        LET s == party[0].lg
            u == party[1].lg
        IN  /\ ValidTriples(s.triples, u.triples)
            /\ ValidPairs(s.inverse_tuples, u.inverse_tuples)
            /\ ValidBits(s.shared_bits, u.shared_bits)

Honest == ~dev.made

\* What the next_* methods of the two parties hand out for the same request
\* fits together: the k-th request of both yields shares of the same triple,
\* pair, bit, random value or input mask, through generation, consumption by
\* other generators, restarts from the setup parameters and appended pools.
HandedOutFits ==
    Honest => \A k \in DOMAIN party[0].handed \cap DOMAIN party[1].handed :
        LET h == party[0].handed[k]
            g == party[1].handed[k]
        IN  h.req = g.req =>
              CASE h.req.pool = "triplets"      -> ValidTriples(h.got, g.got)
                [] h.req.pool = "inverse_pairs" -> ValidPairs(h.got, g.got)
                [] h.req.pool = "bits"          -> ValidBits(h.got.bit, g.got.bit)
                [] h.req.pool = "values"        -> AllValid(h.got.val, g.got.val)
                [] h.req.pool = "mask" /\ h.req.owner = 0 ->
                     ValidMasks(h.got.mask, h.got.share, g.got.share)
                [] h.req.pool = "mask" /\ h.req.owner = 1 ->
                     ValidMasks(g.got.mask, g.got.share, h.got.share)

\* Beaver triples are not reused, as far as the pools are responsible for it: no
\* triple masks two products of the offline phase, no result holds a triple that the
\* offline phase has used before, and the online phase is handed a triple at most
\* once for each time the application had it copied.  So nothing is used twice when
\* the triples are copied once, after the generators that consume them.  It does
\* happen when they are copied twice, or when a generator runs after the copy, since
\* get_offline_result leaves the triples in the LowGear.
TriplesFresh ==
    \A p \in Party :
        LET log == party[p].used
            Entries(by, triple) == {k \in DOMAIN log : log[k].by = by /\ log[k].triple = triple}
        IN  \A k \in DOMAIN log :
              LET t == log[k].triple
              IN  /\ log[k].by = "offline" => Entries("offline", t) = {k}
                  /\ log[k].by = "copy" => \A j \in Entries("offline", t) : k < j
                  /\ Cardinality(Entries("online", t)) <= Cardinality(Entries("copy", t))

\* Without a deviation no check of the protocol fails, and of two parties that made
\* the same calls either both finish or neither: a call before setup, a misused
\* generator or an exhausted pool stops both.
HonestNeverAccused ==
    Honest =>
        /\ \A p \in Party : party[p].status \notin
              {"InvalidCommitment", "InvalidMac", "SacrificeError"}
        /\ (\A p \in Party : Stopped(p) /\ party[p].calls = party[1 - p].calls) =>
              (party[0].status = "done") = (party[1].status = "done")

\* A party reveals the values it committed to only after it holds the
\* counterparty's commitment, so neither picks its part of a joint random
\* value, or of a MAC check, knowing the other's.
RevealAfterCommit ==
    [][\A p \in Party :
         (At(p, "send") /\ party'[p] # party[p] /\ wire'[1 - p] # wire[1 - p]) =>
             LET i == Head(party[p].prog)
                 mem == party[p].mem
             IN  ("my_comm" \in DOMAIN mem /\ i.kind = "ScalarBatch"
                  /\ commit_scalars(mem[i.reg]) = mem.my_comm) => "their_comm" \in DOMAIN mem
      ]_lgVars

\* Both tasks end: the parties never wait for each other, whatever the
\* deviation, and a party whose counterparty gave up does not wait for ever.
Finishes == <>(\A p \in Party : Stopped(p))
=============================================================================
