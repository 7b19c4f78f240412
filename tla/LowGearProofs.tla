--------------------------- MODULE LowGearProofs ----------------------------
(***************************************************************************)
(* Proofs about the LowGear offline phase, for every field, every number   *)
(* of slots, every sequence of calls and every interleaving of the two     *)
(* parties' tasks.                                                         *)
(***************************************************************************)
EXTENDS LowGear, SharesProofs, SequenceTheorems

---------------------------------------------------------------------------
(* Programs                                                                *)

\* The names of steps, of registers and of payload types
Names == {
    "", "A", "B", "B_prime", "Bytes", "C", "C_prime", "Scalar", "ScalarBatch", "a",
    "a_enc", "add_counterparty_masks", "add_cross", "add_local_masks", "b",
    "b_prime", "beaver", "c", "c_mine", "c_prime", "c_prime_mine", "c_res",
    "check_commitment", "check_mac", "check_zero", "coeffs", "commit_scalars",
    "consume_triples", "counterparty_macs", "counterparty_shares", "cross",
    "cross_products", "d", "decrypt", "difference", "draw", "e", "encrypt",
    "first_half", "fits_slots", "from_parts", "from_scalars", "lhs", "mac",
    "mac_check", "mac_enc", "mac_mask", "mac_mine", "mac_plaintext", "mac_pok",
    "mac_product", "mac_pt", "mask_macs", "masked_mac", "my_comm", "my_mac_shares",
    "my_macs", "my_pk", "my_rho", "my_share", "my_shares", "my_tau", "my_values",
    "my_values_shares", "need_setup", "need_triples", "nonzero", "opened",
    "other_mac_enc", "panic", "product", "public_key", "r", "rand", "rand_mac",
    "rand_pt", "recv", "rho", "rhs", "second_half", "send", "set_inverse_tuples",
    "set_keys", "set_shared_bits", "set_shared_randomness", "set_triples",
    "squares", "sub", "sum", "ta", "tau", "tb", "tc", "their_a_enc", "their_comm",
    "their_cross", "their_mac", "their_mac_check", "their_mac_pok", "their_pk",
    "their_share", "their_shares", "their_values", "unexpected", "vals", "values",
    "x_a", "x_values", "y_b"}

\* The steps that programs are made of.
Instr ==
    [op : Names, args : Seq(Names), res : Names]
    \cup [op : {"draw"}, n : Nat, res : Names]
    \cup [op : Network, kind : Names, reg : Names]

Progs == Seq(Instr)

LEMMA InNames ==
    /\ "" \in Names /\ "A" \in Names /\ "B" \in Names /\ "B_prime" \in Names
    /\ "Bytes" \in Names /\ "C" \in Names /\ "C_prime" \in Names /\ "Scalar" \in Names
    /\ "ScalarBatch" \in Names /\ "a" \in Names /\ "a_enc" \in Names
    /\ "add_counterparty_masks" \in Names /\ "add_cross" \in Names
    /\ "add_local_masks" \in Names /\ "b" \in Names /\ "b_prime" \in Names
    /\ "beaver" \in Names /\ "c" \in Names /\ "c_mine" \in Names
    /\ "c_prime" \in Names /\ "c_prime_mine" \in Names /\ "c_res" \in Names
    /\ "check_commitment" \in Names /\ "check_mac" \in Names /\ "check_zero" \in Names
    /\ "coeffs" \in Names /\ "commit_scalars" \in Names /\ "consume_triples" \in Names
    /\ "counterparty_macs" \in Names /\ "counterparty_shares" \in Names
    /\ "cross" \in Names /\ "cross_products" \in Names /\ "d" \in Names
    /\ "decrypt" \in Names /\ "difference" \in Names /\ "draw" \in Names
    /\ "e" \in Names /\ "encrypt" \in Names /\ "first_half" \in Names
    /\ "fits_slots" \in Names /\ "from_parts" \in Names /\ "from_scalars" \in Names
    /\ "lhs" \in Names /\ "mac" \in Names /\ "mac_check" \in Names
    /\ "mac_enc" \in Names /\ "mac_mask" \in Names /\ "mac_mine" \in Names
    /\ "mac_plaintext" \in Names /\ "mac_pok" \in Names /\ "mac_product" \in Names
    /\ "mac_pt" \in Names /\ "mask_macs" \in Names /\ "masked_mac" \in Names
    /\ "my_comm" \in Names /\ "my_mac_shares" \in Names /\ "my_macs" \in Names
    /\ "my_pk" \in Names /\ "my_rho" \in Names /\ "my_share" \in Names
    /\ "my_shares" \in Names /\ "my_tau" \in Names /\ "my_values" \in Names
    /\ "my_values_shares" \in Names /\ "need_setup" \in Names
    /\ "need_triples" \in Names /\ "nonzero" \in Names /\ "opened" \in Names
    /\ "other_mac_enc" \in Names /\ "panic" \in Names /\ "product" \in Names
    /\ "public_key" \in Names /\ "r" \in Names /\ "rand" \in Names
    /\ "rand_mac" \in Names /\ "rand_pt" \in Names /\ "recv" \in Names
    /\ "rho" \in Names /\ "rhs" \in Names /\ "second_half" \in Names
    /\ "send" \in Names /\ "set_inverse_tuples" \in Names /\ "set_keys" \in Names
    /\ "set_shared_bits" \in Names /\ "set_shared_randomness" \in Names
    /\ "set_triples" \in Names /\ "squares" \in Names /\ "sub" \in Names
    /\ "sum" \in Names /\ "ta" \in Names /\ "tau" \in Names /\ "tb" \in Names
    /\ "tc" \in Names /\ "their_a_enc" \in Names /\ "their_comm" \in Names
    /\ "their_cross" \in Names /\ "their_mac" \in Names /\ "their_mac_check" \in Names
    /\ "their_mac_pok" \in Names /\ "their_pk" \in Names /\ "their_share" \in Names
    /\ "their_shares" \in Names /\ "their_values" \in Names /\ "unexpected" \in Names
    /\ "vals" \in Names /\ "values" \in Names /\ "x_a" \in Names
    /\ "x_values" \in Names /\ "y_b" \in Names
  BY DEF Names

LEMMA ArgLists ==
    /\ <<>> \in Seq(Names)
    /\ \A u \in Names : <<u>> \in Seq(Names)
    /\ \A u, v \in Names : <<u, v>> \in Seq(Names)
    /\ \A u, v, w \in Names : <<u, v, w>> \in Seq(Names)
    /\ \A u, v, w, x, y \in Names : <<u, v, w, x, y>> \in Seq(Names)
  OBVIOUS

\* Every non-empty set of naturals has a least element.
LEMMA Least ==
    ASSUME NEW S, S \subseteq Nat, S # {}
    PROVE  \E m \in S : \A j \in S : m <= j
  <1> SUFFICES ASSUME \A m \in S : \E j \in S : ~(m <= j) PROVE FALSE
    OBVIOUS
  <1> DEFINE T == {n \in Nat : \A i \in 0..n : i \notin S}
  <1>1. 0 \in T
    OBVIOUS
  <1>2. ASSUME NEW n \in Nat, n \in T PROVE n + 1 \in T
    <2>1. n + 1 \notin S
      <3> SUFFICES ASSUME n + 1 \in S PROVE FALSE
        OBVIOUS
      <3>1. PICK j \in S : ~(n + 1 <= j)
        OBVIOUS
      <3>2. j \in 0..n
        BY <3>1
      <3> QED BY <1>2, <3>2
    <2>2. \A i \in 0..n + 1 : i \in 0..n \/ i = n + 1
      OBVIOUS
    <2> QED BY <1>2, <2>1, <2>2
  <1>3. \A n \in Nat : n \in T
    <2> HIDE DEF T
    <2> QED BY <1>1, <1>2, Induction
  <1>4. \A n \in Nat : n \notin S
    BY <1>3
  <1> QED BY <1>4

---------------------------------------------------------------------------
(* Advance runs local steps, one after the other.                          *)

\* One step of a task; a task that ended takes none.
RunStep(p, t) ==
    IF t.status # "running" THEN t ELSE Compute(p, [t EXCEPT !.prog = Tail(@)], Head(t.prog))

RunsOf(p, s, n, run) ==
    run = [k \in 0..n |->
              IF k = 0 THEN s ELSE CHOOSE u \in {RunStep(p, t) : t \in {run[k - 1]}} : TRUE]

LEMMA RunsExist ==
    ASSUME NEW p, NEW s, NEW n \in Nat
    PROVE  \E run : RunsOf(p, s, n, run)
  <1> DEFINE T == {m \in Nat : \E run : RunsOf(p, s, m, run)}
  <1>1. 0 \in T
    <2>1. RunsOf(p, s, 0, [k \in 0..0 |-> s])
      BY DEF RunsOf
    <2> QED BY <2>1
  <1>2. ASSUME NEW m \in Nat, m \in T PROVE m + 1 \in T
    <2>1. PICK f : RunsOf(p, s, m, f)
      BY <1>2
    <2> DEFINE g == [k \in 0..m + 1 |->
                        IF k = m + 1 THEN CHOOSE u \in {RunStep(p, t) : t \in {f[m]}} : TRUE
                        ELSE f[k]]
    <2>2. ASSUME NEW k \in 0..m + 1
          PROVE  g[k] = IF k = 0 THEN s
                        ELSE CHOOSE u \in {RunStep(p, t) : t \in {g[k - 1]}} : TRUE
      <3>1. CASE k = m + 1
        <4>1. g[m] = f[m] /\ k - 1 = m /\ k # 0
          BY <3>1
        <4>2. g[k] = CHOOSE u \in {RunStep(p, t) : t \in {f[m]}} : TRUE
          BY <3>1
        <4> QED BY <4>1, <4>2
      <3>2. CASE k # m + 1
        <4>1. k \in 0..m
          BY <3>2
        <4>2. f[k] = IF k = 0 THEN s
                     ELSE CHOOSE u \in {RunStep(p, t) : t \in {f[k - 1]}} : TRUE
          BY <2>1, <4>1 DEF RunsOf
        <4>3. k # 0 => k - 1 \in 0..m
          BY <4>1
        <4>4. g[k] = f[k] /\ (k # 0 => g[k - 1] = f[k - 1])
          BY <4>1, <4>3
        <4> QED BY <4>2, <4>4
      <3> QED BY <3>1, <3>2
    <2>3. RunsOf(p, s, m + 1, g)
      <3> DEFINE H(k) == IF k = 0 THEN s
                         ELSE CHOOSE u \in {RunStep(p, t) : t \in {g[k - 1]}} : TRUE
      <3>1. DOMAIN g = 0..m + 1 /\ \A k \in 0..m + 1 : g[k] = H(k)
        BY <2>2
      <3>2. g = [k \in 0..m + 1 |-> H(k)]
        <4> HIDE DEF H
        <4> QED BY <3>1
      <3> QED BY <3>2 DEF RunsOf
    <2> QED BY <2>3
  <1> HIDE DEF T
  <1>3. n \in T
    BY <1>1, <1>2, Induction
  <1> QED BY <1>3 DEF T

LEMMA RunsStep ==
    ASSUME NEW p, NEW s, NEW n \in Nat, NEW run, RunsOf(p, s, n, run)
    PROVE  run[0] = s /\ \A k \in 1..n : run[k] = RunStep(p, run[k - 1])
  <1>1. run[0] = s
    BY DEF RunsOf
  <1>2. ASSUME NEW k \in 1..n PROVE run[k] = RunStep(p, run[k - 1])
    <2>1. run[k] = CHOOSE u \in {RunStep(p, t) : t \in {run[k - 1]}} : TRUE
      BY DEF RunsOf
    <2>2. PICK r : r = run[k - 1]
      OBVIOUS
    <2>3. {RunStep(p, t) : t \in {r}} = {RunStep(p, r)}
      OBVIOUS
    <2>4. \A x : (CHOOSE u \in {x} : TRUE) = x
      OBVIOUS
    <2> QED BY <2>1, <2>2, <2>3, <2>4
  <1> QED BY <1>1, <1>2

\* The number of steps before the next send or receive
IsQuiet(prog, n) ==
    /\ n \in 0..Len(prog)
    /\ \A k \in 1..n : prog[k].op \notin Network
    /\ n < Len(prog) => prog[n + 1].op \in Network

LEMMA AdvanceRuns ==
    ASSUME NEW p, NEW s, s.prog \in Progs
    PROVE  \E n, run : /\ IsQuiet(s.prog, n) /\ RunsOf(p, s, n, run)
                       /\ Advance(p, s) = run[n]
  <1> DEFINE awaits == {k \in DOMAIN s.prog : s.prog[k].op \in Network}
             n == IF awaits = {} THEN Len(s.prog)
                  ELSE (CHOOSE k \in awaits : \A j \in awaits : k <= j) - 1
             run == CHOOSE r : RunsOf(p, s, n, r)
  <1>1. Len(s.prog) \in Nat /\ DOMAIN s.prog = 1..Len(s.prog)
    BY DEF Progs
  <1>2. IsQuiet(s.prog, n)
    <2>1. CASE awaits = {}
      BY <1>1, <2>1 DEF IsQuiet
    <2>2. CASE awaits # {}
      <3>1. awaits \subseteq Nat
        BY <1>1
      <3>2. \E k \in awaits : \A j \in awaits : k <= j
        BY <2>2, <3>1, Least
      <3> DEFINE c == CHOOSE k \in awaits : \A j \in awaits : k <= j
      <3>3. c \in awaits /\ \A j \in awaits : c <= j
        BY <3>2
      <3>4. n = c - 1
        BY <2>2
      <3> HIDE DEF c, n
      <3>5. c \in 1..Len(s.prog) /\ s.prog[c].op \in Network
        BY <1>1, <3>3
      <3>6. ASSUME NEW k \in 1..n PROVE s.prog[k].op \notin Network
        <4>1. k \in 1..Len(s.prog) /\ ~(c <= k)
          BY <1>1, <3>4, <3>5
        <4> QED BY <1>1, <3>3, <4>1
      <3> QED BY <1>1, <3>4, <3>5, <3>6 DEF IsQuiet
    <2> QED BY <2>1, <2>2
  <1>3. n \in Nat
    BY <1>1, <1>2 DEF IsQuiet
  <1>4. RunsOf(p, s, n, run)
    <2> HIDE DEF n
    <2> QED BY <1>3, RunsExist
  <1>5. Advance(p, s) = run[n]
    BY DEF Advance, RunsOf, RunStep
  <1> HIDE DEF n, run
  <1> QED BY <1>2, <1>4, <1>5


---------------------------------------------------------------------------
(* The state of a party, and what a local step does to it                  *)

Fields == {"lg", "prep", "used", "handed", "calls", "prog", "mem", "drawn", "status"}

IsState(s) == DOMAIN s = Fields /\ s = [f \in Fields |-> s[f]]


\* The arguments of a step
ArgsOf(s, i) == [k \in DOMAIN i.args |-> s.mem[i.args[k]]]

\* What a local step does, by its operation.
Special == {"draw", "cross_products", "consume_triples", "commit_scalars"}

LEMMA ComputeDraw ==
    ASSUME NEW p, NEW s, NEW i, i.op = "draw"
    PROVE  Compute(p, s, i) = [Put(s, i.res, Randoms(p, s, i.n)) EXCEPT !.drawn = @ + i.n]
  BY DEF Compute, Stores, Checks

LEMMA ComputeCross ==
    ASSUME NEW p, NEW s, NEW i, i.op = "cross_products", NEW v, v = ArgsOf(s, i),
           NEW mask, mask = Randoms(p, s, Len(v[2]))
    PROVE  Compute(p, s, i) = [Put(Put(s, i.res, PtSub(v[3], mask)),
                                   "cross", CtAddPlain(CtMulPlain(v[1], v[2]), mask))
                               EXCEPT !.drawn = @ + Len(v[2])]
  BY DEF Compute, Stores, Checks, ArgsOf

LEMMA ComputeConsume ==
    ASSUME NEW p, NEW s, NEW i, i.op = "consume_triples", NEW n, n = Len(ArgsOf(s, i)[1]),
           NEW t, t = [f \in DOMAIN s.lg.triples |-> split_off(s.lg.triples[f], n)]
    PROVE  Compute(p, s, i) = Put(Put(Put(Use(s, n, t), "ta", t.a), "tb", t.b), "tc", t.c)
  BY DEF Compute, Stores, Checks, ArgsOf

LEMMA ComputeCommit ==
    ASSUME NEW p, NEW s, NEW i, i.op = "commit_scalars"
    PROVE  Compute(p, s, i) =
               Put(Forget(s, "their_comm"), i.res, commit_scalars(ArgsOf(s, i)[1]))
  BY DEF Compute, Stores, Checks, ArgsOf

LEMMA ComputeStore ==
    ASSUME NEW p, NEW s, NEW i, i.op \in Stores
    PROVE  Compute(p, s, i) = [s EXCEPT !.lg = Store(p, @, i.op, ArgsOf(s, i))]
  BY DEF Compute, Stores, Checks, ArgsOf

LEMMA ComputeCheck ==
    ASSUME NEW p, NEW s, NEW i, i.op \in Checks
    PROVE  Compute(p, s, i) = IF Passes(s, i.op, ArgsOf(s, i)) THEN s
                              ELSE Fail(s, ErrorOf(i.op))
  BY DEF Compute, Stores, Checks, ArgsOf

LEMMA ComputePure ==
    ASSUME NEW p, NEW s, NEW i, i.op \notin Special \cup Stores \cup Checks
    PROVE  Compute(p, s, i) = Put(s, i.res, Result(p, s, i.op, ArgsOf(s, i)))
  BY DEF Compute, Special, ArgsOf

\* A local step touches neither the calls to come nor the store of the online
\* phase; it ends the task or leaves the rest of the program as it is.
LEMMA ComputeShape ==
    ASSUME NEW p, NEW s, IsState(s), s.status = "running", NEW i, NEW u, u = Compute(p, s, i)
    PROVE  /\ IsState(u) /\ u.calls = s.calls /\ u.prep = s.prep /\ u.handed = s.handed
           /\ \/ u.status = "running" /\ u.prog = s.prog
              \/ u.status # "running" /\ u.prog = <<>>
  <1> DEFINE Shape(t) == /\ IsState(t) /\ t.calls = s.calls /\ t.prep = s.prep
                         /\ t.handed = s.handed
                         /\ t.status = "running" /\ t.prog = s.prog
  <1>1. \A t, r, x : Shape(t) => Shape(Put(t, r, x))
    BY DEF Put, IsState, Fields
  <1>2. \A t, r : Shape(t) => Shape(Forget(t, r))
    BY DEF Forget, IsState, Fields
  <1>3. \A t, x : Shape(t) => Shape([t EXCEPT !.drawn = x])
    BY DEF IsState, Fields
  <1>4. \A t, x : Shape(t) => Shape([t EXCEPT !.lg = x])
    BY DEF IsState, Fields
  <1>5. \A t, x, y : Shape(t) => Shape([t EXCEPT !.lg = x, !.used = y])
    <2> SUFFICES ASSUME NEW t, NEW x, NEW y, Shape(t)
                 PROVE  Shape([t EXCEPT !.lg = x, !.used = y])
      OBVIOUS
    <2>1. PICK r : r = [t EXCEPT !.lg = x]
      OBVIOUS
    <2>2. Shape(r)
      BY <1>4, <2>1
    <2>3. Shape([r EXCEPT !.used = y])
      BY <2>2 DEF IsState, Fields
    <2> QED BY <2>1, <2>3
  <1>6. Shape(s)
    OBVIOUS
  <1>7. ASSUME NEW e, e # "running"
        PROVE  LET t == Fail(s, e)
               IN  /\ IsState(t) /\ t.calls = s.calls /\ t.prep = s.prep
                   /\ t.handed = s.handed /\ t.status # "running" /\ t.prog = <<>>
    BY <1>7 DEF Fail, IsState, Fields
  <1>8. ErrorOf(i.op) # "running"
    BY DEF ErrorOf
  <1> HIDE DEF Shape
  <1>9. \/ Shape(u)
        \/ u = s
        \/ u = Fail(s, ErrorOf(i.op))
    <2>1. CASE i.op = "draw"
      <3>1. \E x, y : u = [Put(s, i.res, x) EXCEPT !.drawn = y]
        BY <2>1, ComputeDraw
      <3> QED BY <1>1, <1>3, <1>6, <3>1
    <2>2. CASE i.op = "cross_products"
      <3>1. \E x, y, z : u = [Put(Put(s, i.res, x), "cross", y) EXCEPT !.drawn = z]
        BY <2>2, ComputeCross
      <3> QED BY <1>1, <1>3, <1>6, <3>1
    <2>3. CASE i.op = "consume_triples"
      <3>1. PICK n, t : n = Len(ArgsOf(s, i)[1])
                       /\ t = [f \in DOMAIN s.lg.triples |-> split_off(s.lg.triples[f], n)]
        OBVIOUS
      <3>2. u = Put(Put(Put(Use(s, n, t), "ta", t.a), "tb", t.b), "tc", t.c)
        BY <2>3, <3>1, ComputeConsume
      <3>3. Shape(Use(s, n, t))
        BY <1>5, <1>6 DEF Use
      <3> QED BY <1>1, <3>2, <3>3
    <2>4. CASE i.op = "commit_scalars"
      <3>1. \E x : u = Put(Forget(s, "their_comm"), i.res, x)
        BY <2>4, ComputeCommit
      <3> QED BY <1>1, <1>2, <1>6, <3>1
    <2>5. CASE i.op \in Stores
      <3>1. \E x : u = [s EXCEPT !.lg = x]
        BY <2>5, ComputeStore
      <3> QED BY <1>4, <1>6, <3>1
    <2>6. CASE i.op \in Checks
      BY <2>6, ComputeCheck
    <2>7. CASE i.op \notin Special \cup Stores \cup Checks
      <3>1. \E x : u = Put(s, i.res, x)
        BY <2>7, ComputePure
      <3> QED BY <1>1, <1>6, <3>1
    <2> QED BY <2>1, <2>2, <2>3, <2>4, <2>5, <2>6, <2>7 DEF Special
  <1>10. Shape(s) => IsState(s)
    BY DEF Shape
  <1>11. CASE Shape(u)
    BY <1>11 DEF Shape
  <1>12. CASE u = s
    BY <1>12
  <1>13. CASE u = Fail(s, ErrorOf(i.op))
    BY <1>7, <1>8, <1>13
  <1> QED BY <1>9, <1>11, <1>12, <1>13

\* A task that is at a send, at a receive or at the end of its program stays.
LEMMA AdvanceStop ==
    ASSUME NEW p, NEW s, s.prog \in Progs, s.prog = <<>> \/ Head(s.prog).op \in Network
    PROVE  Advance(p, s) = s
  <1>1. PICK n, run : /\ IsQuiet(s.prog, n) /\ RunsOf(p, s, n, run)
                      /\ Advance(p, s) = run[n]
    BY AdvanceRuns
  <1>2. n = 0
    <2>1. CASE s.prog = <<>>
      BY <1>1, <2>1 DEF IsQuiet
    <2>2. CASE s.prog # <<>>
      <3>1. Head(s.prog) = s.prog[1] /\ Len(s.prog) \in Nat
        BY <2>2 DEF Progs
      <3>2. s.prog[1].op \in Network
        BY <2>2, <3>1
      <3>3. n \in Nat /\ ~(1 \in 1..n)
        BY <1>1, <3>1, <3>2 DEF IsQuiet
      <3> QED BY <3>3
    <2> QED BY <2>1, <2>2
  <1>3. 0 \in Nat /\ RunsOf(p, s, 0, run)
    BY <1>1, <1>2
  <1>4. run[0] = s
    BY <1>3, RunsStep
  <1> QED BY <1>1, <1>2, <1>4

\* The rest of a program
LEMMA TailFacts ==
    ASSUME NEW s \in Progs, s # <<>>
    PROVE  /\ Tail(s) \in Progs /\ Len(Tail(s)) = Len(s) - 1 /\ Len(s) \in Nat \ {0}
           /\ \A k \in 1..Len(s) - 1 : Tail(s)[k] = s[k + 1]
           /\ Head(s) = s[1] /\ Head(s) \in Instr
  BY DEF Progs

\* A local step first, then the others.
LEMMA AdvanceStep ==
    ASSUME NEW p, NEW s, IsState(s), s.status = "running", s.prog \in Progs, s.prog # <<>>,
           Head(s.prog).op \notin Network
    PROVE  Advance(p, s) = Advance(p, RunStep(p, s))
  <1>1. PICK n, run : /\ IsQuiet(s.prog, n) /\ RunsOf(p, s, n, run)
                      /\ Advance(p, s) = run[n]
    BY AdvanceRuns
  <1>2. /\ Tail(s.prog) \in Progs /\ Len(Tail(s.prog)) = Len(s.prog) - 1
        /\ Len(s.prog) \in Nat \ {0}
        /\ \A k \in 1..Len(s.prog) - 1 : Tail(s.prog)[k] = s.prog[k + 1]
        /\ Head(s.prog) = s.prog[1]
    BY TailFacts
  <1>3. n \in Nat /\ n >= 1 /\ n <= Len(s.prog)
    BY <1>1, <1>2 DEF IsQuiet
  <1>4. run[0] = s /\ \A k \in 1..n : run[k] = RunStep(p, run[k - 1])
    BY <1>1, <1>3, RunsStep
  <1>5. PICK t, u : t = [s EXCEPT !.prog = Tail(@)] /\ u = Compute(p, t, Head(s.prog))
    OBVIOUS
  <1>6. RunStep(p, s) = u /\ run[1] = u
    <2>1. RunStep(p, s) = u
      BY <1>5 DEF RunStep
    <2>2. 1 \in 1..n /\ 1 - 1 = 0
      BY <1>3
    <2> QED BY <1>4, <2>1, <2>2
  <1>7. IsState(t) /\ t.status = "running" /\ t.prog = Tail(s.prog)
    BY <1>5 DEF IsState, Fields
  <1>8. \/ u.status = "running" /\ u.prog = Tail(s.prog)
        \/ u.status # "running" /\ u.prog = <<>>
    <2>1. PICK i : i = Head(s.prog)
      OBVIOUS
    <2>2. u = Compute(p, t, i)
      BY <1>5, <2>1
    <2>3. \/ u.status = "running" /\ u.prog = t.prog
          \/ u.status # "running" /\ u.prog = <<>>
      <3> HIDE <1>5
      <3> QED BY <1>7, <2>2, ComputeShape
    <2> QED BY <1>7, <2>3
  <1>9. CASE u.status = "running"
    <2>1. u.prog = Tail(s.prog)
      BY <1>8, <1>9
    <2>2. PICK m, runu : /\ IsQuiet(u.prog, m) /\ RunsOf(p, u, m, runu)
                         /\ Advance(p, u) = runu[m]
      BY <1>2, <2>1, AdvanceRuns
    <2>3. m \in Nat /\ m <= Len(s.prog) - 1
      BY <1>2, <2>1, <2>2 DEF IsQuiet
    <2>4. m = n - 1
      <3>1. ASSUME m < n - 1 PROVE FALSE
        <4>1. m + 1 \in 1..Len(s.prog) - 1 /\ m + 2 \in 1..n /\ m < Len(u.prog)
          BY <1>2, <1>3, <2>1, <2>3, <3>1
        <4>2. u.prog[m + 1] = s.prog[m + 2] /\ u.prog[m + 1].op \in Network
          BY <1>2, <2>1, <2>2, <4>1 DEF IsQuiet
        <4> QED BY <1>1, <4>1, <4>2 DEF IsQuiet
      <3>2. ASSUME n - 1 < m PROVE FALSE
        <4>1. n \in 1..m /\ n \in 1..Len(s.prog) - 1 /\ n < Len(s.prog)
          BY <1>2, <1>3, <2>3, <3>2
        <4>2. u.prog[n] = s.prog[n + 1] /\ s.prog[n + 1].op \in Network
          BY <1>1, <1>2, <2>1, <4>1 DEF IsQuiet
        <4> QED BY <2>2, <4>1, <4>2 DEF IsQuiet
      <3> QED BY <1>3, <2>3, <3>1, <3>2
    <2>5. runu[0] = u /\ \A k \in 1..m : runu[k] = RunStep(p, runu[k - 1])
      BY <2>2, <2>3, RunsStep
    <2> DEFINE T == {k \in Nat : k <= m => runu[k] = run[k + 1]}
    <2>6. 0 \in T
      BY <1>6, <2>5
    <2>7. ASSUME NEW k \in Nat, k \in T PROVE k + 1 \in T
      <3> SUFFICES ASSUME k + 1 <= m PROVE runu[k + 1] = run[k + 1 + 1]
        OBVIOUS
      <3>1. k + 1 \in 1..m /\ k + 2 \in 1..n /\ (k + 1) - 1 = k /\ (k + 2) - 1 = k + 1
        BY <1>3, <2>3, <2>4
      <3>2. runu[k] = run[k + 1]
        BY <2>3, <2>7, <3>1
      <3>3. runu[k + 1] = RunStep(p, runu[k])
        BY <2>5, <3>1
      <3>4. run[k + 2] = RunStep(p, run[k + 1])
        BY <1>4, <3>1
      <3>5. k + 1 + 1 = k + 2
        OBVIOUS
      <3> QED BY <3>2, <3>3, <3>4, <3>5
    <2>8. m \in T
      <3> HIDE DEF T
      <3> QED BY <2>3, <2>6, <2>7, Induction
    <2>9. runu[m] = run[n]
      <3>1. m + 1 = n
        BY <1>3, <2>4
      <3> QED BY <2>3, <2>8, <3>1
    <2> QED BY <1>1, <1>6, <2>2, <2>9
  <1>10. CASE u.status # "running"
    <2>1. u.prog = <<>>
      BY <1>8, <1>10
    <2>2. Advance(p, u) = u
      <3>1. <<>> \in Progs
        BY DEF Progs
      <3> QED BY <2>1, <3>1, AdvanceStop
    <2> DEFINE T == {k \in Nat : k + 1 <= n => run[k + 1] = u}
    <2>3. 0 \in T
      BY <1>6
    <2>4. ASSUME NEW k \in Nat, k \in T PROVE k + 1 \in T
      <3> SUFFICES ASSUME k + 1 + 1 <= n PROVE run[k + 1 + 1] = u
        OBVIOUS
      <3>1. k + 1 + 1 \in 1..n /\ (k + 1 + 1) - 1 = k + 1
        BY <1>3
      <3>2. run[k + 1] = u
        BY <1>3, <2>4, <3>1
      <3> QED BY <1>4, <1>10, <3>1, <3>2 DEF RunStep
    <2>5. n - 1 \in T
      <3>1. n - 1 \in Nat
        BY <1>3
      <3> HIDE DEF T
      <3> QED BY <2>3, <2>4, <3>1, Induction
    <2>6. run[n] = u
      <3>1. (n - 1) + 1 = n
        BY <1>3
      <3> QED BY <1>3, <2>5, <3>1
    <2> QED BY <1>1, <1>6, <2>2, <2>6
  <1> QED BY <1>9, <1>10

---------------------------------------------------------------------------
(* The order of commitments and reveals in a program                       *)

Reveals(i) == i.op = "send" /\ i.kind = "ScalarBatch"
Hears(i) == i.op = "recv" /\ i.reg = "their_comm"

\* After step j the counterparty's commitment is received before any batch of
\* scalars is sent.
Answered(g, j) ==
    \E l \in DOMAIN g : l > j /\ Hears(g[l]) /\ \A k \in DOMAIN g : j < k /\ k < l => ~Reveals(g[k])

NoReveal(g) == \A k \in DOMAIN g : ~Reveals(g[k])

\* Only commit_scalars makes a commitment of one's own.
Cautious(i) ==
    /\ i.op \notin Network /\ i.res = "my_comm" => i.op = "commit_scalars"
    /\ i.op = "recv" => i.reg # "my_comm"

\* Party 1 answers the bytes it receives, whatever they are.
IsAnswer(g, j) == j \in DOMAIN g /\ g[j].op = "send" /\ g[j].kind = "Bytes"

Orderly(p, g) ==
    /\ g \in Progs
    /\ \A j \in DOMAIN g : Cautious(g[j])
    /\ \A j \in DOMAIN g : g[j].op = "commit_scalars" => Answered(g, j)
    /\ p = 1 => \A j \in DOMAIN g : g[j].op = "recv" /\ g[j].kind = "Bytes" => IsAnswer(g, j + 1)

LEMMA CatFacts ==
    ASSUME NEW a \in Progs, NEW b \in Progs
    PROVE  /\ a \o b \in Progs
           /\ Len(a) \in Nat /\ Len(b) \in Nat
           /\ DOMAIN a = 1..Len(a) /\ DOMAIN b = 1..Len(b)
           /\ DOMAIN (a \o b) = 1..Len(a) + Len(b)
           /\ \A k \in 1..Len(a) : (a \o b)[k] = a[k]
           /\ \A k \in 1..Len(b) : (a \o b)[Len(a) + k] = b[k]
  BY DEF Progs

LEMMA OrderlyCat ==
    ASSUME NEW p, NEW a, NEW b, Orderly(p, a), Orderly(p, b)
    PROVE  Orderly(p, a \o b)
  <1>1. a \in Progs /\ b \in Progs
    BY DEF Orderly
  <1>2. PICK c : c = a \o b
    OBVIOUS
  <1>3. PICK m : m = Len(a)
    OBVIOUS
  <1>4. PICK n : n = Len(b)
    OBVIOUS
  <1>5. /\ c \in Progs /\ m \in Nat /\ n \in Nat
        /\ DOMAIN a = 1..m /\ DOMAIN b = 1..n /\ DOMAIN c = 1..m + n
        /\ \A k \in 1..m : c[k] = a[k]
        /\ \A k \in 1..n : c[m + k] = b[k]
    BY <1>1, <1>2, <1>3, <1>4, CatFacts
  <1>6. \A k \in 1..m + n : k \in 1..m \/ (k - m \in 1..n /\ k = m + (k - m))
    BY <1>5
  <1>7. ASSUME NEW j \in 1..m + n PROVE Cautious(c[j])
    <2>1. CASE j \in 1..m
      BY <1>5, <2>1 DEF Orderly
    <2>2. CASE j - m \in 1..n
      <3>1. PICK k \in 1..n : j = m + k
        BY <1>6, <2>2, <1>5
      <3> QED BY <1>5, <3>1 DEF Orderly
    <2> QED BY <1>6, <2>1, <2>2
  <1>8. ASSUME NEW j \in 1..m + n, c[j].op = "commit_scalars" PROVE Answered(c, j)
    <2>1. CASE j \in 1..m
      <3>1. Answered(a, j)
        BY <1>5, <1>8, <2>1 DEF Orderly
      <3>2. PICK l \in 1..m : l > j /\ Hears(a[l])
                              /\ \A k \in 1..m : j < k /\ k < l => ~Reveals(a[k])
        BY <1>5, <3>1 DEF Answered
      <3>3. l \in 1..m + n /\ Hears(c[l])
        BY <1>5, <3>2
      <3>4. ASSUME NEW k \in 1..m + n, j < k, k < l PROVE ~Reveals(c[k])
        <4>1. k \in 1..m
          BY <1>5, <3>2, <3>4
        <4> QED BY <1>5, <3>2, <3>4, <4>1
      <3> QED BY <1>5, <3>2, <3>3, <3>4 DEF Answered
    <2>2. CASE j - m \in 1..n
      <3>1. PICK i \in 1..n : j = m + i
        BY <1>6, <2>2, <1>5
      <3>2. Answered(b, i)
        BY <1>5, <1>8, <3>1 DEF Orderly
      <3>3. PICK l \in 1..n : l > i /\ Hears(b[l])
                              /\ \A k \in 1..n : i < k /\ k < l => ~Reveals(b[k])
        BY <1>5, <3>2 DEF Answered
      <3>4. m + l \in 1..m + n /\ Hears(c[m + l]) /\ m + l > j
        BY <1>5, <3>1, <3>3
      <3>5. ASSUME NEW k \in 1..m + n, j < k, k < m + l PROVE ~Reveals(c[k])
        <4>1. PICK h \in 1..n : k = m + h
          BY <1>5, <1>6, <3>1, <3>5
        <4>2. i < h /\ h < l
          BY <1>5, <3>1, <3>3, <3>5, <4>1
        <4> QED BY <1>5, <3>3, <4>1, <4>2
      <3> QED BY <1>5, <3>4, <3>5 DEF Answered
    <2> QED BY <1>6, <2>1, <2>2
  <1>9. ASSUME p = 1, NEW j \in 1..m + n, c[j].op = "recv", c[j].kind = "Bytes"
        PROVE  IsAnswer(c, j + 1)
    <2>1. CASE j \in 1..m
      <3>1. IsAnswer(a, j + 1)
        BY <1>5, <1>9, <2>1 DEF Orderly
      <3>2. j + 1 \in 1..m /\ a[j + 1].op = "send" /\ a[j + 1].kind = "Bytes"
        BY <1>5, <3>1 DEF IsAnswer
      <3> QED BY <1>5, <3>2 DEF IsAnswer
    <2>2. CASE j - m \in 1..n
      <3>1. PICK i \in 1..n : j = m + i
        BY <1>6, <2>2, <1>5
      <3>2. IsAnswer(b, i + 1)
        BY <1>5, <1>9, <3>1 DEF Orderly
      <3>3. i + 1 \in 1..n /\ b[i + 1].op = "send" /\ b[i + 1].kind = "Bytes"
        BY <1>5, <3>2 DEF IsAnswer
      <3>4. m + (i + 1) \in 1..m + n /\ m + (i + 1) = j + 1
        BY <1>5, <3>1, <3>3
      <3>5. c[m + (i + 1)] = b[i + 1]
        BY <1>5, <3>3
      <3> QED BY <1>5, <3>3, <3>4, <3>5 DEF IsAnswer
    <2> QED BY <1>6, <2>1, <2>2
  <1> QED BY <1>2, <1>5, <1>7, <1>8, <1>9 DEF Orderly

LEMMA OrderlyTail ==
    ASSUME NEW p, NEW g, Orderly(p, g), g # <<>>
    PROVE  /\ Orderly(p, Tail(g))
           /\ g[1].op = "commit_scalars" => Answered(Tail(g), 0)
           /\ Answered(g, 0) /\ ~Hears(g[1]) => Answered(Tail(g), 0)
           /\ NoReveal(g) => NoReveal(Tail(g))
  <1>1. g \in Progs
    BY DEF Orderly
  <1>2. PICK c : c = Tail(g)
    OBVIOUS
  <1>3. PICK n : n = Len(g)
    OBVIOUS
  <1>4. /\ c \in Progs /\ n \in Nat \ {0} /\ DOMAIN g = 1..n /\ DOMAIN c = 1..n - 1
        /\ \A k \in 1..n - 1 : k + 1 \in 1..n /\ c[k] = g[k + 1]
    <2>1. /\ c \in Progs /\ Len(c) = n - 1 /\ n \in Nat \ {0}
          /\ \A k \in 1..n - 1 : c[k] = g[k + 1]
      BY <1>1, <1>2, <1>3, TailFacts
    <2>2. DOMAIN g = 1..n /\ DOMAIN c = 1..n - 1
      BY <1>1, <1>3, <2>1 DEF Progs
    <2> QED BY <2>1, <2>2
  <1>5. ASSUME NEW j \in 0..n - 1, NEW l \in 1..n, l > j + 1, Hears(g[l]),
               \A k \in 1..n : j + 1 < k /\ k < l => ~Reveals(g[k])
        PROVE  Answered(c, j)
    <2>1. l - 1 \in 1..n - 1 /\ l - 1 > j /\ (l - 1) + 1 = l
      BY <1>4, <1>5
    <2>2. Hears(c[l - 1])
      BY <1>4, <1>5, <2>1
    <2>3. ASSUME NEW k \in 1..n - 1, j < k, k < l - 1 PROVE ~Reveals(c[k])
      <3>1. k + 1 \in 1..n /\ j + 1 < k + 1 /\ k + 1 < l
        BY <1>4, <2>1, <2>3
      <3> QED BY <1>4, <1>5, <3>1
    <2> QED BY <1>4, <2>1, <2>2, <2>3 DEF Answered
  <1>6. ASSUME NEW j \in 0..n - 1, Answered(g, j + 1) PROVE Answered(c, j)
    BY <1>4, <1>5, <1>6 DEF Answered
  <1>7. Orderly(p, c)
    <2>1. \A j \in 1..n - 1 : c[j].op = "commit_scalars" => Answered(c, j)
      BY <1>4, <1>6 DEF Orderly
    <2>2. ASSUME p = 1, NEW j \in 1..n - 1, c[j].op = "recv", c[j].kind = "Bytes"
          PROVE  IsAnswer(c, j + 1)
      <3>1. IsAnswer(g, j + 1 + 1)
        BY <1>4, <2>2 DEF Orderly
      <3>2. j + 1 + 1 \in 1..n /\ j + 1 \in 1..n - 1
        BY <1>4, <3>1 DEF IsAnswer
      <3> QED BY <1>4, <3>1, <3>2 DEF IsAnswer
    <2>3. \A j \in 1..n - 1 : Cautious(c[j])
      BY <1>4 DEF Orderly
    <2> QED BY <1>4, <2>1, <2>2, <2>3 DEF Orderly
  <1>8. g[1].op = "commit_scalars" => Answered(c, 0)
    <2>1. 1 \in 1..n /\ 0 \in 0..n - 1 /\ 0 + 1 = 1
      BY <1>4
    <2>2. g[1].op = "commit_scalars" => Answered(g, 1)
      BY <1>4, <2>1 DEF Orderly
    <2> QED BY <1>6, <2>1, <2>2
  <1>9. Answered(g, 0) /\ ~Hears(g[1]) => Answered(c, 0)
    <2> SUFFICES ASSUME Answered(g, 0), ~Hears(g[1]) PROVE Answered(c, 0)
      OBVIOUS
    <2>1. PICK l \in 1..n : Hears(g[l]) /\ \A k \in 1..n : 0 < k /\ k < l => ~Reveals(g[k])
      BY <1>4 DEF Answered
    <2>2. l > 0 + 1 /\ 0 \in 0..n - 1
      <3>1. l # 1
        BY <2>1
      <3> QED BY <3>1, <1>4
    <2>3. \A k \in 1..n : 0 + 1 < k /\ k < l => ~Reveals(g[k])
      BY <2>1
    <2> QED BY <1>5, <2>1, <2>2, <2>3
  <1>10. NoReveal(g) => NoReveal(c)
    BY <1>4 DEF NoReveal
  <1> QED BY <1>2, <1>7, <1>8, <1>9, <1>10

---------------------------------------------------------------------------
(* Every program is orderly.                                               *)

\* A program of one step is the sequence 1..1.
LEMMA Single ==
    ASSUME NEW i \in Instr
    PROVE  /\ <<i>> \in Progs /\ DOMAIN <<i>> = 1..1 /\ <<i>>[1] = i
           /\ \A j \in 1..1 : j = 1
  BY DEF Progs

LEMMA OrderlyStep ==
    ASSUME NEW p, NEW i \in Instr, Cautious(i), i.op \notin {"recv", "commit_scalars"}
    PROVE  Orderly(p, <<i>>)
  <1>1. PICK g : g = <<i>>
    OBVIOUS
  <1>2. g \in Progs /\ DOMAIN g = 1..1 /\ g[1] = i /\ \A j \in 1..1 : j = 1
    BY <1>1, Single
  <1>3. Orderly(p, g)
    BY <1>2 DEF Orderly
  <1> QED BY <1>1, <1>3

Locals == {"public_key", "mac_plaintext", "encrypt", "decrypt", "product", "sum",
    "difference", "from_scalars", "from_parts", "values", "sub", "first_half",
    "second_half", "mac_product", "other_mac_enc", "add_cross", "mac_check", "rho",
    "tau", "beaver", "mask_macs", "masked_mac", "cross_products", "consume_triples"}
    \cup Stores \cup Checks

LEMMA InLocals ==
    /\ "public_key" \in Locals /\ "mac_plaintext" \in Locals /\ "encrypt" \in Locals
    /\ "decrypt" \in Locals /\ "product" \in Locals /\ "sum" \in Locals
    /\ "difference" \in Locals /\ "from_scalars" \in Locals /\ "from_parts" \in Locals
    /\ "values" \in Locals /\ "sub" \in Locals /\ "first_half" \in Locals
    /\ "second_half" \in Locals /\ "mac_product" \in Locals
    /\ "other_mac_enc" \in Locals /\ "add_cross" \in Locals /\ "mac_check" \in Locals
    /\ "rho" \in Locals /\ "tau" \in Locals /\ "beaver" \in Locals
    /\ "mask_macs" \in Locals /\ "masked_mac" \in Locals
    /\ "cross_products" \in Locals /\ "consume_triples" \in Locals
    /\ "set_keys" \in Locals /\ "set_triples" \in Locals
    /\ "set_inverse_tuples" \in Locals /\ "set_shared_bits" \in Locals
    /\ "set_shared_randomness" \in Locals /\ "add_local_masks" \in Locals
    /\ "add_counterparty_masks" \in Locals /\ "need_setup" \in Locals
    /\ "need_triples" \in Locals /\ "fits_slots" \in Locals /\ "nonzero" \in Locals
    /\ "panic" \in Locals /\ "unexpected" \in Locals /\ "check_commitment" \in Locals
    /\ "check_mac" \in Locals /\ "check_zero" \in Locals
  BY DEF Locals, Stores, Checks

LEMMA OrderlyDo ==
    ASSUME NEW p, NEW op \in Locals, NEW args \in Seq(Names),
           NEW res \in Names, res # "my_comm"
    PROVE  Orderly(p, Do(op, args, res))
  <1>1. PICK i : i = [op |-> op, args |-> args, res |-> res]
    OBVIOUS
  <1>2. op \in Names /\ op \notin Network /\ op # "commit_scalars" /\ op # "recv"
    BY InNames DEF Locals, Network, Stores, Checks
  <1>3. i \in Instr /\ i.op = op /\ i.res = res
    BY <1>1, <1>2 DEF Instr
  <1>4. Orderly(p, <<i>>)
    BY <1>2, <1>3, OrderlyStep DEF Cautious
  <1> QED BY <1>1, <1>4 DEF Do

LEMMA OrderlyDraw ==
    ASSUME NEW p, NEW n \in Nat, NEW res \in Names, res # "my_comm"
    PROVE  Orderly(p, Draw(n, res))
  <1>1. PICK i : i = [op |-> "draw", n |-> n, res |-> res]
    OBVIOUS
  <1>2. i \in Instr /\ i.op = "draw" /\ i.res = res
    BY <1>1 DEF Instr
  <1>3. Orderly(p, <<i>>)
    BY <1>2, OrderlyStep DEF Cautious
  <1> QED BY <1>1, <1>3 DEF Draw

LEMMA Pair ==
    ASSUME NEW i \in Instr, NEW k \in Instr
    PROVE  /\ <<i, k>> \in Progs /\ DOMAIN <<i, k>> = 1..2
           /\ <<i, k>>[1] = i /\ <<i, k>>[2] = k
           /\ \A j \in 1..2 : j = 1 \/ j = 2
  BY DEF Progs

LEMMA ExchangeShape ==
    ASSUME NEW p \in Party, NEW kind \in Names, NEW out \in Names, NEW in \in Names,
           in # "my_comm"
    PROVE  \E send, recv :
              /\ send \in Instr /\ send.op = "send" /\ send.kind = kind /\ send.reg = out
              /\ recv \in Instr /\ recv.op = "recv" /\ recv.kind = kind /\ recv.reg = in
              /\ Cautious(send) /\ Cautious(recv)
              /\ p = 0 => exchange(p, kind, out, in) = <<send, recv>>
              /\ p = 1 => exchange(p, kind, out, in) = <<recv, send>>
  <1>1. PICK s : s = [op |-> "send", kind |-> kind, reg |-> out]
    OBVIOUS
  <1>2. PICK r : r = [op |-> "recv", kind |-> kind, reg |-> in]
    OBVIOUS
  <1>3. s \in Instr /\ s.op = "send" /\ s.kind = kind /\ s.reg = out
    BY <1>1 DEF Instr, Network
  <1>4. r \in Instr /\ r.op = "recv" /\ r.kind = kind /\ r.reg = in
    BY <1>2 DEF Instr, Network
  <1>5. Cautious(s) /\ Cautious(r)
    BY <1>3, <1>4 DEF Cautious, Network
  <1>6. /\ p = 0 => exchange(p, kind, out, in) = <<s, r>>
        /\ p = 1 => exchange(p, kind, out, in) = <<r, s>>
    BY <1>1, <1>2 DEF exchange
  <1> QED BY <1>3, <1>4, <1>5, <1>6

LEMMA OrderlyExchange ==
    ASSUME NEW p \in Party, NEW kind \in Names, NEW out \in Names, NEW in \in Names,
           in # "my_comm"
    PROVE  Orderly(p, exchange(p, kind, out, in))
  <1>1. PICK s, r :
              /\ s \in Instr /\ s.op = "send" /\ s.kind = kind /\ s.reg = out
              /\ r \in Instr /\ r.op = "recv" /\ r.kind = kind /\ r.reg = in
              /\ Cautious(s) /\ Cautious(r)
              /\ p = 0 => exchange(p, kind, out, in) = <<s, r>>
              /\ p = 1 => exchange(p, kind, out, in) = <<r, s>>
    BY ExchangeShape
  <1>2. p \in {0, 1}
    BY DEF Party
  <1>3. CASE p = 0
    <2>1. PICK g : g = <<s, r>>
      OBVIOUS
    <2>2. g \in Progs /\ DOMAIN g = 1..2 /\ g[1] = s /\ g[2] = r /\ \A j \in 1..2 : j = 1 \/ j = 2
      BY <1>1, <2>1, Pair
    <2>3. Orderly(p, g)
      BY <1>1, <1>3, <2>2 DEF Orderly
    <2> QED BY <1>1, <1>3, <2>1, <2>3
  <1>4. CASE p = 1
    <2>1. PICK g : g = <<r, s>>
      OBVIOUS
    <2>2. g \in Progs /\ DOMAIN g = 1..2 /\ g[1] = r /\ g[2] = s /\ \A j \in 1..2 : j = 1 \/ j = 2
      BY <1>1, <2>1, Pair
    <2>3. \A j \in 1..2 : g[j].op = "recv" /\ g[j].kind = "Bytes" => IsAnswer(g, j + 1)
      BY <1>1, <2>2 DEF IsAnswer
    <2>4. Orderly(p, g)
      BY <1>1, <1>4, <2>2, <2>3 DEF Orderly
    <2> QED BY <1>1, <1>4, <2>1, <2>4
  <1> QED BY <1>2, <1>3, <1>4

\* The commitment goes out, the counterparty's comes in, then the values go out.
LEMMA OrderlyCommitReveal ==
    ASSUME NEW p \in Party, NEW mine \in Names, NEW theirs \in Names, theirs # "my_comm"
    PROVE  Orderly(p, commit_reveal(p, mine, theirs))
  <1>1. PICK c : c = [op |-> "commit_scalars", args |-> <<mine>>, res |-> "my_comm"]
    OBVIOUS
  <1>2. c \in Instr /\ c.op = "commit_scalars" /\ Cautious(c)
    <2>1. {"commit_scalars", "my_comm"} \subseteq Names
      BY InNames
    <2> QED BY <1>1, <2>1 DEF Instr, Cautious, Network
  <1>3. PICK s, r :
              /\ s \in Instr /\ s.op = "send" /\ s.kind = "Scalar" /\ s.reg = "my_comm"
              /\ r \in Instr /\ r.op = "recv" /\ r.kind = "Scalar" /\ r.reg = "their_comm"
              /\ Cautious(s) /\ Cautious(r)
              /\ p = 0 => exchange(p, "Scalar", "my_comm", "their_comm") = <<s, r>>
              /\ p = 1 => exchange(p, "Scalar", "my_comm", "their_comm") = <<r, s>>
    <2>1. {"Scalar", "my_comm", "their_comm"} \subseteq Names /\ "their_comm" # "my_comm"
      BY InNames
    <2> QED BY <2>1, ExchangeShape
  <1>4. PICK e : e = exchange(p, "Scalar", "my_comm", "their_comm")
    OBVIOUS
  <1>5. p \in {0, 1}
    BY DEF Party
  <1>6. /\ e \in Progs /\ DOMAIN e = 1..2
        /\ \/ e[1] = s /\ e[2] = r
           \/ e[1] = r /\ e[2] = s
    BY <1>3, <1>4, <1>5, Pair
  <1>7. PICK d : d = Do("commit_scalars", <<mine>>, "my_comm")
    OBVIOUS
  <1>8. d \in Progs /\ DOMAIN d = 1..1 /\ d[1] = c /\ Len(d) = 1
    <2>1. d = <<c>>
      BY <1>1, <1>7 DEF Do
    <2> QED BY <1>2, <2>1, Single DEF Progs
  <1>9. Orderly(p, d \o e)
    <2>1. PICK g : g = d \o e
      OBVIOUS
    <2>2. Len(e) = 2
      BY <1>6 DEF Progs
    <2>3. g \in Progs /\ DOMAIN g = 1..3 /\ g[1] = c /\ g[2] = e[1] /\ g[3] = e[2]
      <3>1. g \in Progs /\ DOMAIN g = 1..1 + 2 /\ (\A k \in 1..1 : g[k] = d[k])
            /\ (\A k \in 1..2 : g[1 + k] = e[k])
        <4>1. /\ d \o e \in Progs /\ DOMAIN (d \o e) = 1..Len(d) + Len(e)
              /\ \A k \in 1..Len(d) : (d \o e)[k] = d[k]
              /\ \A k \in 1..Len(e) : (d \o e)[Len(d) + k] = e[k]
          BY <1>6, <1>8, CatFacts
        <4> QED BY <1>8, <2>1, <2>2, <4>1
      <3>2. g[1 + 1] = e[1] /\ g[1 + 2] = e[2]
        BY <3>1
      <3> QED BY <1>8, <3>1, <3>2
    <2>4. \A j \in 1..3 : j = 1 \/ j = 2 \/ j = 3
      OBVIOUS
    <2>5. ~Reveals(s) /\ ~Reveals(r) /\ Hears(r)
      BY <1>3 DEF Reveals, Hears
    <2>6. Answered(g, 1)
      BY <1>6, <2>3, <2>4, <2>5 DEF Answered
    <2>7. /\ \A j \in 1..3 : Cautious(g[j])
          /\ \A j \in 1..3 : g[j].op = "commit_scalars" => Answered(g, j)
          /\ \A j \in 1..3 : ~(g[j].op = "recv" /\ g[j].kind = "Bytes")
      BY <1>2, <1>3, <1>6, <2>3, <2>4, <2>6
    <2>8. Orderly(p, g)
      BY <2>3, <2>7 DEF Orderly
    <2> QED BY <2>1, <2>8
  <1>10. Orderly(p, exchange(p, "ScalarBatch", mine, theirs))
    <2>1. "ScalarBatch" \in Names
      BY InNames
    <2> QED BY <2>1, OrderlyExchange
  <1>11. Orderly(p, Check("check_commitment", <<theirs, "their_comm">>))
    <2>1. "their_comm" \in Names /\ "" \in Names /\ "" # "my_comm"
      BY InNames
    <2>2. <<theirs, "their_comm">> \in Seq(Names)
      BY <2>1, ArgLists
    <2>3. "check_commitment" \in Locals
      BY DEF Locals, Checks
    <2> QED BY <2>1, <2>2, <2>3, OrderlyDo DEF Check
  <1>12. commit_reveal(p, mine, theirs) =
            d \o e \o exchange(p, "ScalarBatch", mine, theirs)
            \o Check("check_commitment", <<theirs, "their_comm">>)
    BY <1>4, <1>7 DEF commit_reveal
  <1> QED BY <1>9, <1>10, <1>11, <1>12, OrderlyCat

LEMMA OrderlyOpenBatch ==
    ASSUME NEW p \in Party, NEW x \in Names, NEW res \in Names, res # "my_comm"
    PROVE  Orderly(p, open_batch(p, x, res))
  <1>1. Orderly(p, exchange(p, "ScalarBatch", x, "their_values"))
    BY InNames, OrderlyExchange
  <1>2. Orderly(p, Do("sum", <<x, "their_values">>, res))
    BY InNames, InLocals, ArgLists, OrderlyDo
  <1> QED BY <1>1, <1>2, OrderlyCat DEF open_batch

LEMMA OrderlyRandomness ==
    ASSUME NEW p \in Party, NEW n \in Nat, NEW res \in Names, res # "my_comm"
    PROVE  Orderly(p, get_shared_randomness_vec(p, n, res))
  <1>1. Orderly(p, Draw(n, "my_shares"))
    BY InNames, OrderlyDraw
  <1>2. Orderly(p, commit_reveal(p, "my_shares", "their_shares"))
    BY InNames, OrderlyCommitReveal
  <1>3. Orderly(p, Do("sum", <<"my_shares", "their_shares">>, res))
    BY InNames, InLocals, ArgLists, OrderlyDo
  <1> QED BY <1>1, <1>2, <1>3, OrderlyCat DEF get_shared_randomness_vec

LEMMA OrderlyOpenAndCheck ==
    ASSUME NEW p \in Party, NEW x \in Names, NEW n \in Nat, NEW res \in Names, res # "my_comm"
    PROVE  Orderly(p, open_and_check_macs(p, x, n, res))
  <1>1. Orderly(p, Do("values", <<x>>, "x_values"))
    BY InNames, InLocals, ArgLists, OrderlyDo
  <1>2. Orderly(p, open_batch(p, "x_values", res))
    BY InNames, OrderlyOpenBatch
  <1>3. Orderly(p, get_shared_randomness_vec(p, n, "coeffs"))
    BY InNames, OrderlyRandomness
  <1>4. Orderly(p, Do("mac_check", <<res, x, "coeffs">>, "mac_check"))
    BY InNames, InLocals, ArgLists, OrderlyDo
  <1>5. Orderly(p, check_mac(p))
    <2>1. Orderly(p, commit_reveal(p, "mac_check", "their_mac_check"))
      BY InNames, OrderlyCommitReveal
    <2>2. Orderly(p, Check("check_mac", <<"mac_check", "their_mac_check">>))
      BY InNames, InLocals, ArgLists, OrderlyDo DEF Check
    <2> QED BY <2>1, <2>2, OrderlyCat DEF check_mac
  <1> QED BY <1>1, <1>2, <1>3, <1>4, <1>5, OrderlyCat DEF open_and_check_macs

LEMMA OrderlyProduct ==
    ASSUME NEW p \in Party, NEW enc \in Names, NEW b \in Names, NEW c \in Names, NEW res \in Names, res # "my_comm"
    PROVE  Orderly(p, share_product(p, enc, b, c, res))
  <1>1. Orderly(p, Do("cross_products", <<enc, b, c>>, "c_res"))
    BY InNames, InLocals, ArgLists, OrderlyDo
  <1>2. Orderly(p, exchange_message(p, "cross", "their_cross"))
    BY InNames, OrderlyExchange DEF exchange_message
  <1>3. Orderly(p, Do("add_cross", <<"c_res", "their_cross">>, res))
    BY InNames, InLocals, ArgLists, OrderlyDo
  <1> QED BY <1>1, <1>2, <1>3, OrderlyCat DEF share_product

LEMMA OrderlyAuthenticate ==
    ASSUME NEW p \in Party, NEW x \in Names, NEW res \in Names, res # "my_comm"
    PROVE  Orderly(p, authenticate_vec(p, x, res))
  <1>1. Orderly(p, Check("need_setup", <<>>))
    BY InNames, InLocals, ArgLists, OrderlyDo DEF Check
  <1>2. Orderly(p, Do("other_mac_enc", <<x>>, "mac_enc"))
    BY InNames, InLocals, ArgLists, OrderlyDo
  <1>3. Orderly(p, Do("mac_product", <<x>>, "mac_mine"))
    BY InNames, InLocals, ArgLists, OrderlyDo
  <1>4. Orderly(p, share_product(p, "mac_enc", x, "mac_mine", res))
    BY InNames, OrderlyProduct
  <1> QED BY <1>1, <1>2, <1>3, <1>4, OrderlyCat DEF authenticate_vec

LEMMA OrderlySacrifice ==
    ASSUME NEW p \in Party, NEW n \in Nat
    PROVE  Orderly(p, sacrifice(p, n))
  <1>1. Orderly(p, get_shared_randomness_vec(p, 1, "r"))
    BY InNames, OrderlyRandomness
  <1>2. Orderly(p, Do("rho", <<"B", "r", "B_prime">>, "my_rho"))
    BY InNames, InLocals, ArgLists, OrderlyDo
  <1>3. Orderly(p, open_and_check_macs(p, "my_rho", n, "rho"))
    BY InNames, OrderlyOpenAndCheck
  <1>4. Orderly(p, Do("tau", <<"C", "r", "C_prime", "A", "rho">>, "my_tau"))
    BY InNames, InLocals, ArgLists, OrderlyDo
  <1>5. Orderly(p, open_and_check_macs(p, "my_tau", n, "tau"))
    BY InNames, OrderlyOpenAndCheck
  <1>6. Orderly(p, Check("check_zero", <<"tau">>))
    BY InNames, InLocals, ArgLists, OrderlyDo DEF Check
  <1> DEFINE g1 == get_shared_randomness_vec(p, 1, "r")
                   \o Do("rho", <<"B", "r", "B_prime">>, "my_rho")
                   \o open_and_check_macs(p, "my_rho", n, "rho")
                   \o Do("tau", <<"C", "r", "C_prime", "A", "rho">>, "my_tau")
             g2 == g1
                   \o open_and_check_macs(p, "my_tau", n, "tau")
                   \o Check("check_zero", <<"tau">>)
  <1>7. Orderly(p, g1)
    BY <1>1, <1>2, <1>3, <1>4, OrderlyCat
  <1>8. Orderly(p, g2)
    <2> HIDE DEF g1
    <2> QED BY <1>5, <1>6, <1>7, OrderlyCat DEF g2
  <1>9. sacrifice(p, n) = g2
    BY DEF sacrifice
  <1> HIDE DEF g1, g2
  <1> QED BY <1>8, <1>9

LEMMA OrderlyAuthenticated ==
    ASSUME NEW p \in Party, NEW v \in Names, NEW sh \in Names, sh # "my_comm"
    PROVE  Orderly(p, (authenticate_vec(p, v, "mac") \o Do("from_parts", <<v, "mac">>, sh)))
  <1>1. Orderly(p, authenticate_vec(p, v, "mac"))
    BY InNames, OrderlyAuthenticate
  <1>2. Orderly(p, Do("from_parts", <<v, "mac">>, sh))
    BY InNames, InLocals, ArgLists, OrderlyDo
  <1> QED BY <1>1, <1>2, OrderlyCat

LEMMA OrderlyTriples ==
    ASSUME NEW p \in Party, NEW n \in Nat, n = PokBatch * Slots
    PROVE  Orderly(p, generate_triples(p))
  <1>1. Orderly(p, Draw(n, "a"))
    BY InNames, OrderlyDraw
  <1>2. Orderly(p, Draw(n, "b"))
    BY InNames, OrderlyDraw
  <1>3. Orderly(p, Draw(n, "b_prime"))
    BY InNames, OrderlyDraw
  <1>4. Orderly(p, Do("product", <<"a", "b">>, "c_mine"))
    BY InNames, InLocals, ArgLists, OrderlyDo
  <1>5. Orderly(p, Do("product", <<"a", "b_prime">>, "c_prime_mine"))
    BY InNames, InLocals, ArgLists, OrderlyDo
  <1>6. Orderly(p, Do("encrypt", <<"a">>, "a_enc"))
    BY InNames, InLocals, ArgLists, OrderlyDo
  <1>7. Orderly(p, exchange_message(p, "a_enc", "their_a_enc"))
    BY InNames, OrderlyExchange DEF exchange_message
  <1>8. Orderly(p, Check("need_setup", <<>>))
    BY InNames, InLocals, ArgLists, OrderlyDo DEF Check
  <1>9. Orderly(p, share_product(p, "their_a_enc", "b", "c_mine", "c"))
    BY InNames, OrderlyProduct
  <1>10. Orderly(p, share_product(p, "their_a_enc", "b_prime", "c_prime_mine", "c_prime"))
    BY InNames, OrderlyProduct
  <1>11. Orderly(p, (authenticate_vec(p, "a", "mac") \o Do("from_parts", <<"a", "mac">>, "A")))
    BY InNames, OrderlyAuthenticated
  <1>12. Orderly(p, (authenticate_vec(p, "b", "mac") \o Do("from_parts", <<"b", "mac">>, "B")))
    BY InNames, OrderlyAuthenticated
  <1>13. Orderly(p, (authenticate_vec(p, "c", "mac") \o Do("from_parts", <<"c", "mac">>, "C")))
    BY InNames, OrderlyAuthenticated
  <1>14. Orderly(p, (authenticate_vec(p, "b_prime", "mac") \o Do("from_parts", <<"b_prime", "mac">>, "B_prime")))
    BY InNames, OrderlyAuthenticated
  <1>15. Orderly(p, (authenticate_vec(p, "c_prime", "mac") \o Do("from_parts", <<"c_prime", "mac">>, "C_prime")))
    BY InNames, OrderlyAuthenticated
  <1>16. Orderly(p, sacrifice(p, n))
    BY InNames, OrderlySacrifice
  <1>17. Orderly(p, Do("set_triples", <<"A", "B", "C">>, ""))
    BY InNames, InLocals, ArgLists, OrderlyDo
  <1> DEFINE g1 == Draw(n, "a")
                   \o Draw(n, "b")
                   \o Draw(n, "b_prime")
                   \o Do("product", <<"a", "b">>, "c_mine")
             g2 == g1
                   \o Do("product", <<"a", "b_prime">>, "c_prime_mine")
                   \o Do("encrypt", <<"a">>, "a_enc")
                   \o exchange_message(p, "a_enc", "their_a_enc")
             g3 == g2
                   \o Check("need_setup", <<>>)
                   \o share_product(p, "their_a_enc", "b", "c_mine", "c")
                   \o share_product(p, "their_a_enc", "b_prime", "c_prime_mine", "c_prime")
             g4 == g3
                   \o (authenticate_vec(p, "a", "mac") \o Do("from_parts", <<"a", "mac">>, "A"))
                   \o (authenticate_vec(p, "b", "mac") \o Do("from_parts", <<"b", "mac">>, "B"))
                   \o (authenticate_vec(p, "c", "mac") \o Do("from_parts", <<"c", "mac">>, "C"))
             g5 == g4
                   \o (authenticate_vec(p, "b_prime", "mac") \o Do("from_parts", <<"b_prime", "mac">>, "B_prime"))
                   \o (authenticate_vec(p, "c_prime", "mac") \o Do("from_parts", <<"c_prime", "mac">>, "C_prime"))
                   \o sacrifice(p, n)
             g6 == g5 \o Do("set_triples", <<"A", "B", "C">>, "")
  <1>18. Orderly(p, g1)
    BY <1>1, <1>2, <1>3, <1>4, OrderlyCat
  <1>19. Orderly(p, g2)
    <2> HIDE DEF g1
    <2> QED BY <1>5, <1>6, <1>7, <1>18, OrderlyCat DEF g2
  <1>20. Orderly(p, g3)
    <2> HIDE DEF g1, g2
    <2> QED BY <1>8, <1>9, <1>10, <1>19, OrderlyCat DEF g3
  <1>21. Orderly(p, g4)
    <2> HIDE DEF g1, g2, g3
    <2> QED BY <1>11, <1>12, <1>13, <1>20, OrderlyCat DEF g4
  <1>22. Orderly(p, g5)
    <2> HIDE DEF g1, g2, g3, g4
    <2> QED BY <1>14, <1>15, <1>16, <1>21, OrderlyCat DEF g5
  <1>23. Orderly(p, g6)
    <2> HIDE DEF g1, g2, g3, g4, g5
    <2> QED BY <1>17, <1>22, OrderlyCat DEF g6
  <1>24. generate_triples(p) = g6
    BY DEF generate_triples
  <1> HIDE DEF g1, g2, g3, g4, g5, g6
  <1> QED BY <1>23, <1>24

LEMMA OrderlyBeaver ==
    ASSUME NEW p \in Party, NEW x \in Names, NEW y \in Names, NEW n \in Nat, NEW res \in Names, res # "my_comm"
    PROVE  Orderly(p, beaver_mul(p, x, y, n, res))
  <1>1. Orderly(p, Check("need_triples", <<x>>))
    BY InNames, InLocals, ArgLists, OrderlyDo DEF Check
  <1>2. Orderly(p, Do("consume_triples", <<x>>, ""))
    BY InNames, InLocals, ArgLists, OrderlyDo
  <1>3. Orderly(p, Do("sub", <<x, "ta">>, "x_a"))
    BY InNames, InLocals, ArgLists, OrderlyDo
  <1>4. Orderly(p, open_and_check_macs(p, "x_a", n, "d"))
    BY InNames, OrderlyOpenAndCheck
  <1>5. Orderly(p, Do("sub", <<y, "tb">>, "y_b"))
    BY InNames, InLocals, ArgLists, OrderlyDo
  <1>6. Orderly(p, open_and_check_macs(p, "y_b", n, "e"))
    BY InNames, OrderlyOpenAndCheck
  <1>7. Orderly(p, Do("beaver", <<"d", "e", "ta", "tb", "tc">>, res))
    BY InNames, InLocals, ArgLists, OrderlyDo
  <1> DEFINE g1 == Check("need_triples", <<x>>)
                   \o Do("consume_triples", <<x>>, "")
                   \o Do("sub", <<x, "ta">>, "x_a")
                   \o open_and_check_macs(p, "x_a", n, "d")
             g2 == g1
                   \o Do("sub", <<y, "tb">>, "y_b")
                   \o open_and_check_macs(p, "y_b", n, "e")
                   \o Do("beaver", <<"d", "e", "ta", "tb", "tc">>, res)
  <1>8. Orderly(p, g1)
    BY <1>1, <1>2, <1>3, <1>4, OrderlyCat
  <1>9. Orderly(p, g2)
    <2> HIDE DEF g1
    <2> QED BY <1>5, <1>6, <1>7, <1>8, OrderlyCat DEF g2
  <1>10. beaver_mul(p, x, y, n, res) = g2
    BY DEF beaver_mul
  <1> HIDE DEF g1, g2
  <1> QED BY <1>9, <1>10

LEMMA OrderlyAuthRandomness ==
    ASSUME NEW p \in Party, NEW n \in Nat, NEW res \in Names, res # "my_comm"
    PROVE  Orderly(p, get_authenticated_randomness_vec(p, n, res))
  <1>1. Orderly(p, Draw(n, "rand"))
    BY InNames, OrderlyDraw
  <1>2. Orderly(p, Do("from_scalars", <<"rand">>, "rand_pt"))
    BY InNames, InLocals, ArgLists, OrderlyDo
  <1>3. Orderly(p, authenticate_vec(p, "rand_pt", "rand_mac"))
    BY InNames, OrderlyAuthenticate
  <1>4. Orderly(p, Do("from_parts", <<"rand", "rand_mac">>, res))
    BY InNames, InLocals, ArgLists, OrderlyDo
  <1> QED BY <1>1, <1>2, <1>3, <1>4, OrderlyCat DEF get_authenticated_randomness_vec

LEMMA OrderlyEmpty ==
    ASSUME NEW p
    PROVE  Orderly(p, <<>>)
  BY DEF Orderly, Progs

LEMMA OrderlyPanic ==
    ASSUME NEW p
    PROVE  Orderly(p, Panic)
  BY InNames, InLocals, ArgLists, OrderlyDo DEF Panic, Check

LEMMA OrderlySharedRandomness ==
    ASSUME NEW p \in Party, NEW n \in Nat
    PROVE  Orderly(p, generate_shared_randomness(p, n))
  <1> DEFINE prog ==
        get_authenticated_randomness_vec(p, n, "vals")
        \o Do("set_shared_randomness", <<"vals">>, "")
  <1>1. Orderly(p, prog)
    <2>1. Orderly(p, get_authenticated_randomness_vec(p, n, "vals"))
      BY InNames, OrderlyAuthRandomness
    <2>2. Orderly(p, Do("set_shared_randomness", <<"vals">>, ""))
      BY InNames, InLocals, ArgLists, OrderlyDo
    <2> QED BY <2>1, <2>2, OrderlyCat DEF prog
  <1>2. generate_shared_randomness(p, n) \in {<<>>, prog}
    BY DEF generate_shared_randomness
  <1> HIDE DEF prog
  <1> QED BY <1>1, <1>2, OrderlyEmpty, OrderlyPanic

LEMMA OrderlyInverseTuples ==
    ASSUME NEW p \in Party, NEW lg, NEW n \in Nat
    PROVE  Orderly(p, generate_inverse_tuples(p, lg, n))
  <1> DEFINE prog ==
        get_authenticated_randomness_vec(p, 2 * n, "vals")
        \o Do("first_half", <<"vals">>, "lhs")
        \o Do("second_half", <<"vals">>, "rhs")
        \o beaver_mul(p, "lhs", "rhs", n, "product")
        \o open_and_check_macs(p, "product", n, "opened")
        \o Check("nonzero", <<"opened">>)
        \o Do("set_inverse_tuples", <<"lhs", "rhs", "opened">>, "")
  <1>1. Orderly(p, prog)
    <2>1. Orderly(p, get_authenticated_randomness_vec(p, 2 * n, "vals"))
      BY 2 * n \in Nat, InNames, OrderlyAuthRandomness
    <2>2. Orderly(p, Do("first_half", <<"vals">>, "lhs"))
      BY InNames, InLocals, ArgLists, OrderlyDo
    <2>3. Orderly(p, Do("second_half", <<"vals">>, "rhs"))
      BY InNames, InLocals, ArgLists, OrderlyDo
    <2>4. Orderly(p, beaver_mul(p, "lhs", "rhs", n, "product"))
      BY InNames, OrderlyBeaver
    <2>5. Orderly(p, open_and_check_macs(p, "product", n, "opened"))
      BY InNames, OrderlyOpenAndCheck
    <2>6. Orderly(p, Check("nonzero", <<"opened">>))
      BY InNames, InLocals, ArgLists, OrderlyDo DEF Check
    <2>7. Orderly(p, Do("set_inverse_tuples", <<"lhs", "rhs", "opened">>, ""))
      BY InNames, InLocals, ArgLists, OrderlyDo
    <2> DEFINE g1 == get_authenticated_randomness_vec(p, 2 * n, "vals")
                     \o Do("first_half", <<"vals">>, "lhs")
                     \o Do("second_half", <<"vals">>, "rhs")
                     \o beaver_mul(p, "lhs", "rhs", n, "product")
               g2 == g1
                     \o open_and_check_macs(p, "product", n, "opened")
                     \o Check("nonzero", <<"opened">>)
                     \o Do("set_inverse_tuples", <<"lhs", "rhs", "opened">>, "")
    <2>8. Orderly(p, g1)
      BY <2>1, <2>2, <2>3, <2>4, OrderlyCat
    <2>9. Orderly(p, g2)
      <3> HIDE DEF g1
      <3> QED BY <2>5, <2>6, <2>7, <2>8, OrderlyCat DEF g2
    <2>10. prog = g2
      BY DEF prog
    <2> HIDE DEF g1, g2
    <2> QED BY <2>9, <2>10
  <1>2. generate_inverse_tuples(p, lg, n) \in {Panic, <<>>, prog}
    BY DEF generate_inverse_tuples
  <1> HIDE DEF prog
  <1> QED BY <1>1, <1>2, OrderlyEmpty, OrderlyPanic

LEMMA OrderlySharedBits ==
    ASSUME NEW p \in Party, NEW lg, NEW n \in Nat
    PROVE  Orderly(p, generate_shared_bits(p, lg, n))
  <1> DEFINE prog ==
        get_authenticated_randomness_vec(p, n, "vals")
        \o beaver_mul(p, "vals", "vals", n, "squares")
        \o open_and_check_macs(p, "squares", n, "opened")
        \o Check("nonzero", <<"opened">>)
        \o Do("set_shared_bits", <<"vals", "opened">>, "")
  <1>1. Orderly(p, prog)
    <2>1. Orderly(p, get_authenticated_randomness_vec(p, n, "vals"))
      BY InNames, OrderlyAuthRandomness
    <2>2. Orderly(p, beaver_mul(p, "vals", "vals", n, "squares"))
      BY InNames, OrderlyBeaver
    <2>3. Orderly(p, open_and_check_macs(p, "squares", n, "opened"))
      BY InNames, OrderlyOpenAndCheck
    <2>4. Orderly(p, Check("nonzero", <<"opened">>))
      BY InNames, InLocals, ArgLists, OrderlyDo DEF Check
    <2>5. Orderly(p, Do("set_shared_bits", <<"vals", "opened">>, ""))
      BY InNames, InLocals, ArgLists, OrderlyDo
    <2> QED BY <2>1, <2>2, <2>3, <2>4, <2>5, OrderlyCat DEF prog
  <1>2. generate_shared_bits(p, lg, n) \in {Panic, <<>>, prog}
    BY DEF generate_shared_bits
  <1> HIDE DEF prog
  <1> QED BY <1>1, <1>2, OrderlyEmpty, OrderlyPanic

LEMMA OrderlyInputMasks ==
    ASSUME NEW p \in Party, NEW n \in Nat
    PROVE  Orderly(p, generate_input_masks(p, n))
  <1> DEFINE prog ==
        Draw(n, "my_values")
        \o Draw(n, "my_share")
        \o Draw(Slots, "mac_mask")
        \o Do("mask_macs", <<"my_values", "mac_mask">>, "my_mac_shares")
        \o Do("from_parts", <<"my_share", "my_mac_shares">>, "my_values_shares")
        \o Do("add_local_masks", <<"my_values", "my_values_shares">>, "")
        \o Do("difference", <<"my_values", "my_share">>, "their_share")
        \o Check("need_setup", <<>>)
        \o Check("fits_slots", <<"my_values">>)
        \o Do("masked_mac", <<"my_values", "mac_mask">>, "their_mac")
        \o exchange(p, "ScalarBatch", "their_share", "my_shares")
        \o exchange_message(p, "their_mac", "counterparty_macs")
        \o Do("decrypt", <<"counterparty_macs">>, "my_macs")
        \o Do("from_parts", <<"my_shares", "my_macs">>, "counterparty_shares")
        \o Do("add_counterparty_masks", <<"counterparty_shares">>, "")
  <1>1. Orderly(p, prog)
    <2>1. Orderly(p, Draw(n, "my_values"))
      BY InNames, OrderlyDraw
    <2>2. Orderly(p, Draw(n, "my_share"))
      BY InNames, OrderlyDraw
    <2>3. Orderly(p, Draw(Slots, "mac_mask"))
      BY InNames, OrderlyDraw, SlotsAssumption
    <2>4. Orderly(p, Do("mask_macs", <<"my_values", "mac_mask">>, "my_mac_shares"))
      BY InNames, InLocals, ArgLists, OrderlyDo
    <2>5. Orderly(p, Do("from_parts", <<"my_share", "my_mac_shares">>, "my_values_shares"))
      BY InNames, InLocals, ArgLists, OrderlyDo
    <2>6. Orderly(p, Do("add_local_masks", <<"my_values", "my_values_shares">>, ""))
      BY InNames, InLocals, ArgLists, OrderlyDo
    <2>7. Orderly(p, Do("difference", <<"my_values", "my_share">>, "their_share"))
      BY InNames, InLocals, ArgLists, OrderlyDo
    <2>8. Orderly(p, Check("need_setup", <<>>))
      BY InNames, InLocals, ArgLists, OrderlyDo DEF Check
    <2>9. Orderly(p, Check("fits_slots", <<"my_values">>))
      BY InNames, InLocals, ArgLists, OrderlyDo DEF Check
    <2>10. Orderly(p, Do("masked_mac", <<"my_values", "mac_mask">>, "their_mac"))
      BY InNames, InLocals, ArgLists, OrderlyDo
    <2>11. Orderly(p, exchange(p, "ScalarBatch", "their_share", "my_shares"))
      BY InNames, OrderlyExchange
    <2>12. Orderly(p, exchange_message(p, "their_mac", "counterparty_macs"))
      BY InNames, OrderlyExchange DEF exchange_message
    <2>13. Orderly(p, Do("decrypt", <<"counterparty_macs">>, "my_macs"))
      BY InNames, InLocals, ArgLists, OrderlyDo
    <2>14. Orderly(p, Do("from_parts", <<"my_shares", "my_macs">>, "counterparty_shares"))
      BY InNames, InLocals, ArgLists, OrderlyDo
    <2>15. Orderly(p, Do("add_counterparty_masks", <<"counterparty_shares">>, ""))
      BY InNames, InLocals, ArgLists, OrderlyDo
    <2> DEFINE g1 == Draw(n, "my_values")
                     \o Draw(n, "my_share")
                     \o Draw(Slots, "mac_mask")
                     \o Do("mask_macs", <<"my_values", "mac_mask">>, "my_mac_shares")
               g2 == g1
                     \o Do("from_parts", <<"my_share", "my_mac_shares">>, "my_values_shares")
                     \o Do("add_local_masks", <<"my_values", "my_values_shares">>, "")
                     \o Do("difference", <<"my_values", "my_share">>, "their_share")
               g3 == g2
                     \o Check("need_setup", <<>>)
                     \o Check("fits_slots", <<"my_values">>)
                     \o Do("masked_mac", <<"my_values", "mac_mask">>, "their_mac")
               g4 == g3
                     \o exchange(p, "ScalarBatch", "their_share", "my_shares")
                     \o exchange_message(p, "their_mac", "counterparty_macs")
                     \o Do("decrypt", <<"counterparty_macs">>, "my_macs")
               g5 == g4
                     \o Do("from_parts", <<"my_shares", "my_macs">>, "counterparty_shares")
                     \o Do("add_counterparty_masks", <<"counterparty_shares">>, "")
    <2>16. Orderly(p, g1)
      BY <2>1, <2>2, <2>3, <2>4, OrderlyCat
    <2>17. Orderly(p, g2)
      <3> HIDE DEF g1
      <3> QED BY <2>5, <2>6, <2>7, <2>16, OrderlyCat DEF g2
    <2>18. Orderly(p, g3)
      <3> HIDE DEF g1, g2
      <3> QED BY <2>8, <2>9, <2>10, <2>17, OrderlyCat DEF g3
    <2>19. Orderly(p, g4)
      <3> HIDE DEF g1, g2, g3
      <3> QED BY <2>11, <2>12, <2>13, <2>18, OrderlyCat DEF g4
    <2>20. Orderly(p, g5)
      <3> HIDE DEF g1, g2, g3, g4
      <3> QED BY <2>14, <2>15, <2>19, OrderlyCat DEF g5
    <2>21. prog = g5
      BY DEF prog
    <2> HIDE DEF g1, g2, g3, g4, g5
    <2> QED BY <2>20, <2>21
  <1>2. generate_input_masks(p, n) \in {Panic, <<>>, prog}
    BY DEF generate_input_masks
  <1> HIDE DEF prog
  <1> QED BY <1>1, <1>2, OrderlyEmpty, OrderlyPanic

LEMMA OrderlyKeyExchange ==
    ASSUME NEW p \in Party
    PROVE  Orderly(p, run_key_exchange(p))
  <1>1. Orderly(p, Do("public_key", <<>>, "my_pk"))
    BY InNames, InLocals, ArgLists, OrderlyDo
  <1>2. Orderly(p, exchange_message(p, "my_pk", "their_pk"))
    BY InNames, OrderlyExchange DEF exchange_message
  <1>3. Orderly(p, Do("mac_plaintext", <<>>, "mac_pt"))
    BY InNames, InLocals, ArgLists, OrderlyDo
  <1>4. Orderly(p, Do("encrypt", <<"mac_pt">>, "mac_pok"))
    BY InNames, InLocals, ArgLists, OrderlyDo
  <1>5. Orderly(p, exchange_message(p, "mac_pok", "their_mac_pok"))
    BY InNames, OrderlyExchange DEF exchange_message
  <1>6. Orderly(p, Do("set_keys", <<"their_pk", "their_mac_pok">>, ""))
    BY InNames, InLocals, ArgLists, OrderlyDo
  <1> DEFINE g1 == Do("public_key", <<>>, "my_pk")
                   \o exchange_message(p, "my_pk", "their_pk")
                   \o Do("mac_plaintext", <<>>, "mac_pt")
                   \o Do("encrypt", <<"mac_pt">>, "mac_pok")
             g2 == g1
                   \o exchange_message(p, "mac_pok", "their_mac_pok")
                   \o Do("set_keys", <<"their_pk", "their_mac_pok">>, "")
  <1>7. Orderly(p, g1)
    BY <1>1, <1>2, <1>3, <1>4, OrderlyCat
  <1>8. Orderly(p, g2)
    <2> HIDE DEF g1
    <2> QED BY <1>5, <1>6, <1>7, OrderlyCat DEF g2
  <1>9. run_key_exchange(p) = g2
    BY DEF run_key_exchange
  <1> HIDE DEF g1, g2
  <1> QED BY <1>8, <1>9

LEMMA OrderlyProgram ==
    ASSUME NEW p \in Party, NEW lg, NEW call \in Calls, call.op \in Generators
    PROVE  Orderly(p, Program(p, lg, call))
  <1>1. PICK n : n = PokBatch * Slots
    OBVIOUS
  <1>2. n \in Nat
    BY <1>1, LowGearAssumption, SlotsAssumption
  <1>3. call.op \notin {"run_key_exchange", "generate_triples"} => call.n \in Nat
    BY DEF Calls, Generators
  <1>4. CASE call.op = "run_key_exchange"
    BY <1>4, OrderlyKeyExchange DEF Program
  <1>5. CASE call.op = "generate_triples"
    <2>1. Orderly(p, generate_triples(p))
      BY <1>1, <1>2, OrderlyTriples
    <2> QED BY <1>5, <2>1 DEF Program
  <1>6. CASE call.op = "generate_inverse_tuples"
    <2>1. Orderly(p, generate_inverse_tuples(p, lg, call.n))
      BY <1>3, <1>6, OrderlyInverseTuples
    <2> QED BY <1>6, <2>1 DEF Program
  <1>7. CASE call.op = "generate_shared_bits"
    <2>1. Orderly(p, generate_shared_bits(p, lg, call.n))
      BY <1>3, <1>7, OrderlySharedBits
    <2> QED BY <1>7, <2>1 DEF Program
  <1>8. CASE call.op = "generate_shared_randomness"
    <2>1. Orderly(p, generate_shared_randomness(p, call.n))
      BY <1>3, <1>8, OrderlySharedRandomness
    <2> QED BY <1>8, <2>1 DEF Program
  <1>9. CASE call.op = "generate_input_masks"
    <2>1. Orderly(p, generate_input_masks(p, call.n))
      BY <1>3, <1>9, OrderlyInputMasks
    <2> QED BY <1>9, <2>1 DEF Program
  <1> QED BY <1>4, <1>5, <1>6, <1>7, <1>8, <1>9 DEF Generators

---------------------------------------------------------------------------
(* Reveal after commit                                                     *)

\* A commitment is out and the counterparty's is not there yet.
Pending(mem) == "my_comm" \in DOMAIN mem /\ "their_comm" \notin DOMAIN mem

\* Then the program receives it before it sends a batch of scalars, if it
\* sends any.
Waits(s) == Pending(s.mem) => Answered(s.prog, 0) \/ NoReveal(s.prog)

PartyOK(p, s) ==
    /\ IsState(s) /\ Orderly(p, s.prog) /\ Waits(s)
    /\ s.status # "running" => s.prog = <<>>
    /\ s.calls \in Seq(Calls)

\* A local step other than commit_scalars forgets nothing and makes no
\* commitment.
LEMMA ComputeMem ==
    ASSUME NEW p, NEW s, IsState(s), NEW i, Cautious(i), i.op \notin Network,
           i.op # "commit_scalars", NEW u, u = Compute(p, s, i)
    PROVE  Pending(u.mem) => Pending(s.mem)
  <1> DEFINE Shape(t) == /\ IsState(t) /\ DOMAIN s.mem \subseteq DOMAIN t.mem
                         /\ "my_comm" \in DOMAIN t.mem => "my_comm" \in DOMAIN s.mem
  <1>1. ASSUME NEW t, NEW r, NEW x, Shape(t), r # "my_comm" PROVE Shape(Put(t, r, x))
    BY <1>1 DEF Put, IsState, Fields
  <1>2. \A t, x : Shape(t) => Shape([t EXCEPT !.drawn = x])
    BY DEF IsState, Fields
  <1>3. \A t, x : Shape(t) => Shape([t EXCEPT !.lg = x])
    BY DEF IsState, Fields
  <1>4. \A t, x, y : Shape(t) => Shape([t EXCEPT !.lg = x, !.used = y])
    <2> SUFFICES ASSUME NEW t, NEW x, NEW y, Shape(t)
                 PROVE  Shape([t EXCEPT !.lg = x, !.used = y])
      OBVIOUS
    <2>1. PICK r : r = [t EXCEPT !.lg = x]
      OBVIOUS
    <2>2. Shape(r)
      BY <1>3, <2>1
    <2>3. Shape([r EXCEPT !.used = y])
      BY <2>2 DEF IsState, Fields
    <2> QED BY <2>1, <2>3
  <1>5. Shape(s)
    OBVIOUS
  <1>6. \A e : Shape(Fail(s, e))
    BY <1>5 DEF Fail, IsState, Fields
  <1>7. i.res # "my_comm"
    BY DEF Cautious
  <1>8. {"cross", "ta", "tb", "tc"} \cap {"my_comm"} = {}
    OBVIOUS
  <1> HIDE DEF Shape
  <1>9. Shape(u)
    <2>1. CASE i.op = "draw"
      <3>1. \E x, y : u = [Put(s, i.res, x) EXCEPT !.drawn = y]
        BY <2>1, ComputeDraw
      <3> QED BY <1>1, <1>2, <1>5, <1>7, <3>1
    <2>2. CASE i.op = "cross_products"
      <3>1. \E x, y, z : u = [Put(Put(s, i.res, x), "cross", y) EXCEPT !.drawn = z]
        BY <2>2, ComputeCross
      <3> QED BY <1>1, <1>2, <1>5, <1>7, <1>8, <3>1
    <2>3. CASE i.op = "consume_triples"
      <3>1. PICK n, t : n = Len(ArgsOf(s, i)[1])
                       /\ t = [f \in DOMAIN s.lg.triples |-> split_off(s.lg.triples[f], n)]
        OBVIOUS
      <3>2. u = Put(Put(Put(Use(s, n, t), "ta", t.a), "tb", t.b), "tc", t.c)
        BY <2>3, <3>1, ComputeConsume
      <3>3. Shape(Use(s, n, t))
        BY <1>4, <1>5 DEF Use
      <3>4. "ta" # "my_comm" /\ "tb" # "my_comm" /\ "tc" # "my_comm"
        OBVIOUS
      <3> QED BY <1>1, <3>2, <3>3, <3>4
    <2>4. CASE i.op \in Stores
      <3>1. \E x : u = [s EXCEPT !.lg = x]
        BY <2>4, ComputeStore
      <3> QED BY <1>3, <1>5, <3>1
    <2>5. CASE i.op \in Checks
      BY <1>5, <1>6, <2>5, ComputeCheck
    <2>6. CASE i.op \notin Special \cup Stores \cup Checks
      <3>1. \E x : u = Put(s, i.res, x)
        BY <2>6, ComputePure
      <3> QED BY <1>1, <1>5, <1>7, <3>1
    <2> QED BY <2>1, <2>2, <2>3, <2>4, <2>5, <2>6 DEF Special
  <1> QED BY <1>9 DEF Shape, Pending

\* A local step keeps the invariant.
LEMMA StepOK ==
    ASSUME NEW p, NEW s, PartyOK(p, s), s.status = "running", s.prog # <<>>,
           Head(s.prog).op \notin Network, NEW u, u = RunStep(p, s)
    PROVE  /\ PartyOK(p, u)
           /\ u.prog = <<>> \/ u.prog = Tail(s.prog)
  <1>1. PICK t, i : t = [s EXCEPT !.prog = Tail(@)] /\ i = Head(s.prog)
    OBVIOUS
  <1>2. IsState(s) /\ Orderly(p, s.prog) /\ s.prog \in Progs /\ s.calls \in Seq(Calls)
    BY DEF PartyOK, Orderly
  <1>3. /\ IsState(t) /\ t.status = "running" /\ t.prog = Tail(s.prog)
        /\ t.calls = s.calls /\ t.mem = s.mem
    BY <1>1, <1>2 DEF IsState, Fields
  <1>4. u = Compute(p, t, i)
    BY <1>1 DEF RunStep
  <1>5. i = s.prog[1] /\ 1 \in DOMAIN s.prog
    BY <1>1, <1>2 DEF Progs
  <1>6. Cautious(i) /\ ~Hears(i)
    BY <1>2, <1>5, <1>1 DEF Orderly, Hears, Network
  <1>7. /\ Orderly(p, t.prog)
        /\ i.op = "commit_scalars" => Answered(t.prog, 0)
        /\ Answered(s.prog, 0) => Answered(t.prog, 0)
        /\ NoReveal(s.prog) => NoReveal(t.prog)
    BY <1>2, <1>3, <1>5, <1>6, OrderlyTail
  <1>8. /\ IsState(u) /\ u.calls = t.calls
        /\ \/ u.status = "running" /\ u.prog = t.prog
           \/ u.status # "running" /\ u.prog = <<>>
    <2> HIDE <1>1
    <2> QED BY <1>3, <1>4, ComputeShape
  <1>9. CASE u.prog = <<>>
    <2>1. Waits(u)
      BY <1>9 DEF Waits, NoReveal
    <2>2. Orderly(p, u.prog)
      BY <1>9, OrderlyEmpty
    <2> QED BY <1>2, <1>3, <1>8, <1>9, <2>1, <2>2 DEF PartyOK
  <1>10. CASE u.prog # <<>>
    <2>1. u.prog = t.prog
      BY <1>8, <1>10
    <2>2. CASE i.op = "commit_scalars"
      BY <1>2, <1>3, <1>7, <1>8, <1>10, <2>1, <2>2 DEF PartyOK, Waits
    <2>3. CASE i.op # "commit_scalars"
      <3>1. i.op \notin Network
        BY <1>1
      <3>2. Pending(u.mem) => Pending(t.mem)
        <4> HIDE <1>1
        <4> QED BY <1>3, <1>4, <1>6, <2>3, <3>1, ComputeMem
      <3>3. Waits(u)
        BY <1>3, <1>7, <2>1, <3>2 DEF PartyOK, Waits
      <3> QED BY <1>2, <1>3, <1>7, <1>8, <1>10, <2>1, <3>3 DEF PartyOK
    <2> QED BY <2>2, <2>3
  <1> QED BY <1>3, <1>8, <1>9, <1>10

\* Where Advance leaves a task
Rests(s) == s.prog = <<>> \/ Head(s.prog).op \in Network

LEMMA AdvanceOK ==
    ASSUME NEW p, NEW s, PartyOK(p, s)
    PROVE  PartyOK(p, Advance(p, s)) /\ Rests(Advance(p, s))
  <1> DEFINE T == {n \in Nat : \A t : PartyOK(p, t) /\ Len(t.prog) <= n =>
                                 PartyOK(p, Advance(p, t)) /\ Rests(Advance(p, t))}
  <1>1. \A t : PartyOK(p, t) => t.prog \in Progs /\ Len(t.prog) \in Nat
    BY DEF PartyOK, Orderly, Progs
  <1>2. ASSUME NEW t, PartyOK(p, t), Rests(t)
        PROVE  PartyOK(p, Advance(p, t)) /\ Rests(Advance(p, t))
    BY <1>1, <1>2, AdvanceStop DEF Rests
  <1>3. 0 \in T
    <2> SUFFICES ASSUME NEW t, PartyOK(p, t), Len(t.prog) <= 0
                 PROVE  PartyOK(p, Advance(p, t)) /\ Rests(Advance(p, t))
      OBVIOUS
    <2>1. t.prog = <<>>
      BY <1>1 DEF Progs
    <2> QED BY <1>2, <2>1 DEF Rests
  <1>4. ASSUME NEW n \in Nat, n \in T PROVE n + 1 \in T
    <2> SUFFICES ASSUME NEW t, PartyOK(p, t), Len(t.prog) <= n + 1
                 PROVE  PartyOK(p, Advance(p, t)) /\ Rests(Advance(p, t))
      OBVIOUS
    <2>1. CASE Rests(t)
      BY <1>2, <2>1
    <2>2. CASE ~Rests(t)
      <3>1. t.prog # <<>> /\ Head(t.prog).op \notin Network /\ t.status = "running"
        BY <2>2 DEF Rests, PartyOK
      <3>2. PICK u : u = RunStep(p, t)
        OBVIOUS
      <3>3. PartyOK(p, u) /\ (u.prog = <<>> \/ u.prog = Tail(t.prog))
        BY <3>1, <3>2, StepOK
      <3>4. Len(u.prog) <= n
        <4>1. Len(Tail(t.prog)) = Len(t.prog) - 1 /\ Len(t.prog) \in Nat
          BY <1>1, <3>1, TailFacts
        <4>2. Len(<<>>) = 0
          OBVIOUS
        <4>3. CASE u.prog = <<>>
          BY <4>2, <4>3
        <4>4. CASE u.prog = Tail(t.prog)
          BY <4>1, <4>4
        <4> QED BY <3>3, <4>3, <4>4
      <3>5. Advance(p, t) = Advance(p, u)
        BY <1>1, <3>1, <3>2, AdvanceStep DEF PartyOK
      <3> QED BY <1>4, <3>3, <3>4, <3>5
    <2> QED BY <2>1, <2>2
  <1>5. \A n \in Nat : n \in T
    <2> HIDE DEF T
    <2> QED BY <1>3, <1>4, Induction
  <1>6. Len(s.prog) \in T /\ Len(s.prog) <= Len(s.prog)
    BY <1>1, <1>5
  <1> QED BY <1>6

\* A call that copies pools of the LowGear changes the store and the log.
SetStore(s, x, y) == [s EXCEPT !.prep = x, !.used = y]

LEMMA CopyIs ==
    ASSUME NEW s, NEW call, call.op \in {"get_offline_result", "append"}
    PROVE  \E x, y : CallOnResult(s, call) = SetStore(s, x, y)
  <1>1. CASE call.op = "get_offline_result"
    <2>1. CallOnResult(s, call)
          = SetStore(s, get_offline_result(s.lg), Copied(s, {"triplets"}))
      BY <1>1 DEF CallOnResult, SetStore
    <2> QED BY <2>1
  <1>2. CASE call.op = "append"
    <2>1. PICK x, y : /\ x = [f \in DOMAIN s.prep |->
                                IF f \in call.pools
                                THEN Append2(s.prep[f], get_offline_result(s.lg)[f])
                                ELSE s.prep[f]]
                      /\ y = Copied(s, call.pools)
      OBVIOUS
    <2>2. CallOnResult(s, call) = SetStore(s, x, y)
      BY <1>2, <2>1 DEF CallOnResult, SetStore
    <2> QED BY <2>2
  <1> QED BY <1>1, <1>2

LEMMA CopyFacts ==
    ASSUME NEW s, IsState(s), NEW x, NEW y, NEW u, u = SetStore(s, x, y)
    PROVE  /\ IsState(u) /\ u.lg = s.lg /\ u.prep = x /\ u.used = y /\ u.handed = s.handed
           /\ u.calls = s.calls /\ u.prog = s.prog /\ u.mem = s.mem /\ u.drawn = s.drawn
           /\ u.status = s.status
  <1>1. PICK r : r = [s EXCEPT !.prep = x]
    OBVIOUS
  <1>2. /\ IsState(r) /\ r.lg = s.lg /\ r.prep = x /\ r.handed = s.handed
        /\ r.calls = s.calls /\ r.prog = s.prog /\ r.mem = s.mem /\ r.drawn = s.drawn
        /\ r.status = s.status
    BY <1>1 DEF IsState, Fields
  <1>3. u = [r EXCEPT !.used = y]
    BY <1>1 DEF SetStore
  <1> QED BY <1>2, <1>3 DEF IsState, Fields

\* A call of the store, or one that only makes other calls
LEMMA LocalCallOK ==
    ASSUME NEW p \in Party, NEW s, IsState(s), s.status = "running", s.prog = <<>>,
           s.calls \in Seq(Calls), s.mem = <<>>,
           NEW call \in Calls, call.op \notin Generators, NEW u, u = LocalCall(p, s, call)
    PROVE  PartyOK(p, u)
  <1> DEFINE Shape(t) == /\ IsState(t) /\ t.prog = <<>> /\ t.calls \in Seq(Calls)
                         /\ t.mem = <<>>
  <1>1. \A e : Shape(Fail(s, e))
    BY DEF Fail, IsState, Fields
  <1>2. \A x : Shape([s EXCEPT !.lg = x])
    BY DEF IsState, Fields
  <1>3. \A x, y : Shape(SetStore(s, x, y))
    BY CopyFacts
  <1>4. \A x : x \in Seq(Calls) => Shape([s EXCEPT !.calls = x])
    BY DEF IsState, Fields
  <1>5. \A f, x, y, z : Shape([s EXCEPT !.prep[f] = x, !.handed = y, !.used = z])
    <2> SUFFICES ASSUME NEW f, NEW x, NEW y, NEW z
                 PROVE  Shape([s EXCEPT !.prep[f] = x, !.handed = y, !.used = z])
      OBVIOUS
    <2>1. PICK r : r = [s EXCEPT !.prep[f] = x]
      OBVIOUS
    <2>2. Shape(r)
      BY <2>1 DEF IsState, Fields
    <2>3. PICK q : q = [r EXCEPT !.handed = y]
      OBVIOUS
    <2>4. Shape(q)
      BY <2>2, <2>3 DEF IsState, Fields
    <2>5. Shape([q EXCEPT !.used = z])
      BY <2>4 DEF IsState, Fields
    <2> QED BY <2>1, <2>3, <2>5
  <1>6. ASSUME call.op = "run_offline_phase"
        PROVE  run_offline_phase(call.sizes) \o s.calls \in Seq(Calls)
    <2>1. call.sizes \in Sizes
      BY <1>6 DEF Calls
    <2>2. run_offline_phase(call.sizes) \in Seq(Calls)
      BY <2>1 DEF run_offline_phase, Calls, Sizes
    <2> QED BY <2>2
  <1> HIDE DEF Shape
  <1>7. Shape(u)
    <2>1. CASE call.op = "run_offline_phase"
      <3>1. \E x : x \in Seq(Calls) /\ u = [s EXCEPT !.calls = x]
        BY <1>6, <2>1 DEF LocalCall
      <3> QED BY <1>4, <3>1
    <2>2. CASE call.op = "next"
      <3>1. u = next(s, p, call.req)
        BY <2>2 DEF LocalCall
      <3>2. CASE SizeOf(s.prep[PoolOf(p, call.req)]) < call.req.n
        <4>1. u = Fail(s, "panic")
          BY <3>1, <3>2 DEF next
        <4> QED BY <1>1, <4>1
      <3>3. CASE ~(SizeOf(s.prep[PoolOf(p, call.req)]) < call.req.n)
        <4>1. PICK f, x, y, z :
                 /\ f = PoolOf(p, call.req) /\ x = Leave(s.prep[f], call.req.n)
                 /\ y = Append(s.handed, [req |-> call.req,
                                          got |-> Take(s.prep[f], call.req.n)])
                 /\ z = IF f = "triplets" THEN s.used \o Log("online", Take(s.prep[f], call.req.n))
                        ELSE s.used
          OBVIOUS
        <4>2. u = [s EXCEPT !.prep[f] = x, !.handed = y, !.used = z]
          BY <3>1, <3>3, <4>1 DEF next
        <4> HIDE <4>1
        <4>3. Shape([s EXCEPT !.prep[f] = x, !.handed = y, !.used = z])
          BY <1>5
        <4> QED BY <4>2, <4>3
      <3> QED BY <3>2, <3>3
    <2>3. CASE s.lg.other_pk = None /\ call.op \notin {"run_offline_phase", "next"}
      BY <1>1, <2>3 DEF LocalCall
    <2>4. CASE s.lg.other_pk # None /\ call.op = "new_from_params"
      <3>1. \E x : u = [s EXCEPT !.lg = x]
        BY <2>4 DEF LocalCall, CallOnResult
      <3> QED BY <1>2, <3>1
    <2>5. CASE s.lg.other_pk # None /\ call.op = "get_offline_result"
      <3>1. u = CallOnResult(s, call)
        BY <2>5 DEF LocalCall
      <3>2. \E x, y : u = SetStore(s, x, y)
        BY <2>5, <3>1, CopyIs
      <3> QED BY <1>3, <3>2
    <2>6. CASE s.lg.other_pk # None /\ call.op = "append"
      <3>1. u = CallOnResult(s, call)
        BY <2>6 DEF LocalCall
      <3>2. \E x, y : u = SetStore(s, x, y)
        BY <2>6, <3>1, CopyIs
      <3> QED BY <1>3, <3>2
    <2>7. call.op \in {"run_offline_phase", "next", "new_from_params", "get_offline_result",
                       "append"}
      BY DEF Calls, Generators
    <2> QED BY <2>1, <2>2, <2>3, <2>4, <2>5, <2>6, <2>7
  <1>8. Orderly(p, <<>>)
    BY OrderlyEmpty
  <1>9. Waits(u)
    BY <1>7 DEF Shape, Waits, NoReveal
  <1> QED BY <1>7, <1>8, <1>9 DEF Shape, PartyOK

\* The inductive invariant: every party's program keeps commitments and reveals
\* in order, whatever it has received so far.
RoundsInv ==
    /\ party = [p \in Party |-> party[p]]
    /\ \A p \in Party : PartyOK(p, party[p])

LEMMA PastOK ==
    ASSUME NEW p, NEW s, PartyOK(p, s), s.prog # <<>>, NEW t, t = Past(s)
    PROVE  /\ IsState(t) /\ t.prog = Tail(s.prog) /\ t.calls = s.calls /\ t.mem = s.mem
           /\ t.status = s.status /\ Orderly(p, t.prog) /\ Head(s.prog) = s.prog[1]
           /\ 1 \in DOMAIN s.prog /\ s.prog \in Progs
           /\ ~Hears(s.prog[1]) => Waits(t)
  <1>1. IsState(s) /\ Orderly(p, s.prog) /\ s.prog \in Progs /\ Waits(s)
    BY DEF PartyOK, Orderly
  <1>2. /\ IsState(t) /\ t.prog = Tail(s.prog) /\ t.calls = s.calls /\ t.mem = s.mem
        /\ t.status = s.status
    BY <1>1 DEF Past, IsState, Fields
  <1>3. Head(s.prog) = s.prog[1] /\ 1 \in DOMAIN s.prog
    BY <1>1 DEF Progs
  <1>4. /\ Orderly(p, t.prog)
        /\ Answered(s.prog, 0) /\ ~Hears(s.prog[1]) => Answered(t.prog, 0)
        /\ NoReveal(s.prog) => NoReveal(t.prog)
    BY <1>1, <1>2, OrderlyTail
  <1> QED BY <1>1, <1>2, <1>3, <1>4 DEF Waits

\* A message of the right type is put in its register.
LEMMA TakenOK ==
    ASSUME NEW p, NEW s, PartyOK(p, s), s.status = "running", s.prog # <<>>,
           Head(s.prog).op = "recv", NEW x, NEW u, u = Put(Past(s), Head(s.prog).reg, x)
    PROVE  PartyOK(p, u)
  <1>1. PICK t, r : t = Past(s) /\ r = Head(s.prog).reg
    OBVIOUS
  <1>2. /\ IsState(t) /\ t.prog = Tail(s.prog) /\ t.calls = s.calls /\ t.mem = s.mem
        /\ t.status = s.status /\ Orderly(p, t.prog) /\ Head(s.prog) = s.prog[1]
        /\ 1 \in DOMAIN s.prog /\ s.prog \in Progs
        /\ ~Hears(s.prog[1]) => Waits(t)
    BY <1>1, PastOK
  <1>3. /\ IsState(u) /\ u.prog = t.prog /\ u.calls = t.calls /\ u.status = t.status
        /\ DOMAIN u.mem = DOMAIN t.mem \cup {r}
    <2>1. u = Put(t, r, x)
      BY <1>1
    <2> QED BY <1>2, <2>1 DEF Put, IsState, Fields
  <1>4. r # "my_comm"
    BY <1>1, <1>2 DEF PartyOK, Orderly, Cautious
  <1>5. Waits(u)
    <2>1. CASE Hears(s.prog[1])
      <3>1. r = "their_comm"
        BY <1>1, <1>2, <2>1 DEF Hears
      <3> QED BY <1>3, <3>1 DEF Waits, Pending
    <2>2. CASE ~Hears(s.prog[1])
      BY <1>2, <1>3, <1>4, <2>2 DEF Waits, Pending
    <2> QED BY <2>1, <2>2
  <1> QED BY <1>2, <1>3, <1>5 DEF PartyOK

\* After a message of another type the task ends, at party 1 once it has
\* answered with the bytes it was about to send.
LEMMA UnexpectedOK ==
    ASSUME NEW p \in Party, NEW s, PartyOK(p, s), s.status = "running", s.prog # <<>>,
           Head(s.prog).op = "recv", NEW u, u = Unexpected(p, Past(s), Head(s.prog).kind)
    PROVE  PartyOK(p, u)
  <1>1. PICK t, k : t = Past(s) /\ k = Head(s.prog).kind
    OBVIOUS
  <1>2. /\ IsState(t) /\ t.prog = Tail(s.prog) /\ t.calls = s.calls /\ t.mem = s.mem
        /\ t.status = s.status /\ Orderly(p, t.prog) /\ Head(s.prog) = s.prog[1]
        /\ 1 \in DOMAIN s.prog /\ s.prog \in Progs
    BY <1>1, PastOK
  <1>3. ASSUME NEW e, u = Fail(t, e) PROVE PartyOK(p, u)
    <2>1. IsState(u) /\ u.prog = <<>> /\ u.calls = t.calls
      BY <1>2, <1>3 DEF Fail, IsState, Fields
    <2>2. Waits(u) /\ Orderly(p, u.prog)
      BY <2>1, OrderlyEmpty DEF Waits, NoReveal
    <2> QED BY <1>2, <2>1, <2>2 DEF PartyOK
  <1>4. p = 0 \/ p = 1
    BY DEF Party
  <1>5. u = Unexpected(p, t, k)
    BY <1>1
  <1>6. CASE k # "Bytes" \/ p = 0
    <2>1. u = Fail(t, "panic") \/ u = Fail(t, "UnexpectedMessage")
      BY <1>4, <1>5, <1>6 DEF Unexpected
    <2> QED BY <1>3, <2>1
  <1>7. CASE k = "Bytes" /\ p = 1
    <2>1. IsAnswer(s.prog, 1 + 1)
      BY <1>1, <1>2, <1>7 DEF PartyOK, Orderly
    <2>2. PICK a, c : a = s.prog[2] /\ c = Check("unexpected", <<>>)
      OBVIOUS
    <2>3. 2 \in DOMAIN s.prog /\ a.op = "send" /\ a.kind = "Bytes"
      BY <2>1, <2>2 DEF IsAnswer
    <2>4. Head(t.prog) = a /\ t.prog # <<>> /\ a \in Instr /\ 1 \in DOMAIN t.prog
          /\ Head(t.prog) = t.prog[1]
      <3>1. /\ Tail(s.prog) \in Progs /\ Len(Tail(s.prog)) = Len(s.prog) - 1
            /\ Len(s.prog) \in Nat \ {0}
            /\ \A j \in 1..Len(s.prog) - 1 : Tail(s.prog)[j] = s.prog[j + 1]
        BY <1>2, TailFacts
      <3>2. Len(s.prog) >= 2 /\ 1 \in 1..Len(s.prog) - 1 /\ 1 + 1 = 2
        BY <1>2, <2>3, <3>1 DEF Progs
      <3>3. t.prog[1] = a /\ t.prog \in Progs /\ Len(t.prog) >= 1 /\ Len(t.prog) \in Nat
        BY <1>2, <2>2, <3>1, <3>2
      <3>4. t.prog # <<>> /\ 1 \in DOMAIN t.prog
        BY <3>3 DEF Progs
      <3>5. Head(t.prog) = t.prog[1] /\ Head(t.prog) \in Instr
        BY <3>3, <3>4, TailFacts
      <3> QED BY <3>3, <3>4, <3>5
    <2>5. Cautious(a)
      BY <1>2, <2>4 DEF Orderly
    <2>6. Orderly(p, <<a>>)
      BY <2>3, <2>4, <2>5, OrderlyStep
    <2>7. Orderly(p, c)
      BY <2>2, InNames, InLocals, ArgLists, OrderlyDo DEF Check
    <2>8. Orderly(p, <<a>> \o c)
      BY <2>6, <2>7, OrderlyCat
    <2>9. u = [t EXCEPT !.prog = <<Head(@)>> \o c]
      BY <1>5, <1>7, <2>2 DEF Unexpected
    <2>10. /\ IsState(u) /\ u.prog = <<a>> \o c /\ u.calls = t.calls /\ u.mem = t.mem
           /\ u.status = t.status
      BY <1>2, <2>4, <2>9 DEF IsState, Fields
    <2>11. NoReveal(<<a>> \o c)
      <3>1. PICK d : d = [op |-> "unexpected", args |-> <<>>, res |-> ""]
        OBVIOUS
      <3>2. c = <<d>> /\ d.op = "unexpected"
        BY <2>2, <3>1 DEF Check, Do
      <3>3. <<a>> \in Progs /\ c \in Progs
        BY <2>6, <2>7 DEF Orderly
      <3>4. PICK g, b : g = <<a>> \o c /\ b = <<a>>
        OBVIOUS
      <3>5. /\ DOMAIN g = 1..Len(b) + Len(c)
            /\ \A j \in 1..Len(b) : g[j] = b[j]
            /\ \A j \in 1..Len(c) : g[Len(b) + j] = c[j]
        BY <3>3, <3>4, CatFacts
      <3>6. Len(b) = 1 /\ Len(c) = 1 /\ b[1] = a /\ c[1] = d
        BY <3>2, <3>4
      <3>7. DOMAIN g = 1..2 /\ g[1] = a /\ g[2] = d
        <4>1. g[1 + 1] = c[1]
          BY <3>5, <3>6
        <4> QED BY <3>5, <3>6, <4>1
      <3>8. ~Reveals(a) /\ ~Reveals(d)
        BY <2>3, <3>2 DEF Reveals
      <3>9. \A j \in 1..2 : j = 1 \/ j = 2
        OBVIOUS
      <3>10. NoReveal(g)
        BY <3>7, <3>8, <3>9 DEF NoReveal
      <3> QED BY <3>4, <3>10
    <2>12. Waits(u)
      BY <2>10, <2>11 DEF Waits
    <2> QED BY <1>2, <2>8, <2>10, <2>12 DEF PartyOK
  <1> QED BY <1>4, <1>6, <1>7

LEMMA FailOK ==
    ASSUME NEW p, NEW s, PartyOK(p, s), NEW e
    PROVE  PartyOK(p, Fail(s, e))
  <1>1. PICK u : u = Fail(s, e)
    OBVIOUS
  <1>2. IsState(u) /\ u.prog = <<>> /\ u.calls = s.calls
    BY <1>1 DEF Fail, IsState, Fields, PartyOK
  <1>3. Waits(u) /\ Orderly(p, u.prog)
    BY <1>2, OrderlyEmpty DEF Waits, NoReveal
  <1>4. PartyOK(p, u)
    BY <1>2, <1>3 DEF PartyOK
  <1> QED BY <1>1, <1>4

LEMMA BeginOK ==
    ASSUME NEW p \in Party, NEW s, PartyOK(p, s), s.status = "running", s.prog = <<>>,
           s.calls # <<>>, NEW past, past = [s EXCEPT !.calls = Tail(@), !.mem = <<>>],
           NEW call, call = Head(s.calls)
    PROVE  /\ call.op \in Generators =>
                 PartyOK(p, Advance(p, [past EXCEPT !.prog = Program(p, s.lg, call)]))
           /\ call.op \notin Generators => PartyOK(p, LocalCall(p, past, call))
  <1>1. IsState(s) /\ s.calls \in Seq(Calls)
    BY DEF PartyOK
  <1>2. call \in Calls /\ Tail(s.calls) \in Seq(Calls)
    BY <1>1
  <1>3. /\ IsState(past) /\ past.calls = Tail(s.calls) /\ past.mem = <<>>
        /\ past.prog = <<>> /\ past.status = "running"
    <2>1. PICK r : r = [s EXCEPT !.calls = Tail(@)]
      OBVIOUS
    <2>2. /\ IsState(r) /\ r.calls = Tail(s.calls) /\ r.prog = <<>> /\ r.status = "running"
      BY <1>1, <2>1 DEF IsState, Fields
    <2>3. past = [r EXCEPT !.mem = <<>>]
      BY <2>1
    <2> QED BY <2>2, <2>3 DEF IsState, Fields
  <1>4. ASSUME call.op \in Generators
        PROVE  PartyOK(p, Advance(p, [past EXCEPT !.prog = Program(p, s.lg, call)]))
    <2>1. PICK g : g = Program(p, s.lg, call)
      OBVIOUS
    <2>2. Orderly(p, g)
      BY <1>2, <1>4, <2>1, OrderlyProgram
    <2>3. PICK t : t = [past EXCEPT !.prog = g]
      OBVIOUS
    <2>4. /\ IsState(t) /\ t.prog = g /\ t.calls = past.calls /\ t.mem = <<>>
          /\ t.status = "running"
      BY <1>3, <2>3 DEF IsState, Fields
    <2>5. PartyOK(p, t)
      BY <1>2, <1>3, <2>2, <2>4 DEF PartyOK, Waits, Pending
    <2> QED BY <2>1, <2>3, <2>5, AdvanceOK
  <1>5. ASSUME call.op \notin Generators PROVE PartyOK(p, LocalCall(p, past, call))
    BY <1>2, <1>3, <1>5, LocalCallOK
  <1> QED BY <1>4, <1>5

LEMMA RoundsStep ==
    ASSUME RoundsInv, [Next]_lgVars
    PROVE  RoundsInv'
  <1>1. CASE UNCHANGED lgVars
    BY <1>1 DEF RoundsInv, lgVars
  <1>2. ASSUME NEW p \in Party, NEW u, PartyOK(p, u), party' = [party EXCEPT ![p] = u]
        PROVE  RoundsInv'
    BY <1>2 DEF RoundsInv
  <1>3. ASSUME NEW p \in Party, Step(p) PROVE RoundsInv'
    <2>1. PICK s : s = party[p]
      OBVIOUS
    <2>2. PartyOK(p, s)
      BY <2>1 DEF RoundsInv
    <2>3. CASE Begin(p)
      <3>1. PICK past, call : /\ past = [s EXCEPT !.calls = Tail(@), !.mem = <<>>]
                              /\ call = Head(s.calls)
        OBVIOUS
      <3>2. PICK u : u = IF call.op \in Generators
                         THEN Advance(p, [past EXCEPT !.prog = Program(p, s.lg, call)])
                         ELSE LocalCall(p, past, call)
        OBVIOUS
      <3>3. s.status = "running" /\ s.prog = <<>> /\ s.calls # <<>>
        BY <2>1, <2>3 DEF Begin
      <3>4. party' = [party EXCEPT ![p] = u]
        BY <2>1, <2>3, <3>1, <3>2 DEF Begin
      <3>5. PartyOK(p, u)
        BY <2>2, <3>1, <3>2, <3>3, BeginOK
      <3> QED BY <1>2, <3>4, <3>5
    <2>4. ASSUME NEW m, Transmit(p, m) PROVE RoundsInv'
      <3>1. PICK t : t = Past(s)
        OBVIOUS
      <3>2. s.status = "running" /\ s.prog # <<>> /\ Head(s.prog).op = "send"
        BY <2>1, <2>4 DEF Transmit, At
      <3>3. /\ IsState(t) /\ t.prog = Tail(s.prog) /\ t.calls = s.calls /\ t.mem = s.mem
            /\ t.status = s.status /\ Orderly(p, t.prog) /\ Head(s.prog) = s.prog[1]
            /\ ~Hears(s.prog[1]) => Waits(t)
        BY <2>2, <3>1, <3>2, PastOK
      <3>4. PartyOK(p, t)
        BY <2>2, <3>2, <3>3 DEF PartyOK, Hears
      <3>5. PartyOK(p, Advance(p, t))
        BY <3>4, AdvanceOK
      <3>6. party' = [party EXCEPT ![p] = Advance(p, t)]
        BY <2>1, <2>4, <3>1 DEF Transmit
      <3> QED BY <1>2, <3>5, <3>6
    <2>5. CASE Send(p)
      BY <2>4, <2>5 DEF Send
    <2>6. CASE SendWrong(p)
      <3>1. PICK m : Transmit(p, m)
        BY <2>6 DEF SendWrong
      <3> QED BY <2>4, <3>1
    <2>7. CASE Receive(p)
      <3>1. s.status = "running" /\ s.prog # <<>> /\ Head(s.prog).op = "recv"
        BY <2>1, <2>7 DEF Receive, At
      <3>2. PICK u, m : /\ m = Head(wire[p])
                        /\ u = IF m.kind = Head(s.prog).kind
                               THEN Advance(p, Put(Past(s), Head(s.prog).reg, m.body))
                               ELSE Unexpected(p, Past(s), Head(s.prog).kind)
        OBVIOUS
      <3>3. party' = [party EXCEPT ![p] = u]
        BY <2>1, <2>7, <3>2 DEF Receive
      <3>4. CASE m.kind = Head(s.prog).kind
        <4>1. PICK t : t = Put(Past(s), Head(s.prog).reg, m.body)
          OBVIOUS
        <4>2. PartyOK(p, t)
          BY <2>2, <3>1, <4>1, TakenOK
        <4>3. PartyOK(p, Advance(p, t))
          BY <4>2, AdvanceOK
        <4>4. u = Advance(p, t)
          BY <3>2, <3>4, <4>1
        <4> QED BY <1>2, <3>3, <4>3, <4>4
      <3>5. CASE m.kind # Head(s.prog).kind
        <4>1. u = Unexpected(p, Past(s), Head(s.prog).kind)
          BY <3>2, <3>5
        <4>2. PartyOK(p, u)
          BY <2>2, <3>1, <4>1, UnexpectedOK
        <4> QED BY <1>2, <3>3, <4>2
      <3> QED BY <3>4, <3>5
    <2>8. CASE Disconnected(p)
      <3>1. party' = [party EXCEPT ![p] = Fail(s, "panic")]
        BY <2>1, <2>8 DEF Disconnected
      <3>2. PartyOK(p, Fail(s, "panic"))
        BY <2>2, FailOK
      <3> QED BY <1>2, <3>1, <3>2
    <2>9. CASE SendFails(p)
      <3>1. party' = [party EXCEPT ![p] = Fail(s, "SendMessage")]
        BY <2>1, <2>9 DEF SendFails
      <3>2. PartyOK(p, Fail(s, "SendMessage"))
        BY <2>2, FailOK
      <3> QED BY <1>2, <3>1, <3>2
    <2>10. CASE Finish(p)
      <3>1. PICK u : u = [s EXCEPT !.status = "done"]
        OBVIOUS
      <3>2. party' = [party EXCEPT ![p] = u] /\ s.prog = <<>>
        BY <2>1, <2>10, <3>1 DEF Finish
      <3>3. /\ IsState(u) /\ u.prog = s.prog /\ u.calls = s.calls /\ u.mem = s.mem
        BY <2>2, <3>1 DEF PartyOK, IsState, Fields
      <3>4. PartyOK(p, u)
        BY <2>2, <3>2, <3>3 DEF PartyOK, Waits
      <3> QED BY <1>2, <3>2, <3>4
    <2> QED BY <1>3, <2>3, <2>5, <2>6, <2>7, <2>8, <2>9, <2>10 DEF Step
  <1> QED BY <1>1, <1>3 DEF Next

LEMMA RoundsInit ==
    ASSUME Init
    PROVE  RoundsInv
  <1>1. PICK sc \in Scenarios :
          party = [p \in Party |->
                [lg |-> NewLowGear, prep |-> get_offline_result(NewLowGear),
                 used |-> <<>>, handed |-> <<>>, calls |-> sc.calls[p], prog |-> <<>>,
                 mem |-> <<>>, drawn |-> 0, status |-> "running"]]
    BY DEF Init
  <1>2. ASSUME NEW p \in Party PROVE PartyOK(p, party[p])
    <2>1. PICK s : s = party[p]
      OBVIOUS
    <2>2. PICK x, y : x = NewLowGear /\ y = get_offline_result(NewLowGear)
      OBVIOUS
    <2>3. s = [lg |-> x, prep |-> y, used |-> <<>>, handed |-> <<>>, calls |-> sc.calls[p],
               prog |-> <<>>, mem |-> <<>>, drawn |-> 0, status |-> "running"]
      BY <1>1, <2>1, <2>2
    <2>4. /\ IsState(s) /\ s.prog = <<>> /\ s.calls = sc.calls[p] /\ s.mem = <<>>
          /\ s.status = "running"
      BY <2>3 DEF IsState, Fields
    <2>5. s.calls \in Seq(Calls)
      BY <2>4, CallsAssumption
    <2>6. Waits(s) /\ Orderly(p, s.prog)
      BY <2>4, OrderlyEmpty DEF Waits, NoReveal
    <2> QED BY <2>1, <2>4, <2>5, <2>6 DEF PartyOK
  <1> QED BY <1>1, <1>2 DEF RoundsInv

\* What a step may send in this state
LEMMA RevealAllowed ==
    ASSUME RoundsInv, NEW p \in Party, At(p, "send"), Head(party[p].prog).kind = "ScalarBatch",
           "my_comm" \in DOMAIN party[p].mem
    PROVE  "their_comm" \in DOMAIN party[p].mem
  <1> SUFFICES ASSUME "their_comm" \notin DOMAIN party[p].mem PROVE FALSE
    OBVIOUS
  <1>1. PICK s : s = party[p]
    OBVIOUS
  <1>2. PartyOK(p, s) /\ Pending(s.mem) /\ s.prog # <<>> /\ Head(s.prog).op = "send"
        /\ Head(s.prog).kind = "ScalarBatch"
    BY <1>1 DEF RoundsInv, Pending, At
  <1>3. s.prog \in Progs /\ (Answered(s.prog, 0) \/ NoReveal(s.prog))
    BY <1>2 DEF PartyOK, Orderly, Waits
  <1>4. 1 \in DOMAIN s.prog /\ Head(s.prog) = s.prog[1] /\ DOMAIN s.prog = 1..Len(s.prog)
    BY <1>2, <1>3 DEF Progs
  <1>5. Reveals(s.prog[1]) /\ ~Hears(s.prog[1])
    BY <1>2, <1>4 DEF Reveals, Hears
  <1>6. Answered(s.prog, 0)
    BY <1>3, <1>4, <1>5 DEF NoReveal
  <1>7. PICK l \in 1..Len(s.prog) : Hears(s.prog[l])
           /\ \A k \in DOMAIN s.prog : 0 < k /\ k < l => ~Reveals(s.prog[k])
    BY <1>4, <1>6 DEF Answered
  <1>8. l # 1
    BY <1>5, <1>7
  <1> QED BY <1>4, <1>5, <1>7, <1>8

\* In every behaviour, with any key, any calls and one message of either party
\* altered or not, a party that committed to a batch of scalars sends it only
\* once it holds the counterparty's commitment (commit_reveal.rs).
THEOREM RevealAfterCommitted == Spec => RevealAfterCommit
  <1>1. Init => RoundsInv
    BY RoundsInit
  <1>2. RoundsInv /\ [Next]_lgVars => RoundsInv'
    BY RoundsStep
  <1> DEFINE A == \A p \in Party :
         (At(p, "send") /\ party'[p] # party[p] /\ wire'[1 - p] # wire[1 - p]) =>
             LET i == Head(party[p].prog)
                 mem == party[p].mem
             IN  ("my_comm" \in DOMAIN mem /\ i.kind = "ScalarBatch"
                  /\ commit_scalars(mem[i.reg]) = mem.my_comm) => "their_comm" \in DOMAIN mem
  <1>3. RoundsInv => A
    BY RevealAllowed
  <1>4. RoundsInv /\ [Next]_lgVars => [A]_lgVars
    BY <1>3
  <1>5. RevealAfterCommit <=> [][A]_lgVars
    BY DEF RevealAfterCommit
  <1> HIDE DEF A
  <1> QED BY <1>1, <1>2, <1>4, <1>5, PTL DEF Spec

---------------------------------------------------------------------------
(* Lock-step                                                               *)
(*                                                                         *)
(* When both parties make the same calls and nobody deviates, the messages *)
(* of an exchange are all that ties the parties' tasks together, and what  *)
(* each computes does not depend on how they interleave.  So the honest    *)
(* behaviours are those of a joint state J, a state per party, that moves  *)
(* in lock-step: a local step of both, or a whole exchange.                *)

\* The same request of both parties yields values that fit together.
FitsOne(h, g) ==
    /\ h.req = g.req /\ h.req \in Requests
    /\ h.req.pool = "triplets" => ValidTriples(h.got, g.got)
    /\ h.req.pool = "inverse_pairs" => ValidPairs(h.got, g.got)
    /\ h.req.pool = "bits" => ValidBits(h.got.bit, g.got.bit)
    /\ h.req.pool = "values" => AllValid(h.got.val, g.got.val)
    /\ h.req.pool = "mask" /\ h.req.owner = 0 => ValidMasks(h.got.mask, h.got.share, g.got.share)
    /\ h.req.pool = "mask" /\ h.req.owner = 1 => ValidMasks(g.got.mask, g.got.share, h.got.share)

IsList(x) == \E S : x \in Seq(S)

FitsAll(x, y) ==
    /\ IsList(x) /\ IsList(y) /\ Len(x) = Len(y)
    /\ \A k \in DOMAIN x : FitsOne(x[k], y[k])

\* What holds of a joint state whatever its program
IsJoint(J) ==
    /\ J = [p \in Party |-> J[p]]
    /\ \A p \in Party : IsState(J[p]) /\ J[p].status = "running" /\ J[p].drawn \in Nat
    /\ J[0].calls = J[1].calls
    /\ FitsAll(J[0].handed, J[1].handed)

SetProg(s, g) == [s EXCEPT !.prog = g]

\* J with program R[p] at party p, and one joint program after another
With(J, R) == [p \in Party |-> SetProg(J[p], R[p])]
Cat(G, H) == [p \in Party |-> G[p] \o H[p]]
JProgs == [Party -> Progs]

Flip(X) == [p \in Party |-> X[1 - p]]

\* Both parties are at the same local step, or at the same exchange.
SameStep(A) == Head(A[0].prog) = Head(A[1].prog) /\ Head(A[0].prog).op \notin Network
AtExchange(A, kind, out, in) ==
    /\ out # in /\ \A p \in Party : out \in DOMAIN A[p].mem
    /\ \E R \in JProgs : \A p \in Party : A[p].prog = exchange(p, kind, out, in) \o R[p]

Moving(A) ==
    /\ IsJoint(A) /\ \A p \in Party : A[p].prog \in Progs /\ A[p].prog # <<>>
    /\ SameStep(A) \/ \E kind, out, in \in Names : AtExchange(A, kind, out, in)

\* An exchange: each party receives what the other has in register out.
Swap(A) ==
    [p \in Party |-> Put(Past(Past(A[p])), Head(A[1].prog).reg,
                         A[1 - p].mem[Head(A[0].prog).reg])]

Micro(A) ==
    IF Head(A[0].prog).op \in Network THEN Swap(A) ELSE [p \in Party |-> RunStep(p, A[p])]

LEMMA PartyIs ==
    /\ 0 \in Party /\ 1 \in Party
    /\ \A p \in Party : (p = 0 \/ p = 1) /\ 1 - p \in Party /\ 1 - (1 - p) = p
    /\ 1 - 0 = 1 /\ 1 - 1 = 0
  BY DEF Party

LEMMA SetProgFacts ==
    ASSUME NEW s, IsState(s), NEW g, NEW t, t = SetProg(s, g)
    PROVE  /\ IsState(t) /\ t.prog = g /\ t.lg = s.lg /\ t.prep = s.prep /\ t.used = s.used
           /\ t.handed = s.handed /\ t.calls = s.calls /\ t.mem = s.mem
           /\ t.drawn = s.drawn /\ t.status = s.status
           /\ \A h : SetProg(t, h) = SetProg(s, h)
  <1>1. /\ IsState(t) /\ t.prog = g /\ t.lg = s.lg /\ t.prep = s.prep /\ t.used = s.used
        /\ t.handed = s.handed /\ t.calls = s.calls /\ t.mem = s.mem
        /\ t.drawn = s.drawn /\ t.status = s.status
    BY DEF SetProg, IsState, Fields
  <1>2. ASSUME NEW h PROVE SetProg(t, h) = SetProg(s, h)
    BY DEF SetProg, IsState, Fields
  <1> QED BY <1>1, <1>2

\* The program is no part of what makes a joint state.
LEMMA WithJoint ==
    ASSUME NEW J, IsJoint(J), NEW R
    PROVE  /\ IsJoint(With(J, R))
           /\ \A p \in Party : /\ With(J, R)[p] = SetProg(J[p], R[p])
                               /\ With(J, R)[p].prog = R[p]
                               /\ With(J, R)[p].status = "running"
                               /\ With(J, R)[p].mem = J[p].mem
  <1>1. PICK A : A = With(J, R)
    OBVIOUS
  <1>2. \A p \in Party : A[p] = SetProg(J[p], R[p])
    BY <1>1 DEF With
  <1>3. \A p \in Party : IsState(J[p]) /\ J[p].status = "running" /\ J[p].drawn \in Nat
    BY DEF IsJoint
  <1>4. ASSUME NEW p \in Party
        PROVE  /\ IsState(A[p]) /\ A[p].prog = R[p] /\ A[p].handed = J[p].handed
               /\ A[p].calls = J[p].calls /\ A[p].drawn = J[p].drawn
               /\ A[p].status = "running" /\ A[p].mem = J[p].mem
    BY <1>2, <1>3, SetProgFacts
  <1>5. A = [p \in Party |-> A[p]]
    BY <1>1 DEF With
  <1>6. IsJoint(A)
    BY <1>3, <1>4, <1>5, PartyIs DEF IsJoint
  <1> QED BY <1>1, <1>2, <1>4, <1>6

---------------------------------------------------------------------------
(* The data of a joint state                                               *)

\* n shares at each party, sharing the n scalars v
Col(X, k) == [p \in Party |-> X[p][k]]

AuthBatch(X, v, n) ==
    /\ X \in [Party -> [1..n -> ShareOf(F)]] /\ v \in [1..n -> F]
    /\ \A k \in 1..n : Authentic(Col(X, k), v[k], F)

Joined(x, y) == [p \in Party |-> IF p = 0 THEN x ELSE y]

\* The pools of a kind at both parties, of length n
TriplesFit(t, u, n) ==
    /\ t = [a |-> t.a, b |-> t.b, c |-> t.c] /\ u = [a |-> u.a, b |-> u.b, c |-> u.c]
    /\ \E x, y \in [1..n -> F] :
          /\ AuthBatch(Joined(t.a, u.a), x, n) /\ AuthBatch(Joined(t.b, u.b), y, n)
          /\ AuthBatch(Joined(t.c, u.c), PtMul(x, y), n)

PairsFit(t, u, n) ==
    /\ t = [lhs |-> t.lhs, rhs |-> t.rhs] /\ u = [lhs |-> u.lhs, rhs |-> u.rhs]
    /\ \E x, y \in [1..n -> F] :
          /\ AuthBatch(Joined(t.lhs, u.lhs), x, n) /\ AuthBatch(Joined(t.rhs, u.rhs), y, n)
          /\ \A k \in 1..n : Times(x[k], y[k]) = One

BitsFit(x, y, n) == \E v \in [1..n -> F] :
    AuthBatch(Joined(x, y), v, n) /\ \A k \in 1..n : v[k] \in {Zero, One}

ValuesFit(x, y, n) == \E v \in [1..n -> F] : AuthBatch(Joined(x, y), v, n)

MasksFit(mask, own, theirs, n) == mask \in [1..n -> F] /\ AuthBatch(Joined(own, theirs), mask, n)

\* The keys of the counterparty
KeysSet(p, lg) ==
    lg.other_pk = Some(1 - p) /\ lg.other_mac_enc = Some(encrypt(1 - p, set_all(key[1 - p], Slots)))

LgFields == {"other_pk", "other_mac_enc", "triples", "inverse_tuples", "shared_bits",
             "shared_randomness", "input_masks"}
IsLg(lg) == DOMAIN lg = LgFields /\ lg = [f \in LgFields |-> lg[f]]

MaskFields == {"my_masks", "my_mask_shares", "their_masks"}
IsMasks(m) == DOMAIN m = MaskFields /\ m = [f \in MaskFields |-> m[f]]

LgOK(L) ==
    /\ \A p \in Party : IsLg(L[p]) /\ IsMasks(L[p].input_masks)
    /\ \/ \A p \in Party : L[p].other_pk = None
       \/ \A p \in Party : KeysSet(p, L[p])
    /\ \E n \in Nat : TriplesFit(L[0].triples, L[1].triples, n)
    /\ \E n \in Nat : PairsFit(L[0].inverse_tuples, L[1].inverse_tuples, n)
    /\ \E n \in Nat : BitsFit(L[0].shared_bits, L[1].shared_bits, n)
    /\ \E n \in Nat : ValuesFit(L[0].shared_randomness, L[1].shared_randomness, n)
    /\ \A p \in Party : \E n \in Nat :
          MasksFit(L[p].input_masks.my_masks, L[p].input_masks.my_mask_shares,
                   L[1 - p].input_masks.their_masks, n)

PrepOK(P) ==
    /\ \A p \in Party : P[p] = [triplets |-> P[p].triplets, inverse_pairs |-> P[p].inverse_pairs,
                                bits |-> P[p].bits, values |-> P[p].values,
                                local |-> P[p].local, theirs |-> P[p].theirs]
    /\ \A p \in Party : /\ P[p].bits = [bit |-> P[p].bits.bit]
                        /\ P[p].values = [val |-> P[p].values.val]
                        /\ P[p].local = [mask |-> P[p].local.mask, share |-> P[p].local.share]
                        /\ P[p].theirs = [share |-> P[p].theirs.share]
    /\ \E n \in Nat : TriplesFit(P[0].triplets, P[1].triplets, n)
    /\ \E n \in Nat : PairsFit(P[0].inverse_pairs, P[1].inverse_pairs, n)
    /\ \E n \in Nat : BitsFit(P[0].bits.bit, P[1].bits.bit, n)
    /\ \E n \in Nat : ValuesFit(P[0].values.val, P[1].values.val, n)
    /\ \A p \in Party : \E n \in Nat :
          MasksFit(P[p].local.mask, P[p].local.share, P[1 - p].theirs.share, n)

Lg(J) == [p \in Party |-> J[p].lg]
Prep(J) == [p \in Party |-> J[p].prep]

\* Where a call may leave the parties: between calls with all that they hold in
\* order, or stopped by the same error.
Between(A) ==
    /\ IsJoint(A) /\ \A p \in Party : A[p].prog = <<>>
    /\ A[0].calls \in Seq(Calls) /\ LgOK(Lg(A)) /\ PrepOK(Prep(A))

EndedBoth(A) ==
    /\ A = [p \in Party |-> A[p]]
    /\ \A p \in Party : IsState(A[p]) /\ A[p].prog = <<>>
    /\ A[0].calls = A[1].calls /\ A[0].status = A[1].status
    /\ A[0].status \in {"done", "panic", "NotSetup"}
    /\ A[0].status = "done" => LgOK(Lg(A))
    /\ FitsAll(A[0].handed, A[1].handed)

\* From A both parties get there in lock-step.
Safe(A) ==
    \E W : /\ A \in W
           /\ \A B \in W : Between(B) \/ EndedBoth(B) \/ (Moving(B) /\ Micro(B) \in W)

LEMMA SafeEnd ==
    ASSUME NEW A, Between(A) \/ EndedBoth(A)
    PROVE  Safe(A)
  <1>1. /\ A \in {A}
        /\ \A B \in {A} : Between(B) \/ EndedBoth(B) \/ (Moving(B) /\ Micro(B) \in {A})
    OBVIOUS
  <1> QED BY <1>1 DEF Safe

LEMMA SafeMicro ==
    ASSUME NEW A, Moving(A), Safe(Micro(A))
    PROVE  Safe(A)
  <1>1. PICK W : /\ Micro(A) \in W
                 /\ \A B \in W : Between(B) \/ EndedBoth(B) \/ (Moving(B) /\ Micro(B) \in W)
    BY DEF Safe
  <1>2. PICK V : V = W \cup {A}
    OBVIOUS
  <1>3. /\ A \in V
        /\ \A B \in V : Between(B) \/ EndedBoth(B) \/ (Moving(B) /\ Micro(B) \in V)
    BY <1>1, <1>2
  <1> QED BY <1>3 DEF Safe

LEMMA SafeGoesOn ==
    ASSUME NEW A, Safe(A)
    PROVE  Between(A) \/ EndedBoth(A) \/ (Moving(A) /\ Safe(Micro(A)))
  <1>1. PICK W : /\ A \in W
                 /\ \A B \in W : Between(B) \/ EndedBoth(B) \/ (Moving(B) /\ Micro(B) \in W)
    BY DEF Safe
  <1>2. \A B \in W : Safe(B)
    BY <1>1 DEF Safe
  <1> QED BY <1>1, <1>2

---------------------------------------------------------------------------
(* Running a joint program                                                 *)

\* G takes J to K: what follows is safe from K, so it is safe from J.
Exec(G, J, K) ==
    \A R \in JProgs : Safe(With(K, R)) => Safe(With(J, Cat(G, R)))

\* G ends both tasks with the same error.
Fails(G, J) == \A R \in JProgs : Safe(With(J, Cat(G, R)))

\* Register r holds X[p] at party p.
Holds(J, r, X) == \A p \in Party : r \in DOMAIN J[p].mem /\ J[p].mem[r] = X[p]

Keeps(J, K, S) == \A r, X : r \notin S /\ Holds(J, r, X) => Holds(K, r, X)

\* G takes J to K, writes the registers S and leaves L in the LowGears.
Gives(G, J, K, S, L) ==
    /\ G \in JProgs /\ IsJoint(K) /\ Exec(G, J, K)
    /\ Keeps(J, K, S) /\ Lg(K) = L
    /\ \A p \in Party : K[p].prep = J[p].prep /\ K[p].calls = J[p].calls

LEMMA CatProgs ==
    ASSUME NEW G \in JProgs, NEW H \in JProgs
    PROVE  /\ Cat(G, H) \in JProgs
           /\ \A R \in JProgs : Cat(Cat(G, H), R) = Cat(G, Cat(H, R))
  <1>1. \A a, b \in Progs : a \o b \in Progs
    BY DEF Progs
  <1>2. \A a, b, c \in Progs : (a \o b) \o c = a \o (b \o c)
    BY DEF Progs
  <1>3. Cat(G, H) \in JProgs
    BY <1>1 DEF Cat, JProgs
  <1>4. ASSUME NEW R \in JProgs PROVE Cat(Cat(G, H), R) = Cat(G, Cat(H, R))
    <2>1. \A p \in Party : G[p] \in Progs /\ H[p] \in Progs /\ R[p] \in Progs
      BY DEF JProgs
    <2>2. \A p \in Party : (G[p] \o H[p]) \o R[p] = G[p] \o (H[p] \o R[p])
      BY <1>2, <2>1
    <2> QED BY <2>2 DEF Cat
  <1> QED BY <1>3, <1>4

LEMMA GivesCat ==
    ASSUME NEW G, NEW H, NEW J, NEW K, NEW M, NEW S, NEW T, NEW L, NEW N,
           Gives(G, J, K, S, L), Gives(H, K, M, T, N)
    PROVE  Gives(Cat(G, H), J, M, S \cup T, N)
  <1>1. G \in JProgs /\ H \in JProgs
    BY DEF Gives
  <1>2. Exec(Cat(G, H), J, M)
    <2> SUFFICES ASSUME NEW R \in JProgs, Safe(With(M, R))
                 PROVE  Safe(With(J, Cat(Cat(G, H), R)))
      BY DEF Exec
    <2>1. Safe(With(K, Cat(H, R))) /\ Cat(H, R) \in JProgs
      BY <1>1, CatProgs DEF Gives, Exec
    <2>2. Safe(With(J, Cat(G, Cat(H, R))))
      BY <2>1 DEF Gives, Exec
    <2> QED BY <1>1, <2>2, CatProgs
  <1>3. Keeps(J, M, S \cup T)
    BY DEF Gives, Keeps
  <1> QED BY <1>1, <1>2, <1>3, CatProgs DEF Gives

LEMMA FailsCat ==
    ASSUME NEW G \in JProgs, NEW H \in JProgs, NEW J, Fails(G, J)
    PROVE  Fails(Cat(G, H), J)
  <1> SUFFICES ASSUME NEW R \in JProgs PROVE Safe(With(J, Cat(Cat(G, H), R)))
    BY DEF Fails
  <1> QED BY CatProgs DEF Fails

LEMMA GivesFails ==
    ASSUME NEW G, NEW H \in JProgs, NEW J, NEW K, NEW S, NEW L, Gives(G, J, K, S, L), Fails(H, K)
    PROVE  Fails(Cat(G, H), J)
  <1> SUFFICES ASSUME NEW R \in JProgs PROVE Safe(With(J, Cat(Cat(G, H), R)))
    BY DEF Fails
  <1>1. G \in JProgs
    BY DEF Gives
  <1>2. Safe(With(K, Cat(H, R))) /\ Cat(H, R) \in JProgs
    BY CatProgs DEF Fails
  <1>3. Safe(With(J, Cat(G, Cat(H, R))))
    BY <1>2 DEF Gives, Exec
  <1> QED BY <1>1, <1>3, CatProgs

\* The joint program of one local step
Local(i) == [p \in Party |-> <<i>>]

LEMMA LocalRest ==
    ASSUME NEW i \in Instr, NEW R \in JProgs
    PROVE  /\ Local(i) \in JProgs
           /\ \A p \in Party : LET g == Cat(Local(i), R)[p]
                               IN  g \in Progs /\ g # <<>> /\ Head(g) = i /\ Tail(g) = R[p]
  <1>1. \A r \in Progs : /\ <<i>> \in Progs /\ <<i>> \o r \in Progs /\ <<i>> \o r # <<>>
                         /\ Head(<<i>> \o r) = i /\ Tail(<<i>> \o r) = r
    BY DEF Progs
  <1>2. \A p \in Party : R[p] \in Progs /\ Cat(Local(i), R)[p] = <<i>> \o R[p]
    BY DEF JProgs, Cat, Local
  <1>3. Local(i) \in JProgs
    BY <1>1 DEF JProgs, Local, Progs
  <1> QED BY <1>1, <1>2, <1>3

\* The step that With(J, Cat(Local(i), R)) takes
LEMMA LocalMoves ==
    ASSUME NEW J, IsJoint(J), NEW i \in Instr, i.op \notin Network, NEW R \in JProgs,
           NEW A, A = With(J, Cat(Local(i), R))
    PROVE  /\ Moving(A)
           /\ Micro(A) = [p \in Party |-> Compute(p, SetProg(J[p], R[p]), i)]
  <1>1. PICK G : G = Cat(Local(i), R)
    OBVIOUS
  <1>2. \A p \in Party : G[p] \in Progs /\ G[p] # <<>> /\ Head(G[p]) = i /\ Tail(G[p]) = R[p]
    BY <1>1, LocalRest
  <1>3. /\ IsJoint(A)
        /\ \A p \in Party : A[p] = SetProg(J[p], G[p]) /\ A[p].prog = G[p] /\ A[p].status = "running"
    BY <1>1, WithJoint
  <1>4. Moving(A)
    BY <1>2, <1>3, PartyIs DEF Moving, SameStep
  <1>5. ASSUME NEW p \in Party PROVE RunStep(p, A[p]) = Compute(p, SetProg(J[p], R[p]), i)
    <2>1. IsState(J[p])
      BY DEF IsJoint
    <2>2. SetProg(A[p], Tail(A[p].prog)) = SetProg(J[p], R[p])
      BY <1>2, <1>3, <2>1, SetProgFacts
    <2>3. [A[p] EXCEPT !.prog = Tail(@)] = SetProg(A[p], Tail(A[p].prog))
      BY DEF SetProg
    <2>4. RunStep(p, A[p]) = Compute(p, [A[p] EXCEPT !.prog = Tail(@)], Head(A[p].prog))
      BY <1>3 DEF RunStep
    <2> QED BY <1>2, <1>3, <2>2, <2>3, <2>4
  <1>6. Micro(A) = [p \in Party |-> RunStep(p, A[p])]
    BY <1>2, <1>3, PartyIs DEF Micro
  <1> QED BY <1>4, <1>5, <1>6

LEMMA ExecLocal ==
    ASSUME NEW J, IsJoint(J), NEW K, NEW i \in Instr, i.op \notin Network,
           \A p \in Party : \A g : Compute(p, SetProg(J[p], g), i) = SetProg(K[p], g)
    PROVE  Local(i) \in JProgs /\ Exec(Local(i), J, K)
  <1>1. \A R \in JProgs : Local(i) \in JProgs
    BY LocalRest
  <1>2. [p \in Party |-> <<>>] \in JProgs
    BY DEF JProgs, Progs
  <1>3. ASSUME NEW R \in JProgs, Safe(With(K, R)) PROVE Safe(With(J, Cat(Local(i), R)))
    <2>1. PICK A : A = With(J, Cat(Local(i), R))
      OBVIOUS
    <2>2. Moving(A) /\ Micro(A) = [p \in Party |-> Compute(p, SetProg(J[p], R[p]), i)]
      BY <2>1, LocalMoves
    <2>3. Micro(A) = With(K, R)
      BY <2>2 DEF With
    <2>4. Safe(A)
      BY <1>3, <2>2, <2>3, SafeMicro
    <2> QED BY <2>1, <2>4
  <1> QED BY <1>1, <1>2, <1>3 DEF Exec

\* Step i computes K from J, whatever follows it.
Makes(J, i, K) == \A p \in Party : \A g : Compute(p, SetProg(J[p], g), i) = SetProg(K[p], g)

LEMMA ExecMakes ==
    ASSUME NEW J, IsJoint(J), NEW K, NEW i \in Instr, i.op \notin Network, Makes(J, i, K)
    PROVE  Local(i) \in JProgs /\ Exec(Local(i), J, K)
  <1>1. \A p \in Party : \A g : Compute(p, SetProg(J[p], g), i) = SetProg(K[p], g)
    BY DEF Makes
  <1> QED BY <1>1, ExecLocal

LEMMA FailLocal ==
    ASSUME NEW J, IsJoint(J), NEW i \in Instr, i.op \notin Network, NEW e \in {"panic", "NotSetup"},
           \A p \in Party : \A g : Compute(p, SetProg(J[p], g), i) = Fail(SetProg(J[p], g), e)
    PROVE  Local(i) \in JProgs /\ Fails(Local(i), J)
  <1>1. \A R \in JProgs : Local(i) \in JProgs
    BY LocalRest
  <1>2. [p \in Party |-> <<>>] \in JProgs
    BY DEF JProgs, Progs
  <1>3. ASSUME NEW R \in JProgs PROVE Safe(With(J, Cat(Local(i), R)))
    <2>1. PICK A : A = With(J, Cat(Local(i), R))
      OBVIOUS
    <2>2. Moving(A) /\ Micro(A) = [p \in Party |-> Compute(p, SetProg(J[p], R[p]), i)]
      BY <2>1, LocalMoves
    <2>3. PICK B : B = Micro(A)
      OBVIOUS
    <2>4. B = [p \in Party |-> Fail(SetProg(J[p], R[p]), e)]
      BY <2>2, <2>3
    <2>5. ASSUME NEW p \in Party
          PROVE  /\ IsState(B[p]) /\ B[p].prog = <<>> /\ B[p].calls = J[p].calls
                 /\ B[p].status = e /\ B[p].handed = J[p].handed
      <3>1. PICK s : s = SetProg(J[p], R[p])
        OBVIOUS
      <3>2. IsState(s) /\ s.calls = J[p].calls /\ s.handed = J[p].handed
        BY <3>1, SetProgFacts DEF IsJoint
      <3>3. B[p] = Fail(s, e)
        BY <2>4, <3>1
      <3> QED BY <3>2, <3>3 DEF Fail, IsState, Fields
    <2>6. B = [p \in Party |-> B[p]]
      BY <2>4
    <2>7. EndedBoth(B)
      BY <2>5, <2>6, PartyIs DEF EndedBoth, IsJoint
    <2>8. Safe(A)
      BY <2>2, <2>3, <2>7, SafeEnd, SafeMicro
    <2> QED BY <2>1, <2>8
  <1> QED BY <1>1, <1>2, <1>3 DEF Fails

---------------------------------------------------------------------------
(* Registers of joint states                                               *)

JPut(J, r, X) == [p \in Party |-> Put(J[p], r, X[p])]
JForget(J, r) == [p \in Party |-> Forget(J[p], r)]
JLg(J, L) == [p \in Party |-> [J[p] EXCEPT !.lg = L[p]]]

LEMMA PutFacts ==
    ASSUME NEW s, IsState(s), NEW r, NEW x, NEW t, t = Put(s, r, x)
    PROVE  /\ IsState(t) /\ t.prog = s.prog /\ t.lg = s.lg /\ t.prep = s.prep /\ t.used = s.used
           /\ t.handed = s.handed /\ t.calls = s.calls /\ t.drawn = s.drawn
           /\ t.status = s.status
           /\ r \in DOMAIN t.mem /\ t.mem[r] = x
           /\ \A q \in DOMAIN s.mem : q \in DOMAIN t.mem /\ (q # r => t.mem[q] = s.mem[q])
           /\ \A g : Put(SetProg(s, g), r, x) = SetProg(t, g)
  <1>1. /\ IsState(t) /\ t.prog = s.prog /\ t.lg = s.lg /\ t.prep = s.prep /\ t.used = s.used
        /\ t.handed = s.handed /\ t.calls = s.calls /\ t.drawn = s.drawn
        /\ t.status = s.status
        /\ t.mem = [q \in DOMAIN s.mem \cup {r} |-> IF q = r THEN x ELSE s.mem[q]]
    BY DEF Put, IsState, Fields
  <1>2. /\ r \in DOMAIN t.mem /\ t.mem[r] = x
        /\ \A q \in DOMAIN s.mem : q \in DOMAIN t.mem /\ (q # r => t.mem[q] = s.mem[q])
    BY <1>1
  <1>3. ASSUME NEW g PROVE Put(SetProg(s, g), r, x) = SetProg(t, g)
    <2>1. PICK m : m = [q \in DOMAIN s.mem \cup {r} |-> IF q = r THEN x ELSE s.mem[q]]
      OBVIOUS
    <2>2. PICK u : u = SetProg(s, g)
      OBVIOUS
    <2>3. IsState(u) /\ u.mem = s.mem
      BY <2>2, SetProgFacts
    <2>4. Put(u, r, x) = [u EXCEPT !.mem = m]
      BY <2>1, <2>3 DEF Put
    <2>5. t = [s EXCEPT !.mem = m]
      BY <2>1 DEF Put
    <2>6. [u EXCEPT !.mem = m] = SetProg(t, g)
      BY <2>2, <2>3, <2>5 DEF SetProg, IsState, Fields
    <2> QED BY <2>2, <2>4, <2>6
  <1> QED BY <1>1, <1>2, <1>3

\* K is J after the parties have put X into register r.
IsPut(J, r, X, K) ==
    /\ IsJoint(K) /\ Holds(K, r, X) /\ Keeps(J, K, {r}) /\ Lg(K) = Lg(J)
    /\ \A p \in Party : /\ K[p].prep = J[p].prep /\ K[p].calls = J[p].calls
                        /\ K[p].used = J[p].used
                        /\ K[p].drawn = J[p].drawn
                        /\ \A g : Put(SetProg(J[p], g), r, X[p]) = SetProg(K[p], g)

LEMMA JPutFacts ==
    ASSUME NEW J, IsJoint(J), NEW r, NEW X, NEW K, K = JPut(J, r, X)
    PROVE  IsPut(J, r, X, K)
  <1>1. \A p \in Party : IsState(J[p]) /\ J[p].status = "running" /\ J[p].drawn \in Nat
    BY DEF IsJoint
  <1>2. ASSUME NEW p \in Party
        PROVE  LET s == J[p]
                   t == K[p]
               IN  /\ IsState(t) /\ t.prog = s.prog /\ t.lg = s.lg /\ t.prep = s.prep
                   /\ t.used = s.used
                   /\ t.handed = s.handed /\ t.calls = s.calls /\ t.drawn = s.drawn
                   /\ t.status = s.status
                   /\ r \in DOMAIN t.mem /\ t.mem[r] = X[p]
                   /\ \A q \in DOMAIN s.mem : q \in DOMAIN t.mem /\ (q # r => t.mem[q] = s.mem[q])
                   /\ \A g : Put(SetProg(s, g), r, X[p]) = SetProg(t, g)
    <2>1. K[p] = Put(J[p], r, X[p])
      BY DEF JPut
    <2> QED BY <1>1, <2>1, PutFacts
  <1>3. K = [p \in Party |-> K[p]]
    BY DEF JPut
  <1>4. IsJoint(K)
    BY <1>1, <1>2, <1>3, PartyIs DEF IsJoint
  <1>5. Holds(K, r, X) /\ Keeps(J, K, {r})
    BY <1>2 DEF Holds, Keeps
  <1>6. Lg(K) = Lg(J)
    BY <1>2 DEF Lg
  <1> QED BY <1>2, <1>4, <1>5, <1>6 DEF IsPut

---------------------------------------------------------------------------
(* What each local step gives                                              *)

DoI(op, args, res) == [op |-> op, args |-> args, res |-> res]
JDo(op, args, res) == [p \in Party |-> Do(op, args, res)]
Vals(s, args) == [k \in DOMAIN args |-> s.mem[args[k]]]

PureOps ==
    {"public_key", "mac_plaintext", "encrypt", "decrypt", "product", "sum",
     "difference", "from_scalars", "from_parts", "values", "sub", "first_half",
     "second_half", "mac_product", "other_mac_enc", "add_cross", "mac_check", "rho",
     "tau", "beaver", "mask_macs", "masked_mac"}

LEMMA InPure ==
    /\ "public_key" \in PureOps /\ "mac_plaintext" \in PureOps
    /\ "encrypt" \in PureOps /\ "decrypt" \in PureOps /\ "product" \in PureOps
    /\ "sum" \in PureOps /\ "difference" \in PureOps /\ "from_scalars" \in PureOps
    /\ "from_parts" \in PureOps /\ "values" \in PureOps /\ "sub" \in PureOps
    /\ "first_half" \in PureOps /\ "second_half" \in PureOps
    /\ "mac_product" \in PureOps /\ "other_mac_enc" \in PureOps
    /\ "add_cross" \in PureOps /\ "mac_check" \in PureOps /\ "rho" \in PureOps
    /\ "tau" \in PureOps /\ "beaver" \in PureOps /\ "mask_macs" \in PureOps
    /\ "masked_mac" \in PureOps
  BY DEF PureOps

IsDo(i, op, args, res) ==
    /\ i \in Instr /\ i.op = op /\ i.args = args /\ i.res = res /\ op \notin Network
    /\ JDo(op, args, res) = Local(i)
    /\ \A s : ArgsOf(s, i) = Vals(s, args)

LEMMA DoIs ==
    ASSUME NEW op \in Locals \cup {"commit_scalars"}, NEW args \in Seq(Names), NEW res \in Names,
           NEW i, i = DoI(op, args, res)
    PROVE  IsDo(i, op, args, res)
  <1>1. op \in Names /\ op \notin Network
    BY InNames DEF Locals, Network, Stores, Checks
  <1>2. i \in Instr /\ i.op = op /\ i.args = args /\ i.res = res
    BY <1>1 DEF DoI, Instr
  <1>3. JDo(op, args, res) = Local(i)
    BY DEF JDo, Local, Do, DoI
  <1>4. \A s : ArgsOf(s, i) = Vals(s, args)
    BY <1>2 DEF ArgsOf, Vals
  <1> QED BY <1>1, <1>2, <1>3, <1>4 DEF IsDo

\* What a step computes depends on the LowGear and the registers alone.
LEMMA ResultLg ==
    ASSUME NEW p, NEW s, NEW t, s.lg = t.lg, NEW op, NEW v
    PROVE  Result(p, s, op, v) = Result(p, t, op, v)
  BY DEF Result

LEMMA PureGives ==
    ASSUME NEW J, IsJoint(J), NEW op \in PureOps, NEW args \in Seq(Names), NEW res \in Names,
           NEW X, \A p \in Party : X[p] = Result(p, J[p], op, Vals(J[p], args)),
           NEW K, K = JPut(J, res, X)
    PROVE  Gives(JDo(op, args, res), J, K, {res}, Lg(J)) /\ Holds(K, res, X)
  <1>1. PICK i : i = DoI(op, args, res)
    OBVIOUS
  <1>2. op \in Locals /\ op \notin Special \cup Stores \cup Checks
    BY DEF PureOps, Locals, Special, Stores, Checks
  <1>3. /\ i \in Instr /\ i.op = op /\ i.args = args /\ i.res = res /\ op \notin Network
        /\ JDo(op, args, res) = Local(i)
        /\ \A s : ArgsOf(s, i) = Vals(s, args)
    <2>1. IsDo(i, op, args, res)
      BY <1>1, <1>2, DoIs
    <2> QED BY <2>1 DEF IsDo
  <1>5. IsPut(J, res, X, K)
    BY JPutFacts
  <1>6. ASSUME NEW p \in Party, NEW g PROVE Compute(p, SetProg(J[p], g), i) = SetProg(K[p], g)
    <2>1. PICK s : s = SetProg(J[p], g)
      OBVIOUS
    <2>2. s.mem = J[p].mem /\ s.lg = J[p].lg
      BY <2>1, SetProgFacts DEF IsJoint
    <2>3. Compute(p, s, i) = Put(s, res, Result(p, s, op, Vals(s, args)))
      BY <1>2, <1>3, ComputePure
    <2>4. Vals(s, args) = Vals(J[p], args)
      BY <2>2 DEF Vals
    <2>5. Result(p, s, op, Vals(s, args)) = X[p]
      BY <2>2, <2>4, ResultLg
    <2> QED BY <1>5, <2>1, <2>3, <2>5 DEF IsPut
  <1>7. Makes(J, i, K)
    BY <1>6 DEF Makes
  <1>8. Local(i) \in JProgs /\ Exec(Local(i), J, K)
    BY <1>3, <1>7, ExecMakes
  <1> QED BY <1>3, <1>5, <1>8 DEF Gives, IsPut

LEMMA DoPublicKey ==
    ASSUME NEW J, IsJoint(J), NEW res \in Names,
           NEW X, \A p \in Party : X[p] = [owner |-> p],
           NEW K, K = JPut(J, res, X)
    PROVE  Gives(JDo("public_key", <<>>, res), J, K, {res}, Lg(J)) /\ Holds(K, res, X)
  <1>1. ASSUME NEW p \in Party PROVE X[p] = Result(p, J[p], "public_key", Vals(J[p], <<>>))
    <2>1. PICK v : v = Vals(J[p], <<>>)
      OBVIOUS
    <2> QED BY <2>1 DEF Result
  <1> QED BY <1>1, InPure, ArgLists, PureGives

LEMMA DoMacPlaintext ==
    ASSUME NEW J, IsJoint(J), NEW res \in Names,
           NEW X, \A p \in Party : X[p] = set_all(key[p], Slots),
           NEW K, K = JPut(J, res, X)
    PROVE  Gives(JDo("mac_plaintext", <<>>, res), J, K, {res}, Lg(J)) /\ Holds(K, res, X)
  <1>1. ASSUME NEW p \in Party PROVE X[p] = Result(p, J[p], "mac_plaintext", Vals(J[p], <<>>))
    <2>1. PICK v : v = Vals(J[p], <<>>)
      OBVIOUS
    <2> QED BY <2>1 DEF Result
  <1> QED BY <1>1, InPure, ArgLists, PureGives

LEMMA DoEncrypt ==
    ASSUME NEW J, IsJoint(J), NEW a \in Names, NEW res \in Names,
           NEW A, Holds(J, a, A),
           NEW X, \A p \in Party : X[p] = encrypt(p, A[p]),
           NEW K, K = JPut(J, res, X)
    PROVE  Gives(JDo("encrypt", <<a>>, res), J, K, {res}, Lg(J)) /\ Holds(K, res, X)
  <1>1. ASSUME NEW p \in Party PROVE X[p] = Result(p, J[p], "encrypt", Vals(J[p], <<a>>))
    <2>1. PICK v : v = Vals(J[p], <<a>>)
      OBVIOUS
    <2>2. v[1] = A[p]
      BY <2>1 DEF Vals, Holds
    <2>3. X[p] = encrypt(p, A[p])
      OBVIOUS
    <2> QED BY <2>1, <2>2, <2>3 DEF Result
  <1> QED BY <1>1, InPure, ArgLists, PureGives

LEMMA DoDecrypt ==
    ASSUME NEW J, IsJoint(J), NEW a \in Names, NEW res \in Names,
           NEW A, Holds(J, a, A),
           NEW X, \A p \in Party : X[p] = decrypt(p, A[p]),
           NEW K, K = JPut(J, res, X)
    PROVE  Gives(JDo("decrypt", <<a>>, res), J, K, {res}, Lg(J)) /\ Holds(K, res, X)
  <1>1. ASSUME NEW p \in Party PROVE X[p] = Result(p, J[p], "decrypt", Vals(J[p], <<a>>))
    <2>1. PICK v : v = Vals(J[p], <<a>>)
      OBVIOUS
    <2>2. v[1] = A[p]
      BY <2>1 DEF Vals, Holds
    <2>3. X[p] = decrypt(p, A[p])
      OBVIOUS
    <2> QED BY <2>1, <2>2, <2>3 DEF Result
  <1> QED BY <1>1, InPure, ArgLists, PureGives

LEMMA DoProduct ==
    ASSUME NEW J, IsJoint(J), NEW a \in Names, NEW b \in Names, NEW res \in Names,
           NEW A, Holds(J, a, A), NEW B, Holds(J, b, B),
           NEW X, \A p \in Party : X[p] = PtMul(A[p], B[p]),
           NEW K, K = JPut(J, res, X)
    PROVE  Gives(JDo("product", <<a, b>>, res), J, K, {res}, Lg(J)) /\ Holds(K, res, X)
  <1>1. ASSUME NEW p \in Party PROVE X[p] = Result(p, J[p], "product", Vals(J[p], <<a, b>>))
    <2>1. PICK v : v = Vals(J[p], <<a, b>>)
      OBVIOUS
    <2>2. v[1] = A[p] /\ v[2] = B[p]
      BY <2>1 DEF Vals, Holds
    <2>3. X[p] = PtMul(A[p], B[p])
      OBVIOUS
    <2> QED BY <2>1, <2>2, <2>3 DEF Result
  <1> QED BY <1>1, InPure, ArgLists, PureGives

LEMMA DoSum ==
    ASSUME NEW J, IsJoint(J), NEW a \in Names, NEW b \in Names, NEW res \in Names,
           NEW A, Holds(J, a, A), NEW B, Holds(J, b, B),
           NEW X, \A p \in Party : X[p] = PtAdd(A[p], B[p]),
           NEW K, K = JPut(J, res, X)
    PROVE  Gives(JDo("sum", <<a, b>>, res), J, K, {res}, Lg(J)) /\ Holds(K, res, X)
  <1>1. ASSUME NEW p \in Party PROVE X[p] = Result(p, J[p], "sum", Vals(J[p], <<a, b>>))
    <2>1. PICK v : v = Vals(J[p], <<a, b>>)
      OBVIOUS
    <2>2. v[1] = A[p] /\ v[2] = B[p]
      BY <2>1 DEF Vals, Holds
    <2>3. X[p] = PtAdd(A[p], B[p])
      OBVIOUS
    <2> QED BY <2>1, <2>2, <2>3 DEF Result
  <1> QED BY <1>1, InPure, ArgLists, PureGives

LEMMA DoDifference ==
    ASSUME NEW J, IsJoint(J), NEW a \in Names, NEW b \in Names, NEW res \in Names,
           NEW A, Holds(J, a, A), NEW B, Holds(J, b, B),
           NEW X, \A p \in Party : X[p] = PtSub(A[p], B[p]),
           NEW K, K = JPut(J, res, X)
    PROVE  Gives(JDo("difference", <<a, b>>, res), J, K, {res}, Lg(J)) /\ Holds(K, res, X)
  <1>1. ASSUME NEW p \in Party PROVE X[p] = Result(p, J[p], "difference", Vals(J[p], <<a, b>>))
    <2>1. PICK v : v = Vals(J[p], <<a, b>>)
      OBVIOUS
    <2>2. v[1] = A[p] /\ v[2] = B[p]
      BY <2>1 DEF Vals, Holds
    <2>3. X[p] = PtSub(A[p], B[p])
      OBVIOUS
    <2> QED BY <2>1, <2>2, <2>3 DEF Result
  <1> QED BY <1>1, InPure, ArgLists, PureGives

LEMMA DoFromScalars ==
    ASSUME NEW J, IsJoint(J), NEW a \in Names, NEW res \in Names,
           NEW A, Holds(J, a, A),
           NEW X, \A p \in Party : X[p] = from_scalars(A[p]),
           NEW K, K = JPut(J, res, X)
    PROVE  Gives(JDo("from_scalars", <<a>>, res), J, K, {res}, Lg(J)) /\ Holds(K, res, X)
  <1>1. ASSUME NEW p \in Party PROVE X[p] = Result(p, J[p], "from_scalars", Vals(J[p], <<a>>))
    <2>1. PICK v : v = Vals(J[p], <<a>>)
      OBVIOUS
    <2>2. v[1] = A[p]
      BY <2>1 DEF Vals, Holds
    <2>3. X[p] = from_scalars(A[p])
      OBVIOUS
    <2> QED BY <2>1, <2>2, <2>3 DEF Result
  <1> QED BY <1>1, InPure, ArgLists, PureGives

LEMMA DoFromParts ==
    ASSUME NEW J, IsJoint(J), NEW a \in Names, NEW b \in Names, NEW res \in Names,
           NEW A, Holds(J, a, A), NEW B, Holds(J, b, B),
           NEW X, \A p \in Party : X[p] = from_parts(A[p], B[p]),
           NEW K, K = JPut(J, res, X)
    PROVE  Gives(JDo("from_parts", <<a, b>>, res), J, K, {res}, Lg(J)) /\ Holds(K, res, X)
  <1>1. ASSUME NEW p \in Party PROVE X[p] = Result(p, J[p], "from_parts", Vals(J[p], <<a, b>>))
    <2>1. PICK v : v = Vals(J[p], <<a, b>>)
      OBVIOUS
    <2>2. v[1] = A[p] /\ v[2] = B[p]
      BY <2>1 DEF Vals, Holds
    <2>3. X[p] = from_parts(A[p], B[p])
      OBVIOUS
    <2> QED BY <2>1, <2>2, <2>3 DEF Result
  <1> QED BY <1>1, InPure, ArgLists, PureGives

LEMMA DoValues ==
    ASSUME NEW J, IsJoint(J), NEW a \in Names, NEW res \in Names,
           NEW A, Holds(J, a, A),
           NEW X, \A p \in Party : X[p] = values(A[p]),
           NEW K, K = JPut(J, res, X)
    PROVE  Gives(JDo("values", <<a>>, res), J, K, {res}, Lg(J)) /\ Holds(K, res, X)
  <1>1. ASSUME NEW p \in Party PROVE X[p] = Result(p, J[p], "values", Vals(J[p], <<a>>))
    <2>1. PICK v : v = Vals(J[p], <<a>>)
      OBVIOUS
    <2>2. v[1] = A[p]
      BY <2>1 DEF Vals, Holds
    <2>3. X[p] = values(A[p])
      OBVIOUS
    <2> QED BY <2>1, <2>2, <2>3 DEF Result
  <1> QED BY <1>1, InPure, ArgLists, PureGives

LEMMA DoSub ==
    ASSUME NEW J, IsJoint(J), NEW a \in Names, NEW b \in Names, NEW res \in Names,
           NEW A, Holds(J, a, A), NEW B, Holds(J, b, B),
           NEW X, \A p \in Party : X[p] = BatchSub(A[p], B[p]),
           NEW K, K = JPut(J, res, X)
    PROVE  Gives(JDo("sub", <<a, b>>, res), J, K, {res}, Lg(J)) /\ Holds(K, res, X)
  <1>1. ASSUME NEW p \in Party PROVE X[p] = Result(p, J[p], "sub", Vals(J[p], <<a, b>>))
    <2>1. PICK v : v = Vals(J[p], <<a, b>>)
      OBVIOUS
    <2>2. v[1] = A[p] /\ v[2] = B[p]
      BY <2>1 DEF Vals, Holds
    <2>3. X[p] = BatchSub(A[p], B[p])
      OBVIOUS
    <2> QED BY <2>1, <2>2, <2>3 DEF Result
  <1> QED BY <1>1, InPure, ArgLists, PureGives

LEMMA DoFirstHalf ==
    ASSUME NEW J, IsJoint(J), NEW a \in Names, NEW res \in Names,
           NEW A, Holds(J, a, A),
           NEW X, \A p \in Party : X[p] = SubSeq(A[p], 1, Half(A[p])),
           NEW K, K = JPut(J, res, X)
    PROVE  Gives(JDo("first_half", <<a>>, res), J, K, {res}, Lg(J)) /\ Holds(K, res, X)
  <1>1. ASSUME NEW p \in Party PROVE X[p] = Result(p, J[p], "first_half", Vals(J[p], <<a>>))
    <2>1. PICK v : v = Vals(J[p], <<a>>)
      OBVIOUS
    <2>2. v[1] = A[p]
      BY <2>1 DEF Vals, Holds
    <2>3. X[p] = SubSeq(A[p], 1, Half(A[p]))
      OBVIOUS
    <2> QED BY <2>1, <2>2, <2>3 DEF Result
  <1> QED BY <1>1, InPure, ArgLists, PureGives

LEMMA DoSecondHalf ==
    ASSUME NEW J, IsJoint(J), NEW a \in Names, NEW res \in Names,
           NEW A, Holds(J, a, A),
           NEW X, \A p \in Party : X[p] = SubSeq(A[p], Half(A[p]) + 1, Len(A[p])),
           NEW K, K = JPut(J, res, X)
    PROVE  Gives(JDo("second_half", <<a>>, res), J, K, {res}, Lg(J)) /\ Holds(K, res, X)
  <1>1. ASSUME NEW p \in Party PROVE X[p] = Result(p, J[p], "second_half", Vals(J[p], <<a>>))
    <2>1. PICK v : v = Vals(J[p], <<a>>)
      OBVIOUS
    <2>2. v[1] = A[p]
      BY <2>1 DEF Vals, Holds
    <2>3. X[p] = SubSeq(A[p], Half(A[p]) + 1, Len(A[p]))
      OBVIOUS
    <2> QED BY <2>1, <2>2, <2>3 DEF Result
  <1> QED BY <1>1, InPure, ArgLists, PureGives

LEMMA DoMacProduct ==
    ASSUME NEW J, IsJoint(J), NEW a \in Names, NEW res \in Names,
           NEW A, Holds(J, a, A),
           NEW X, \A p \in Party : X[p] = PtMul(set_all(key[p], Len(A[p])), A[p]),
           NEW K, K = JPut(J, res, X)
    PROVE  Gives(JDo("mac_product", <<a>>, res), J, K, {res}, Lg(J)) /\ Holds(K, res, X)
  <1>1. ASSUME NEW p \in Party PROVE X[p] = Result(p, J[p], "mac_product", Vals(J[p], <<a>>))
    <2>1. PICK v : v = Vals(J[p], <<a>>)
      OBVIOUS
    <2>2. v[1] = A[p]
      BY <2>1 DEF Vals, Holds
    <2>3. X[p] = PtMul(set_all(key[p], Len(A[p])), A[p])
      OBVIOUS
    <2> QED BY <2>1, <2>2, <2>3 DEF Result
  <1> QED BY <1>1, InPure, ArgLists, PureGives

LEMMA DoOtherMacEnc ==
    ASSUME NEW J, IsJoint(J), NEW a \in Names, NEW res \in Names,
           NEW A, Holds(J, a, A),
           NEW X, \A p \in Party : X[p] = get_other_mac_enc(J[p].lg, Len(A[p])),
           NEW K, K = JPut(J, res, X)
    PROVE  Gives(JDo("other_mac_enc", <<a>>, res), J, K, {res}, Lg(J)) /\ Holds(K, res, X)
  <1>1. ASSUME NEW p \in Party PROVE X[p] = Result(p, J[p], "other_mac_enc", Vals(J[p], <<a>>))
    <2>1. PICK v : v = Vals(J[p], <<a>>)
      OBVIOUS
    <2>2. v[1] = A[p]
      BY <2>1 DEF Vals, Holds
    <2>3. X[p] = get_other_mac_enc(J[p].lg, Len(A[p]))
      OBVIOUS
    <2> QED BY <2>1, <2>2, <2>3 DEF Result
  <1> QED BY <1>1, InPure, ArgLists, PureGives

LEMMA DoAddCross ==
    ASSUME NEW J, IsJoint(J), NEW a \in Names, NEW b \in Names, NEW res \in Names,
           NEW A, Holds(J, a, A), NEW B, Holds(J, b, B),
           NEW X, \A p \in Party : X[p] = PtAdd(A[p], decrypt(p, B[p])),
           NEW K, K = JPut(J, res, X)
    PROVE  Gives(JDo("add_cross", <<a, b>>, res), J, K, {res}, Lg(J)) /\ Holds(K, res, X)
  <1>1. ASSUME NEW p \in Party PROVE X[p] = Result(p, J[p], "add_cross", Vals(J[p], <<a, b>>))
    <2>1. PICK v : v = Vals(J[p], <<a, b>>)
      OBVIOUS
    <2>2. v[1] = A[p] /\ v[2] = B[p]
      BY <2>1 DEF Vals, Holds
    <2>3. X[p] = PtAdd(A[p], decrypt(p, B[p]))
      OBVIOUS
    <2> QED BY <2>1, <2>2, <2>3 DEF Result
  <1> QED BY <1>1, InPure, ArgLists, PureGives

LEMMA DoMacCheck ==
    ASSUME NEW J, IsJoint(J), NEW a \in Names, NEW b \in Names, NEW c \in Names, NEW res \in Names,
           NEW A, Holds(J, a, A), NEW B, Holds(J, b, B), NEW C, Holds(J, c, C),
           NEW X, \A p \in Party : X[p] = <<MacCheckOf(p, A[p], B[p], C[p])>>,
           NEW K, K = JPut(J, res, X)
    PROVE  Gives(JDo("mac_check", <<a, b, c>>, res), J, K, {res}, Lg(J)) /\ Holds(K, res, X)
  <1>1. ASSUME NEW p \in Party PROVE X[p] = Result(p, J[p], "mac_check", Vals(J[p], <<a, b, c>>))
    <2>1. PICK v : v = Vals(J[p], <<a, b, c>>)
      OBVIOUS
    <2>2. v[1] = A[p] /\ v[2] = B[p] /\ v[3] = C[p]
      BY <2>1 DEF Vals, Holds
    <2>3. X[p] = <<MacCheckOf(p, A[p], B[p], C[p])>>
      OBVIOUS
    <2> QED BY <2>1, <2>2, <2>3 DEF Result
  <1> QED BY <1>1, InPure, ArgLists, PureGives

LEMMA DoRho ==
    ASSUME NEW J, IsJoint(J), NEW a \in Names, NEW b \in Names, NEW c \in Names, NEW res \in Names,
           NEW A, Holds(J, a, A), NEW B, Holds(J, b, B), NEW C, Holds(J, c, C),
           NEW X, \A p \in Party : X[p] = BatchSub(BatchScale(A[p], B[p][1]), C[p]),
           NEW K, K = JPut(J, res, X)
    PROVE  Gives(JDo("rho", <<a, b, c>>, res), J, K, {res}, Lg(J)) /\ Holds(K, res, X)
  <1>1. ASSUME NEW p \in Party PROVE X[p] = Result(p, J[p], "rho", Vals(J[p], <<a, b, c>>))
    <2>1. PICK v : v = Vals(J[p], <<a, b, c>>)
      OBVIOUS
    <2>2. v[1] = A[p] /\ v[2] = B[p] /\ v[3] = C[p]
      BY <2>1 DEF Vals, Holds
    <2>3. X[p] = BatchSub(BatchScale(A[p], B[p][1]), C[p])
      OBVIOUS
    <2> QED BY <2>1, <2>2, <2>3 DEF Result
  <1> QED BY <1>1, InPure, ArgLists, PureGives

Holds5(J, a, b, c, d, e, A, B, C, D, E) ==
    /\ a \in Names /\ b \in Names /\ c \in Names /\ d \in Names /\ e \in Names
    /\ Holds(J, a, A) /\ Holds(J, b, B) /\ Holds(J, c, C) /\ Holds(J, d, D) /\ Holds(J, e, E)

AreTau(X, A, B, C, D, E) ==
    \A p \in Party : X[p] = BatchSub(BatchSub(BatchScale(A[p], B[p][1]), C[p]),
                                     BatchScaleBy(D[p], E[p]))

LEMMA DoTau ==
    ASSUME NEW J, IsJoint(J), NEW a, NEW b, NEW c, NEW d, NEW e, NEW res \in Names,
           NEW A, NEW B, NEW C, NEW D, NEW E, Holds5(J, a, b, c, d, e, A, B, C, D, E),
           NEW X, AreTau(X, A, B, C, D, E),
           NEW K, K = JPut(J, res, X)
    PROVE  Gives(JDo("tau", <<a, b, c, d, e>>, res), J, K, {res}, Lg(J)) /\ Holds(K, res, X)
  <1>1. ASSUME NEW p \in Party PROVE X[p] = Result(p, J[p], "tau", Vals(J[p], <<a, b, c, d, e>>))
    <2>1. PICK v : v = Vals(J[p], <<a, b, c, d, e>>)
      OBVIOUS
    <2>2. v[1] = A[p] /\ v[2] = B[p] /\ v[3] = C[p] /\ v[4] = D[p] /\ v[5] = E[p]
      BY <2>1 DEF Vals, Holds, Holds5
    <2>3. X[p] = BatchSub(BatchSub(BatchScale(A[p], B[p][1]), C[p]), BatchScaleBy(D[p], E[p]))
      BY DEF AreTau
    <2> QED BY <2>1, <2>2, <2>3 DEF Result
  <1>2. <<a, b, c, d, e>> \in Seq(Names)
    BY ArgLists DEF Holds5
  <1> QED BY <1>1, <1>2, InPure, PureGives

AreBeaver(X, A, B, C, D, E) ==
    \A p \in Party : X[p] = Beaver(p, A[p], B[p], C[p], D[p], E[p])

LEMMA DoBeaver ==
    ASSUME NEW J, IsJoint(J), NEW a, NEW b, NEW c, NEW d, NEW e, NEW res \in Names,
           NEW A, NEW B, NEW C, NEW D, NEW E, Holds5(J, a, b, c, d, e, A, B, C, D, E),
           NEW X, AreBeaver(X, A, B, C, D, E),
           NEW K, K = JPut(J, res, X)
    PROVE  Gives(JDo("beaver", <<a, b, c, d, e>>, res), J, K, {res}, Lg(J)) /\ Holds(K, res, X)
  <1>1. ASSUME NEW p \in Party PROVE X[p] = Result(p, J[p], "beaver", Vals(J[p], <<a, b, c, d, e>>))
    <2>1. PICK v : v = Vals(J[p], <<a, b, c, d, e>>)
      OBVIOUS
    <2>2. v[1] = A[p] /\ v[2] = B[p] /\ v[3] = C[p] /\ v[4] = D[p] /\ v[5] = E[p]
      BY <2>1 DEF Vals, Holds, Holds5
    <2>3. X[p] = Beaver(p, A[p], B[p], C[p], D[p], E[p])
      BY DEF AreBeaver
    <2> QED BY <2>1, <2>2, <2>3 DEF Result
  <1>2. <<a, b, c, d, e>> \in Seq(Names)
    BY ArgLists DEF Holds5
  <1> QED BY <1>1, <1>2, InPure, PureGives

\* Setting a field other than the program and the registers
LEMMA DrawnFacts ==
    ASSUME NEW s, IsState(s), s.drawn \in Nat, NEW n \in Nat, NEW t, t = [s EXCEPT !.drawn = @ + n]
    PROVE  /\ IsState(t) /\ t.lg = s.lg /\ t.prep = s.prep /\ t.used = s.used
           /\ t.handed = s.handed /\ t.calls = s.calls /\ t.mem = s.mem
           /\ t.status = s.status /\ t.drawn \in Nat
           /\ \A g : [SetProg(s, g) EXCEPT !.drawn = @ + n] = SetProg(t, g)
  <1>1. /\ IsState(t) /\ t.lg = s.lg /\ t.prep = s.prep /\ t.used = s.used
        /\ t.handed = s.handed /\ t.calls = s.calls /\ t.mem = s.mem
        /\ t.status = s.status /\ t.drawn = s.drawn + n
    BY DEF IsState, Fields
  <1>2. ASSUME NEW g PROVE [SetProg(s, g) EXCEPT !.drawn = @ + n] = SetProg(t, g)
    BY DEF SetProg, IsState, Fields
  <1> QED BY <1>1, <1>2

JDrawn(J, n) == [p \in Party |-> [J[p] EXCEPT !.drawn = @ + n]]

HasDrawn(J, n, K) ==
    /\ IsJoint(K) /\ Keeps(J, K, {}) /\ Lg(K) = Lg(J)
    /\ \A p \in Party : /\ K[p].prep = J[p].prep /\ K[p].calls = J[p].calls
                        /\ K[p].mem = J[p].mem
                        /\ \A g : [SetProg(J[p], g) EXCEPT !.drawn = @ + n] = SetProg(K[p], g)

LEMMA JDrawnFacts ==
    ASSUME NEW J, IsJoint(J), NEW n \in Nat, NEW K, K = JDrawn(J, n)
    PROVE  HasDrawn(J, n, K)
  <1>1. \A p \in Party : IsState(J[p]) /\ J[p].status = "running" /\ J[p].drawn \in Nat
    BY DEF IsJoint
  <1>2. ASSUME NEW p \in Party
        PROVE  LET s == J[p]
                   t == K[p]
               IN  /\ IsState(t) /\ t.lg = s.lg /\ t.prep = s.prep /\ t.used = s.used
                   /\ t.handed = s.handed /\ t.calls = s.calls /\ t.mem = s.mem
                   /\ t.status = s.status /\ t.drawn \in Nat
                   /\ \A g : [SetProg(s, g) EXCEPT !.drawn = @ + n] = SetProg(t, g)
    <2>1. PICK s, t : s = J[p] /\ t = K[p]
      OBVIOUS
    <2>2. IsState(s) /\ s.drawn \in Nat /\ t = [s EXCEPT !.drawn = @ + n]
      BY <1>1, <2>1 DEF JDrawn
    <2>3. /\ IsState(t) /\ t.lg = s.lg /\ t.prep = s.prep /\ t.used = s.used
          /\ t.handed = s.handed /\ t.calls = s.calls /\ t.mem = s.mem
          /\ t.status = s.status /\ t.drawn \in Nat
          /\ \A g : [SetProg(s, g) EXCEPT !.drawn = @ + n] = SetProg(t, g)
      <3> HIDE <2>1
      <3> QED BY <2>2, DrawnFacts
    <2> QED BY <2>1, <2>3
  <1>3. K = [p \in Party |-> K[p]]
    BY DEF JDrawn
  <1>4. IsJoint(K)
    BY <1>1, <1>2, <1>3, PartyIs DEF IsJoint
  <1>5. Keeps(J, K, {})
    BY <1>2 DEF Holds, Keeps
  <1>6. Lg(K) = Lg(J)
    BY <1>2 DEF Lg
  <1> QED BY <1>2, <1>4, <1>5, <1>6 DEF HasDrawn

\* The draws of both parties are scalars.
DrawsInField == \A p \in Party : \A k \in Nat : Rand(p, k) \in F

JDraw(n, res) == [p \in Party |-> Draw(n, res)]

LEMMA DrawGives ==
    ASSUME DrawsInField, NEW J, IsJoint(J), NEW n \in Nat, NEW res \in Names
    PROVE  \E K, X : /\ Gives(JDraw(n, res), J, K, {res}, Lg(J)) /\ Holds(K, res, X)
                     /\ X \in [Party -> [1..n -> F]]
  <1>1. PICK i : i = [op |-> "draw", n |-> n, res |-> res]
    OBVIOUS
  <1>2. i \in Instr /\ i.op = "draw" /\ i.n = n /\ i.res = res /\ i.op \notin Network
    BY <1>1 DEF Instr, Network
  <1>3. JDraw(n, res) = Local(i)
    BY <1>1 DEF JDraw, Draw, Local
  <1>4. PICK X : X = [p \in Party |-> Randoms(p, J[p], n)]
    OBVIOUS
  <1>5. X \in [Party -> [1..n -> F]]
    <2>1. ASSUME NEW p \in Party, NEW k \in 1..n PROVE Rand(p, J[p].drawn + k) \in F
      <3>1. J[p].drawn + k \in Nat
        BY DEF IsJoint
      <3> QED BY <3>1 DEF DrawsInField
    <2> QED BY <1>4, <2>1 DEF Randoms
  <1>6. PICK M : M = JPut(J, res, X)
    OBVIOUS
  <1>7. IsPut(J, res, X, M)
    BY <1>6, JPutFacts
  <1>8. PICK K : K = JDrawn(M, n)
    OBVIOUS
  <1>9. HasDrawn(M, n, K)
    <2>1. IsJoint(M)
      BY <1>7 DEF IsPut
    <2> QED BY <1>8, <2>1, JDrawnFacts
  <1>10. ASSUME NEW p \in Party, NEW g PROVE Compute(p, SetProg(J[p], g), i) = SetProg(K[p], g)
    <2>1. PICK s : s = SetProg(J[p], g)
      OBVIOUS
    <2>2. s.drawn = J[p].drawn
      BY <2>1, SetProgFacts DEF IsJoint
    <2>3. Compute(p, s, i) = [Put(s, i.res, Randoms(p, s, i.n)) EXCEPT !.drawn = @ + i.n]
      BY <1>2, ComputeDraw
    <2>4. Randoms(p, s, n) = X[p]
      BY <1>4, <2>2 DEF Randoms
    <2>5. Put(s, res, X[p]) = SetProg(M[p], g)
      BY <1>7, <2>1 DEF IsPut
    <2>6. Compute(p, s, i) = [SetProg(M[p], g) EXCEPT !.drawn = @ + n]
      BY <1>2, <2>3, <2>4, <2>5
    <2> QED BY <1>9, <2>1, <2>6 DEF HasDrawn
  <1>11. Local(i) \in JProgs /\ Exec(Local(i), J, K)
    BY <1>2, <1>10, ExecLocal
  <1>12. Holds(K, res, X) /\ Keeps(J, K, {res})
    BY <1>7, <1>9 DEF Holds, Keeps, IsPut, HasDrawn
  <1>13. Gives(JDraw(n, res), J, K, {res}, Lg(J))
    BY <1>3, <1>7, <1>9, <1>11, <1>12 DEF Gives, IsPut, HasDrawn
  <1> QED BY <1>5, <1>12, <1>13

\* A check that passes at both parties, or fails at both
JCheck(op, args) == [p \in Party |-> Check(op, args)]

LEMMA CheckIs ==
    ASSUME NEW op \in Checks, NEW args \in Seq(Names), NEW i, i = DoI(op, args, "")
    PROVE  IsDo(i, op, args, "") /\ JCheck(op, args) = JDo(op, args, "")
  <1>1. op \in Locals /\ "" \in Names
    BY InNames DEF Locals
  <1>2. \A res \in Names : i = DoI(op, args, res) => IsDo(i, op, args, res)
    BY <1>1, DoIs
  <1>3. JCheck(op, args) = JDo(op, args, "")
    BY DEF JCheck, JDo, Check
  <1> QED BY <1>1, <1>2, <1>3

LEMMA PassesLg ==
    ASSUME NEW s, NEW t, s.lg = t.lg, NEW op, NEW v
    PROVE  Passes(s, op, v) <=> Passes(t, op, v)
  BY DEF Passes

LEMMA CheckGives ==
    ASSUME NEW J, IsJoint(J), NEW op \in Checks, NEW args \in Seq(Names),
           \A p \in Party : Passes(J[p], op, Vals(J[p], args))
    PROVE  Gives(JCheck(op, args), J, J, {}, Lg(J))
  <1>1. PICK i : i = DoI(op, args, "")
    OBVIOUS
  <1>2. /\ i \in Instr /\ i.op = op /\ i.args = args /\ i.op \notin Network
        /\ JCheck(op, args) = Local(i)
        /\ \A s : ArgsOf(s, i) = Vals(s, args)
    <2>1. IsDo(i, op, args, "") /\ JCheck(op, args) = JDo(op, args, "")
      BY <1>1, CheckIs
    <2> QED BY <2>1 DEF IsDo
  <1>3. ASSUME NEW p \in Party, NEW g PROVE Compute(p, SetProg(J[p], g), i) = SetProg(J[p], g)
    <2>1. PICK s : s = SetProg(J[p], g)
      OBVIOUS
    <2>2. s.mem = J[p].mem /\ s.lg = J[p].lg
      BY <2>1, SetProgFacts DEF IsJoint
    <2>3. Vals(s, args) = Vals(J[p], args)
      BY <2>2 DEF Vals
    <2>4. Passes(s, op, Vals(s, args))
      BY <2>2, <2>3, PassesLg
    <2>5. Compute(p, s, i) = s
      BY <1>2, <2>4, ComputeCheck
    <2> QED BY <2>1, <2>5
  <1>4. Local(i) \in JProgs /\ Exec(Local(i), J, J)
    BY <1>2, <1>3, ExecLocal
  <1>5. Keeps(J, J, {})
    BY DEF Keeps
  <1> QED BY <1>2, <1>4, <1>5 DEF Gives

LEMMA CheckFails ==
    ASSUME NEW J, IsJoint(J), NEW op \in Checks, NEW args \in Seq(Names), ErrorOf(op) = "panic",
           \A p \in Party : ~Passes(J[p], op, Vals(J[p], args))
    PROVE  Fails(JCheck(op, args), J)
  <1>1. PICK i : i = DoI(op, args, "")
    OBVIOUS
  <1>2. /\ i \in Instr /\ i.op = op /\ i.args = args /\ i.op \notin Network
        /\ JCheck(op, args) = Local(i)
        /\ \A s : ArgsOf(s, i) = Vals(s, args)
    <2>1. IsDo(i, op, args, "") /\ JCheck(op, args) = JDo(op, args, "")
      BY <1>1, CheckIs
    <2> QED BY <2>1 DEF IsDo
  <1>3. ASSUME NEW p \in Party, NEW g
        PROVE  Compute(p, SetProg(J[p], g), i) = Fail(SetProg(J[p], g), "panic")
    <2>1. PICK s : s = SetProg(J[p], g)
      OBVIOUS
    <2>2. s.mem = J[p].mem /\ s.lg = J[p].lg
      BY <2>1, SetProgFacts DEF IsJoint
    <2>3. Vals(s, args) = Vals(J[p], args)
      BY <2>2 DEF Vals
    <2>4. ~Passes(s, op, Vals(s, args))
      BY <2>2, <2>3, PassesLg
    <2>5. Compute(p, s, i) = Fail(s, "panic")
      BY <1>2, <2>4, ComputeCheck
    <2> QED BY <2>1, <2>5
  <1>4. Fails(Local(i), J)
    BY <1>2, <1>3, FailLocal
  <1> QED BY <1>2, <1>4

---------------------------------------------------------------------------
(* Exchanges                                                               *)

JX(kind, out, in) == [p \in Party |-> exchange(p, kind, out, in)]

\* g is an exchange at party p, then r.
StartsExchange(p, kind, out, in, g, r) ==
    /\ g \in Progs /\ g # <<>> /\ Tail(g) \in Progs /\ Tail(g) # <<>> /\ Tail(Tail(g)) = r
    /\ Head(g).kind = kind /\ Head(Tail(g)).kind = kind
    /\ p = 0 => /\ Head(g).op = "send" /\ Head(g).reg = out
                /\ Head(Tail(g)).op = "recv" /\ Head(Tail(g)).reg = in
    /\ p = 1 => /\ Head(g).op = "recv" /\ Head(g).reg = in
                /\ Head(Tail(g)).op = "send" /\ Head(Tail(g)).reg = out

\* g is the steps i and k, then r.
Splits(g, i, k, r) ==
    /\ g \in Progs /\ g # <<>> /\ Tail(g) \in Progs /\ Tail(g) # <<>> /\ Tail(Tail(g)) = r
    /\ Head(g) = i /\ Head(Tail(g)) = k

LEMMA PairCat ==
    ASSUME NEW i \in Instr, NEW k \in Instr, NEW r \in Progs, NEW g, g = <<i, k>> \o r
    PROVE  Splits(g, i, k, r)
  <1>1. PICK x : x = <<i, k>>
    OBVIOUS
  <1>2. x \in Progs /\ Len(x) = 2 /\ x[1] = i /\ x[2] = k
    BY <1>1 DEF Progs
  <1>3. g = x \o r
    BY <1>1
  <1> HIDE <1>1
  <1>4. g \in Progs /\ Len(g) = 2 + Len(r) /\ Len(r) \in Nat
    BY <1>2, <1>3 DEF Progs
  <1>5. g[1] = i /\ g[2] = k /\ \A j \in 1..Len(r) : g[j + 2] = r[j]
    BY <1>2, <1>3 DEF Progs
  <1>6. PICK t : t = Tail(g)
    OBVIOUS
  <1>7. t \in Progs /\ Len(t) = 1 + Len(r) /\ \A j \in 1..Len(t) : t[j] = g[j + 1]
    BY <1>4, <1>6 DEF Progs
  <1>8. PICK u : u = Tail(t)
    OBVIOUS
  <1>9. u \in Progs /\ Len(u) = Len(r) /\ \A j \in 1..Len(u) : u[j] = t[j + 1]
    BY <1>4, <1>7, <1>8 DEF Progs
  <1>10. \A j \in 1..Len(r) : u[j] = r[j]
    BY <1>4, <1>5, <1>7, <1>9
  <1>11. u = r
    BY <1>9, <1>10 DEF Progs
  <1>12. Head(g) = i /\ Head(t) = k /\ g # <<>> /\ t # <<>>
    BY <1>4, <1>5, <1>7 DEF Progs
  <1> QED BY <1>4, <1>6, <1>7, <1>8, <1>11, <1>12 DEF Splits

LEMMA ExchangeParts ==
    ASSUME NEW p \in Party, NEW kind \in Names, NEW out \in Names, NEW in \in Names,
           NEW r \in Progs
    PROVE  /\ exchange(p, kind, out, in) \in Progs
           /\ StartsExchange(p, kind, out, in, exchange(p, kind, out, in) \o r, r)
  <1>1. PICK s : s = [op |-> "send", kind |-> kind, reg |-> out]
    OBVIOUS
  <1>2. PICK t : t = [op |-> "recv", kind |-> kind, reg |-> in]
    OBVIOUS
  <1>3. s \in Instr /\ s.op = "send" /\ s.kind = kind /\ s.reg = out
    BY <1>1 DEF Instr, Network
  <1>4. t \in Instr /\ t.op = "recv" /\ t.kind = kind /\ t.reg = in
    BY <1>2 DEF Instr, Network
  <1>5. /\ p = 0 => exchange(p, kind, out, in) = <<s, t>>
        /\ p = 1 => exchange(p, kind, out, in) = <<t, s>>
    BY <1>1, <1>2 DEF exchange
  <1> HIDE <1>1, <1>2
  <1>6. <<s, t>> \in Progs /\ <<t, s>> \in Progs
    BY <1>3, <1>4, Pair
  <1>7. PICK g : g = exchange(p, kind, out, in) \o r
    OBVIOUS
  <1>8. CASE p = 0
    <2>1. g = <<s, t>> \o r
      BY <1>5, <1>7, <1>8
    <2>2. Splits(g, s, t, r)
      BY <1>3, <1>4, <2>1, PairCat
    <2>3. StartsExchange(p, kind, out, in, g, r)
      BY <1>3, <1>4, <1>8, <2>2 DEF StartsExchange, Splits
    <2> QED BY <1>5, <1>6, <1>7, <1>8, <2>3
  <1>9. CASE p = 1
    <2>1. g = <<t, s>> \o r
      BY <1>5, <1>7, <1>9
    <2>2. Splits(g, t, s, r)
      BY <1>3, <1>4, <2>1, PairCat
    <2>3. StartsExchange(p, kind, out, in, g, r)
      BY <1>3, <1>4, <1>9, <2>2 DEF StartsExchange, Splits
    <2> QED BY <1>5, <1>6, <1>7, <1>9, <2>3
  <1> QED BY <1>8, <1>9, PartyIs

LEMMA PastFacts ==
    ASSUME NEW s, IsState(s), NEW g
    PROVE  Past(Past(SetProg(s, g))) = SetProg(s, Tail(Tail(g)))
  <1>1. ASSUME NEW t, IsState(t) PROVE Past(t) = SetProg(t, Tail(t.prog))
    BY DEF Past, SetProg
  <1>2. PICK t : t = SetProg(s, g)
    OBVIOUS
  <1>3. IsState(t) /\ t.prog = g
    BY <1>2 DEF SetProg, IsState, Fields
  <1>4. PICK u : u = SetProg(t, Tail(g))
    OBVIOUS
  <1>5. IsState(u) /\ u.prog = Tail(g)
    <2> HIDE <1>2
    <2> QED BY <1>3, <1>4 DEF SetProg, IsState, Fields
  <1>6. SetProg(u, Tail(Tail(g))) = SetProg(s, Tail(Tail(g)))
    BY <1>2, <1>4 DEF SetProg, IsState, Fields
  <1>7. Past(t) = u
    BY <1>1, <1>3, <1>4
  <1>8. Past(u) = SetProg(u, Tail(Tail(g)))
    BY <1>1, <1>5
  <1> QED BY <1>2, <1>6, <1>7, <1>8

LEMMA ExchangeMoves ==
    ASSUME NEW J, IsJoint(J), NEW kind \in Names, NEW out \in Names, NEW in \in Names, out # in,
           NEW X, Holds(J, out, X), NEW R \in JProgs,
           NEW A, A = With(J, Cat(JX(kind, out, in), R)), NEW K, IsPut(J, in, Flip(X), K)
    PROVE  Moving(A) /\ Micro(A) = With(K, R)
  <1>1. PICK G : G = Cat(JX(kind, out, in), R)
    OBVIOUS
  <1>2. \A p \in Party : R[p] \in Progs /\ G[p] = exchange(p, kind, out, in) \o R[p]
    BY <1>1 DEF JX, Cat, JProgs
  <1>3. \A p \in Party : StartsExchange(p, kind, out, in, G[p], R[p])
    BY <1>2, ExchangeParts
  <1>4. /\ IsJoint(A)
        /\ \A p \in Party : /\ A[p] = SetProg(J[p], G[p]) /\ A[p].prog = G[p]
                            /\ A[p].status = "running" /\ A[p].mem = J[p].mem
    BY <1>1, WithJoint
  <1>5. AtExchange(A, kind, out, in)
    BY <1>2, <1>4 DEF AtExchange, Holds
  <1>6. Moving(A)
    BY <1>3, <1>4, <1>5 DEF Moving, StartsExchange
  <1>7. /\ Head(A[0].prog).op \in Network /\ Head(A[0].prog).reg = out
        /\ Head(A[1].prog).reg = in
    BY <1>3, <1>4, PartyIs DEF StartsExchange, Network
  <1>8. ASSUME NEW p \in Party
        PROVE  Put(Past(Past(A[p])), in, A[1 - p].mem[out]) = SetProg(K[p], R[p])
    <2>1. IsState(J[p]) /\ 1 - p \in Party
      BY PartyIs DEF IsJoint
    <2>2. Past(Past(A[p])) = SetProg(J[p], Tail(Tail(G[p])))
      BY <1>4, <2>1, PastFacts
    <2>3. Tail(Tail(G[p])) = R[p]
      BY <1>3 DEF StartsExchange
    <2>4. A[1 - p].mem[out] = Flip(X)[p]
      BY <1>4, <2>1 DEF Holds, Flip
    <2>5. Put(SetProg(J[p], R[p]), in, Flip(X)[p]) = SetProg(K[p], R[p])
      BY DEF IsPut
    <2> QED BY <2>2, <2>3, <2>4, <2>5
  <1>9. Micro(A) = [p \in Party |-> Put(Past(Past(A[p])), in, A[1 - p].mem[out])]
    BY <1>7 DEF Micro, Swap
  <1>10. Micro(A) = With(K, R)
    BY <1>8, <1>9 DEF With
  <1> QED BY <1>6, <1>10

LEMMA ExchangeGives ==
    ASSUME NEW J, IsJoint(J), NEW kind \in Names, NEW out \in Names, NEW in \in Names, out # in,
           NEW X, Holds(J, out, X), NEW K, K = JPut(J, in, Flip(X))
    PROVE  Gives(JX(kind, out, in), J, K, {in}, Lg(J)) /\ Holds(K, in, Flip(X))
  <1>1. PICK Y : Y = Flip(X)
    OBVIOUS
  <1>2. K = JPut(J, in, Y)
    BY <1>1
  <1>3. IsPut(J, in, Y, K)
    BY <1>2, JPutFacts
  <1>4. ASSUME NEW R \in JProgs, Safe(With(K, R)) PROVE Safe(With(J, Cat(JX(kind, out, in), R)))
    <2>1. PICK A : A = With(J, Cat(JX(kind, out, in), R))
      OBVIOUS
    <2>2. Moving(A) /\ Micro(A) = With(K, R)
      BY <1>1, <1>3, <2>1, ExchangeMoves
    <2>3. Safe(A)
      BY <1>4, <2>2, SafeMicro
    <2> QED BY <2>1, <2>3
  <1>5. JX(kind, out, in) \in JProgs
    <2>1. <<>> \in Progs
      BY DEF Progs
    <2>2. \A p \in Party : exchange(p, kind, out, in) \in Progs
      BY <2>1, ExchangeParts
    <2> QED BY <2>2 DEF JX, JProgs
  <1>6. Gives(JX(kind, out, in), J, K, {in}, Lg(J))
    BY <1>3, <1>4, <1>5 DEF Gives, Exec, IsPut
  <1> QED BY <1>1, <1>3, <1>6 DEF IsPut

---------------------------------------------------------------------------
(* The steps that do more than write one register                          *)

LEMMA DoIsAll ==
    \A op \in Locals \cup {"commit_scalars"} : \A args \in Seq(Names) : \A res \in Names :
        IsDo(DoI(op, args, res), op, args, res)
  BY DoIs

LEMMA ForgetFacts ==
    ASSUME NEW s, IsState(s), NEW r, NEW t, t = Forget(s, r)
    PROVE  /\ IsState(t) /\ t.lg = s.lg /\ t.prep = s.prep
           /\ t.handed = s.handed /\ t.calls = s.calls /\ t.drawn = s.drawn
           /\ t.status = s.status
           /\ \A q \in DOMAIN s.mem : q # r => q \in DOMAIN t.mem /\ t.mem[q] = s.mem[q]
  <1>1. /\ IsState(t) /\ t.lg = s.lg /\ t.prep = s.prep
        /\ t.handed = s.handed /\ t.calls = s.calls /\ t.drawn = s.drawn
        /\ t.status = s.status
        /\ t.mem = [q \in DOMAIN s.mem \ {r} |-> s.mem[q]]
    BY DEF Forget, IsState, Fields
  <1> QED BY <1>1

LEMMA ForgetProg ==
    ASSUME NEW s, IsState(s), NEW r, NEW g
    PROVE  Forget(SetProg(s, g), r) = SetProg(Forget(s, r), g)
  <1>1. PICK m : m = [q \in DOMAIN s.mem \ {r} |-> s.mem[q]]
    OBVIOUS
  <1>2. PICK u : u = SetProg(s, g)
    OBVIOUS
  <1>3. IsState(u) /\ u.mem = s.mem
    BY <1>2, SetProgFacts
  <1>4. Forget(u, r) = [u EXCEPT !.mem = m]
    BY <1>1, <1>3 DEF Forget
  <1>5. Forget(s, r) = [s EXCEPT !.mem = m]
    BY <1>1 DEF Forget
  <1>6. [u EXCEPT !.mem = m] = SetProg([s EXCEPT !.mem = m], g)
    BY <1>2, <1>3 DEF SetProg, IsState, Fields
  <1> QED BY <1>2, <1>4, <1>5, <1>6

HasForgotten(J, r, K) ==
    /\ IsJoint(K) /\ Keeps(J, K, {r}) /\ Lg(K) = Lg(J)
    /\ \A p \in Party : /\ K[p].prep = J[p].prep /\ K[p].calls = J[p].calls
                        /\ \A g : Forget(SetProg(J[p], g), r) = SetProg(K[p], g)

LEMMA JForgetFacts ==
    ASSUME NEW J, IsJoint(J), NEW r, NEW K, K = JForget(J, r)
    PROVE  HasForgotten(J, r, K)
  <1>1. \A p \in Party : IsState(J[p]) /\ J[p].status = "running" /\ J[p].drawn \in Nat
    BY DEF IsJoint
  <1>2. ASSUME NEW p \in Party
        PROVE  LET s == J[p]
                   t == K[p]
               IN  /\ IsState(t) /\ t.lg = s.lg /\ t.prep = s.prep
                   /\ t.handed = s.handed /\ t.calls = s.calls /\ t.drawn = s.drawn
                   /\ t.status = s.status
                   /\ \A q \in DOMAIN s.mem : q # r => q \in DOMAIN t.mem /\ t.mem[q] = s.mem[q]
    <2>1. K[p] = Forget(J[p], r)
      BY DEF JForget
    <2> QED BY <1>1, <2>1, ForgetFacts
  <1>3. K = [p \in Party |-> K[p]]
    BY DEF JForget
  <1>4. IsJoint(K)
    BY <1>1, <1>2, <1>3, PartyIs DEF IsJoint
  <1>5. Keeps(J, K, {r})
    BY <1>2 DEF Holds, Keeps
  <1>6. Lg(K) = Lg(J)
    BY <1>2 DEF Lg
  <1>7. \A p \in Party : \A g : Forget(SetProg(J[p], g), r) = SetProg(K[p], g)
    BY <1>1, ForgetProg DEF JForget
  <1> QED BY <1>2, <1>4, <1>5, <1>6, <1>7 DEF HasForgotten

LEMMA DoCommit ==
    ASSUME NEW J, IsJoint(J), NEW a \in Names, NEW A, Holds(J, a, A),
           NEW X, \A p \in Party : X[p] = commit_scalars(A[p]),
           NEW K, K = JPut(JForget(J, "their_comm"), "my_comm", X)
    PROVE  /\ Gives(JDo("commit_scalars", <<a>>, "my_comm"), J, K,
                    {"my_comm", "their_comm"}, Lg(J))
           /\ Holds(K, "my_comm", X)
  <1>2. PICK i : i = DoI("commit_scalars", <<a>>, "my_comm")
    OBVIOUS
  <1>3. IsDo(i, "commit_scalars", <<a>>, "my_comm")
    <2>1. "my_comm" \in Names /\ <<a>> \in Seq(Names)
      BY InNames, ArgLists
    <2> QED BY <1>2, <2>1, DoIsAll
  <1>4. PICK M : M = JForget(J, "their_comm")
    OBVIOUS
  <1>5. HasForgotten(J, "their_comm", M)
    BY <1>4, JForgetFacts
  <1>6. IsJoint(M)
    BY <1>5 DEF HasForgotten
  <1>7. K = JPut(M, "my_comm", X)
    BY <1>4
  <1>8. IsPut(M, "my_comm", X, K)
    BY <1>6, <1>7, JPutFacts
  <1>9. ASSUME NEW p \in Party, NEW g PROVE Compute(p, SetProg(J[p], g), i) = SetProg(K[p], g)
    <2>1. PICK s : s = SetProg(J[p], g)
      OBVIOUS
    <2>2. s.mem = J[p].mem
      BY <2>1, SetProgFacts DEF IsJoint
    <2>3. ArgsOf(s, i)[1] = A[p]
      BY <1>3, <2>2 DEF IsDo, Vals, Holds
    <2>4. Compute(p, s, i) = Put(Forget(s, "their_comm"), "my_comm", X[p])
      BY <1>3, <2>3, ComputeCommit DEF IsDo
    <2>5. Forget(s, "their_comm") = SetProg(M[p], g)
      BY <1>5, <2>1 DEF HasForgotten
    <2> QED BY <1>8, <2>1, <2>4, <2>5 DEF IsPut
  <1>10. Local(i) \in JProgs /\ Exec(Local(i), J, K)
    BY <1>3, <1>9, ExecLocal DEF IsDo
  <1>11. Keeps(J, K, {"my_comm", "their_comm"})
    BY <1>5, <1>8 DEF HasForgotten, IsPut, Keeps
  <1>12. Gives(JDo("commit_scalars", <<a>>, "my_comm"), J, K, {"my_comm", "their_comm"}, Lg(J))
    BY <1>3, <1>5, <1>8, <1>10, <1>11 DEF Gives, HasForgotten, IsPut, IsDo
  <1> QED BY <1>8, <1>12 DEF IsPut

\* Storing into the LowGear
LEMMA SetLgFacts ==
    ASSUME NEW s, IsState(s), NEW l, NEW t, t = [s EXCEPT !.lg = l]
    PROVE  /\ IsState(t) /\ t.lg = l /\ t.prep = s.prep /\ t.prog = s.prog /\ t.used = s.used
           /\ t.handed = s.handed /\ t.calls = s.calls /\ t.mem = s.mem /\ t.drawn = s.drawn
           /\ t.status = s.status
  BY DEF IsState, Fields

LEMMA SetLgProg ==
    ASSUME NEW s, IsState(s), NEW l, NEW g
    PROVE  [SetProg(s, g) EXCEPT !.lg = l] = SetProg([s EXCEPT !.lg = l], g)
  BY DEF SetProg, IsState, Fields

HasStored(J, L, K) ==
    /\ IsJoint(K) /\ Keeps(J, K, {}) /\ Lg(K) = L
    /\ \A p \in Party : /\ K[p].prep = J[p].prep /\ K[p].calls = J[p].calls
                        /\ K[p].mem = J[p].mem
                        /\ \A g : [SetProg(J[p], g) EXCEPT !.lg = L[p]] = SetProg(K[p], g)

LEMMA JLgFacts ==
    ASSUME NEW J, IsJoint(J), NEW L, L = [p \in Party |-> L[p]], NEW K, K = JLg(J, L)
    PROVE  HasStored(J, L, K)
  <1>1. \A p \in Party : IsState(J[p]) /\ J[p].status = "running" /\ J[p].drawn \in Nat
    BY DEF IsJoint
  <1>2. ASSUME NEW p \in Party
        PROVE  LET s == J[p]
                   t == K[p]
               IN  /\ IsState(t) /\ t.lg = L[p] /\ t.prep = s.prep
                   /\ t.handed = s.handed /\ t.calls = s.calls /\ t.drawn = s.drawn
                   /\ t.status = s.status /\ t.mem = s.mem
    <2>1. PICK s, t, l : s = J[p] /\ t = K[p] /\ l = L[p]
      OBVIOUS
    <2>2. IsState(s) /\ t = [s EXCEPT !.lg = l]
      BY <1>1, <2>1 DEF JLg
    <2>3. /\ IsState(t) /\ t.lg = l /\ t.prep = s.prep
          /\ t.handed = s.handed /\ t.calls = s.calls /\ t.drawn = s.drawn
          /\ t.status = s.status /\ t.mem = s.mem
      <3> HIDE <2>1
      <3> QED BY <2>2, SetLgFacts
    <2> QED BY <2>1, <2>3
  <1>3. K = [p \in Party |-> K[p]]
    BY DEF JLg
  <1>4. IsJoint(K)
    BY <1>1, <1>2, <1>3, PartyIs DEF IsJoint
  <1>5. Keeps(J, K, {})
    BY <1>2 DEF Holds, Keeps
  <1>6. Lg(K) = L
    BY <1>2 DEF Lg
  <1>7. \A p \in Party : \A g : [SetProg(J[p], g) EXCEPT !.lg = L[p]] = SetProg(K[p], g)
    <2> SUFFICES ASSUME NEW p \in Party, NEW g
                 PROVE  [SetProg(J[p], g) EXCEPT !.lg = L[p]] = SetProg(K[p], g)
      OBVIOUS
    <2>1. PICK s, l : s = J[p] /\ l = L[p]
      OBVIOUS
    <2>2. IsState(s) /\ K[p] = [s EXCEPT !.lg = l]
      BY <1>1, <2>1 DEF JLg
    <2>3. [SetProg(s, g) EXCEPT !.lg = l] = SetProg([s EXCEPT !.lg = l], g)
      <3> HIDE <2>1
      <3> QED BY <2>2, SetLgProg
    <2> QED BY <2>1, <2>2, <2>3
  <1> QED BY <1>2, <1>4, <1>5, <1>6, <1>7 DEF HasStored

LEMMA StoreGives ==
    ASSUME NEW J, IsJoint(J), NEW op \in Stores, NEW args \in Seq(Names),
           NEW L, L = [p \in Party |-> L[p]],
           \A p \in Party : L[p] = Store(p, J[p].lg, op, Vals(J[p], args))
    PROVE  \E K : Gives(JDo(op, args, ""), J, K, {}, L)
  <1>1. PICK i : i = DoI(op, args, "")
    OBVIOUS
  <1>2. op \in Locals /\ "" \in Names
    BY InNames DEF Locals
  <1>4. IsDo(i, op, args, "")
    BY <1>1, <1>2, DoIsAll
  <1>5. PICK K : K = JLg(J, L)
    OBVIOUS
  <1>6. HasStored(J, L, K)
    BY <1>5, JLgFacts
  <1>7. ASSUME NEW p \in Party, NEW g PROVE Compute(p, SetProg(J[p], g), i) = SetProg(K[p], g)
    <2>1. PICK s : s = SetProg(J[p], g)
      OBVIOUS
    <2>2. s.mem = J[p].mem /\ s.lg = J[p].lg
      BY <2>1, SetProgFacts DEF IsJoint
    <2>3. ArgsOf(s, i) = Vals(J[p], args)
      <3>1. Vals(s, args) = Vals(J[p], args)
        BY <2>2 DEF Vals
      <3> QED BY <1>4, <3>1 DEF IsDo
    <2>4. i.op = op
      BY <1>4 DEF IsDo
    <2>5. Compute(p, s, i) = [s EXCEPT !.lg = Store(p, @, i.op, ArgsOf(s, i))]
      BY <2>4, ComputeStore
    <2>6. Compute(p, s, i) = [s EXCEPT !.lg = L[p]]
      BY <2>2, <2>3, <2>4, <2>5
    <2> QED BY <1>6, <2>1, <2>6 DEF HasStored
  <1>8. Local(i) \in JProgs /\ Exec(Local(i), J, K)
    BY <1>4, <1>7, ExecLocal DEF IsDo
  <1>9. Gives(JDo(op, args, ""), J, K, {}, L)
    BY <1>4, <1>6, <1>8 DEF Gives, HasStored, IsDo
  <1> QED BY <1>9

JMask(J, n) == [p \in Party |-> Randoms(p, J[p], n)]

\* n scalars at each party
IsVec(A, n) == A \in [Party -> [1..n -> F]]

LEMMA MaskIn ==
    ASSUME DrawsInField, NEW J, IsJoint(J), NEW n \in Nat
    PROVE  IsVec(JMask(J, n), n)
  <1>1. ASSUME NEW p \in Party, NEW k \in 1..n PROVE Rand(p, J[p].drawn + k) \in F
    <2>1. J[p].drawn + k \in Nat
      BY DEF IsJoint
    <2> QED BY <2>1 DEF DrawsInField
  <1> QED BY <1>1 DEF Randoms, JMask, IsVec

\* X and Y are the shares and the messages of a product masked with M.
Masked(n, E, B, C, M, X, Y) ==
    \A p \in Party : /\ Len(B[p]) = n /\ X[p] = PtSub(C[p], M[p])
                     /\ Y[p] = CtAddPlain(CtMulPlain(E[p], B[p]), M[p])

LEMMA DoCross ==
    ASSUME NEW J, IsJoint(J), NEW e \in Names, NEW b \in Names, NEW c \in Names,
           NEW res \in Names, res # "cross", NEW E, Holds(J, e, E), NEW B, Holds(J, b, B),
           NEW C, Holds(J, c, C), NEW n \in Nat, NEW X, NEW Y,
           Masked(n, E, B, C, JMask(J, n), X, Y),
           NEW K, K = JDrawn(JPut(JPut(J, res, X), "cross", Y), n)
    PROVE  /\ Gives(JDo("cross_products", <<e, b, c>>, res), J, K, {res, "cross"}, Lg(J))
           /\ Holds(K, res, X) /\ Holds(K, "cross", Y)
  <1>1. PICK M : M = [p \in Party |-> Randoms(p, J[p], n)]
    OBVIOUS
  <1>2. \A p \in Party : /\ Len(B[p]) = n /\ X[p] = PtSub(C[p], M[p])
                         /\ Y[p] = CtAddPlain(CtMulPlain(E[p], B[p]), M[p])
    BY <1>1 DEF JMask, Masked
  <1>5. PICK i : i = DoI("cross_products", <<e, b, c>>, res)
    OBVIOUS
  <1>6. IsDo(i, "cross_products", <<e, b, c>>, res)
    <2>1. "cross_products" \in Locals /\ <<e, b, c>> \in Seq(Names)
      BY ArgLists, InLocals
    <2> QED BY <1>5, <2>1, DoIsAll
  <1>7. PICK P : P = JPut(J, res, X)
    OBVIOUS
  <1>8. IsPut(J, res, X, P)
    BY <1>7, JPutFacts
  <1>9. IsJoint(P)
    BY <1>8 DEF IsPut
  <1>10. PICK Q : Q = JPut(P, "cross", Y)
    OBVIOUS
  <1>11. IsPut(P, "cross", Y, Q)
    BY <1>9, <1>10, JPutFacts
  <1>12. IsJoint(Q)
    BY <1>11 DEF IsPut
  <1>13. K = JDrawn(Q, n)
    BY <1>7, <1>10
  <1>14. HasDrawn(Q, n, K)
    BY <1>12, <1>13, JDrawnFacts
  <1>15. ASSUME NEW p \in Party, NEW g PROVE Compute(p, SetProg(J[p], g), i) = SetProg(K[p], g)
    <2>1. PICK s : s = SetProg(J[p], g)
      OBVIOUS
    <2>2. s.mem = J[p].mem /\ s.drawn = J[p].drawn
      BY <2>1, SetProgFacts DEF IsJoint
    <2>3. PICK v : v = ArgsOf(s, i)
      OBVIOUS
    <2>4. v[1] = E[p] /\ v[2] = B[p] /\ v[3] = C[p]
      BY <1>6, <2>2, <2>3 DEF IsDo, Vals, Holds
    <2>5. M[p] = Randoms(p, s, Len(v[2]))
      BY <1>1, <1>2, <2>2, <2>4 DEF Randoms
    <2>6. i.op = "cross_products" /\ i.res = res
      BY <1>6 DEF IsDo
    <2>7. Compute(p, s, i) = [Put(Put(s, i.res, PtSub(v[3], M[p])),
                                  "cross", CtAddPlain(CtMulPlain(v[1], v[2]), M[p]))
                              EXCEPT !.drawn = @ + Len(v[2])]
      BY <2>3, <2>5, <2>6, ComputeCross
    <2>8. Compute(p, s, i) = [Put(Put(s, res, X[p]), "cross", Y[p]) EXCEPT !.drawn = @ + n]
      BY <1>2, <2>4, <2>6, <2>7
    <2>9. Put(s, res, X[p]) = SetProg(P[p], g)
      BY <1>8, <2>1 DEF IsPut
    <2>10. Put(SetProg(P[p], g), "cross", Y[p]) = SetProg(Q[p], g)
      BY <1>11 DEF IsPut
    <2>11. Compute(p, s, i) = [SetProg(Q[p], g) EXCEPT !.drawn = @ + n]
      BY <2>8, <2>9, <2>10
    <2> QED BY <1>14, <2>1, <2>11 DEF HasDrawn
  <1>16. Local(i) \in JProgs /\ Exec(Local(i), J, K)
    BY <1>6, <1>15, ExecLocal DEF IsDo
  <1>17. Keeps(J, K, {res, "cross"}) /\ Holds(K, res, X) /\ Holds(K, "cross", Y)
    BY <1>8, <1>11, <1>14 DEF HasDrawn, IsPut, Keeps
  <1>18. Gives(JDo("cross_products", <<e, b, c>>, res), J, K, {res, "cross"}, Lg(J))
    BY <1>6, <1>8, <1>11, <1>14, <1>16, <1>17 DEF Gives, HasDrawn, IsPut, IsDo
  <1> QED BY <1>17, <1>18

\* Triples leave the pool.
JUse(J, n, T) == [p \in Party |-> Use(J[p], n, T[p])]

LEMMA UseFacts ==
    ASSUME NEW s, IsState(s), NEW n, NEW t, NEW u, u = Use(s, n, t)
    PROVE  /\ IsState(u) /\ u.lg = consume_triples(s.lg, n) /\ u.prep = s.prep
           /\ u.handed = s.handed /\ u.calls = s.calls /\ u.mem = s.mem /\ u.drawn = s.drawn
           /\ u.status = s.status
  <1>1. PICK l, w : l = consume_triples(s.lg, n) /\ w = s.used \o Log("offline", t)
    OBVIOUS
  <1>2. u = [s EXCEPT !.lg = l, !.used = w]
    BY <1>1 DEF Use
  <1>3. /\ IsState(u) /\ u.lg = l /\ u.prep = s.prep
        /\ u.handed = s.handed /\ u.calls = s.calls /\ u.mem = s.mem /\ u.drawn = s.drawn
        /\ u.status = s.status
    <2> HIDE <1>1
    <2> QED BY <1>2 DEF IsState, Fields
  <1> QED BY <1>1, <1>3

LEMMA UseProg ==
    ASSUME NEW s, IsState(s), NEW n, NEW t, NEW g
    PROVE  Use(SetProg(s, g), n, t) = SetProg(Use(s, n, t), g)
  <1>1. PICK l, w : l = consume_triples(s.lg, n) /\ w = s.used \o Log("offline", t)
    OBVIOUS
  <1>2. Use(s, n, t) = [s EXCEPT !.lg = l, !.used = w]
    BY <1>1 DEF Use
  <1>3. PICK u : u = SetProg(s, g)
    OBVIOUS
  <1>4. IsState(u) /\ u.lg = s.lg /\ u.used = s.used
    BY <1>3, SetProgFacts
  <1>5. Use(u, n, t) = [u EXCEPT !.lg = l, !.used = w]
    BY <1>1, <1>4 DEF Use
  <1>6. [u EXCEPT !.lg = l, !.used = w] = SetProg([s EXCEPT !.lg = l, !.used = w], g)
    <2> HIDE <1>1
    <2> QED BY <1>3 DEF SetProg, IsState, Fields
  <1> QED BY <1>2, <1>3, <1>5, <1>6

HasUsed(J, n, T, K) ==
    /\ IsJoint(K) /\ Keeps(J, K, {}) /\ Lg(K) = [p \in Party |-> consume_triples(J[p].lg, n)]
    /\ \A p \in Party : /\ K[p].prep = J[p].prep /\ K[p].calls = J[p].calls
                        /\ K[p].mem = J[p].mem
                        /\ \A g : Use(SetProg(J[p], g), n, T[p]) = SetProg(K[p], g)

LEMMA JUseFacts ==
    ASSUME NEW J, IsJoint(J), NEW n, NEW T, NEW K, K = JUse(J, n, T)
    PROVE  HasUsed(J, n, T, K)
  <1>1. \A p \in Party : IsState(J[p]) /\ J[p].status = "running" /\ J[p].drawn \in Nat
    BY DEF IsJoint
  <1>2. ASSUME NEW p \in Party
        PROVE  LET s == J[p]
                   t == K[p]
               IN  /\ IsState(t) /\ t.lg = consume_triples(s.lg, n) /\ t.prep = s.prep
                   /\ t.handed = s.handed /\ t.calls = s.calls /\ t.drawn = s.drawn
                   /\ t.status = s.status /\ t.mem = s.mem
    <2>1. K[p] = Use(J[p], n, T[p])
      BY DEF JUse
    <2> QED BY <1>1, <2>1, UseFacts
  <1>3. K = [p \in Party |-> K[p]]
    BY DEF JUse
  <1>4. IsJoint(K)
    BY <1>1, <1>2, <1>3, PartyIs DEF IsJoint
  <1>5. Keeps(J, K, {})
    BY <1>2 DEF Holds, Keeps
  <1>6. Lg(K) = [p \in Party |-> consume_triples(J[p].lg, n)]
    BY <1>2 DEF Lg
  <1>7. \A p \in Party : \A g : Use(SetProg(J[p], g), n, T[p]) = SetProg(K[p], g)
    BY <1>1, UseProg DEF JUse
  <1> QED BY <1>2, <1>4, <1>5, <1>6, <1>7 DEF HasUsed

TakenTriples(lg, n) == [f \in DOMAIN lg.triples |-> split_off(lg.triples[f], n)]

LEMMA DoConsume ==
    ASSUME NEW J, IsJoint(J), NEW x \in Names, NEW X, Holds(J, x, X),
           NEW n, \A p \in Party : Len(X[p]) = n,
           NEW L, L = [p \in Party |-> L[p]],
           \A p \in Party : L[p] = consume_triples(J[p].lg, n),
           NEW A, \A p \in Party : A[p] = TakenTriples(J[p].lg, n).a,
           NEW B, \A p \in Party : B[p] = TakenTriples(J[p].lg, n).b,
           NEW C, \A p \in Party : C[p] = TakenTriples(J[p].lg, n).c
    PROVE  \E K : /\ Gives(JDo("consume_triples", <<x>>, ""), J, K, {"ta", "tb", "tc"}, L)
                  /\ Holds(K, "ta", A) /\ Holds(K, "tb", B) /\ Holds(K, "tc", C)
  <1>1. PICK T : T = [p \in Party |-> TakenTriples(J[p].lg, n)]
    OBVIOUS
  <1>2. \A p \in Party : A[p] = T[p].a /\ B[p] = T[p].b /\ C[p] = T[p].c
    BY <1>1
  <1>3. PICK i : i = DoI("consume_triples", <<x>>, "")
    OBVIOUS
  <1>4. IsDo(i, "consume_triples", <<x>>, "")
    <2>1. "consume_triples" \in Locals /\ <<x>> \in Seq(Names) /\ "" \in Names
      BY ArgLists, InLocals, InNames
    <2> QED BY <1>3, <2>1, DoIsAll
  <1>5. PICK U : U = JUse(J, n, T)
    OBVIOUS
  <1>6. HasUsed(J, n, T, U)
    BY <1>5, JUseFacts
  <1>7. PICK P : P = JPut(U, "ta", A)
    OBVIOUS
  <1>8. IsPut(U, "ta", A, P)
    BY <1>6, <1>7, JPutFacts DEF HasUsed
  <1>9. PICK Q : Q = JPut(P, "tb", B)
    OBVIOUS
  <1>10. IsPut(P, "tb", B, Q)
    <2>1. IsJoint(P)
      BY <1>8 DEF IsPut
    <2> QED BY <1>9, <2>1, JPutFacts
  <1>11. PICK K : K = JPut(Q, "tc", C)
    OBVIOUS
  <1>12. IsPut(Q, "tc", C, K)
    <2>1. IsJoint(Q)
      BY <1>10 DEF IsPut
    <2> QED BY <1>11, <2>1, JPutFacts
  <1>13. ASSUME NEW p \in Party, NEW g PROVE Compute(p, SetProg(J[p], g), i) = SetProg(K[p], g)
    <2>1. PICK s : s = SetProg(J[p], g)
      OBVIOUS
    <2>2. s.mem = J[p].mem /\ s.lg = J[p].lg
      BY <2>1, SetProgFacts DEF IsJoint
    <2>3. n = Len(ArgsOf(s, i)[1])
      <3>1. ArgsOf(s, i) = Vals(s, <<x>>)
        BY <1>4 DEF IsDo
      <3>2. Vals(s, <<x>>)[1] = X[p]
        BY <2>2 DEF Vals, Holds
      <3> QED BY <3>1, <3>2
    <2>4. PICK t : t = [f \in DOMAIN s.lg.triples |-> split_off(s.lg.triples[f], n)]
      OBVIOUS
    <2>5. t = T[p]
      BY <1>1, <2>2, <2>4 DEF TakenTriples
    <2>6. i.op = "consume_triples"
      BY <1>4 DEF IsDo
    <2>7. Compute(p, s, i) = Put(Put(Put(Use(s, n, t), "ta", t.a), "tb", t.b), "tc", t.c)
      BY <2>3, <2>4, <2>6, ComputeConsume
    <2>8. Compute(p, s, i) = Put(Put(Put(Use(s, n, T[p]), "ta", A[p]), "tb", B[p]), "tc", C[p])
      BY <1>2, <2>5, <2>7
    <2>9. Use(s, n, T[p]) = SetProg(U[p], g)
      BY <1>6, <2>1 DEF HasUsed
    <2>10. Put(SetProg(U[p], g), "ta", A[p]) = SetProg(P[p], g)
      BY <1>8 DEF IsPut
    <2>11. Put(SetProg(P[p], g), "tb", B[p]) = SetProg(Q[p], g)
      BY <1>10 DEF IsPut
    <2>12. Put(SetProg(Q[p], g), "tc", C[p]) = SetProg(K[p], g)
      BY <1>12 DEF IsPut
    <2> QED BY <2>1, <2>8, <2>9, <2>10, <2>11, <2>12
  <1>14. Local(i) \in JProgs /\ Exec(Local(i), J, K)
    BY <1>4, <1>13, ExecLocal DEF IsDo
  <1>15. /\ Keeps(J, K, {"ta", "tb", "tc"}) /\ Holds(K, "ta", A) /\ Holds(K, "tb", B)
         /\ Holds(K, "tc", C)
    BY <1>6, <1>8, <1>10, <1>12 DEF HasUsed, IsPut, Keeps
  <1>16. Gives(JDo("consume_triples", <<x>>, ""), J, K, {"ta", "tb", "tc"}, L)
    <2>1. \A p \in Party : K[p].prep = J[p].prep /\ K[p].calls = J[p].calls
      BY <1>6, <1>8, <1>10, <1>12 DEF HasUsed, IsPut
    <2>2. IsJoint(K) /\ Lg(K) = Lg(U)
      BY <1>8, <1>10, <1>12 DEF IsPut
    <2>4. Lg(U) = [p \in Party |-> consume_triples(J[p].lg, n)]
      BY <1>6 DEF HasUsed
    <2>5. Lg(K) = L
      BY <2>2, <2>4
    <2>3. JDo("consume_triples", <<x>>, "") = Local(i)
      BY <1>4 DEF IsDo
    <2> QED BY <1>14, <1>15, <2>1, <2>2, <2>3, <2>5 DEF Gives
  <1> QED BY <1>15, <1>16

---------------------------------------------------------------------------
(* Batches of shares                                                       *)

KeysInField == key[0] \in F /\ key[1] \in F

\* Party p holds n values of S.
JBatch(X, n, S) == X = [p \in Party |-> [k \in 1..n |-> X[p][k]]]
                   /\ \A p \in Party : \A k \in 1..n : X[p][k] \in S

LEMMA JBatchIn ==
    ASSUME NEW X, NEW n, NEW S
    PROVE  JBatch(X, n, S) <=> X \in [Party -> [1..n -> S]]
  <1>1. JBatch(X, n, S) => X \in [Party -> [1..n -> S]]
    <2> SUFFICES ASSUME JBatch(X, n, S) PROVE X \in [Party -> [1..n -> S]]
      OBVIOUS
    <2>1. \A p \in Party : X[p] = [k \in 1..n |-> X[p][k]]
      BY DEF JBatch
    <2>2. \A p \in Party : X[p] \in [1..n -> S]
      BY <2>1 DEF JBatch
    <2> QED BY <2>2 DEF JBatch
  <1>2. X \in [Party -> [1..n -> S]] => JBatch(X, n, S)
    BY DEF JBatch
  <1> QED BY <1>1, <1>2

LEMMA BatchShape ==
    ASSUME NEW X, NEW n, X = [p \in Party |-> [k \in 1..n |-> X[p][k]]], NEW v \in [1..n -> F],
           \A k \in 1..n : Authentic(Col(X, k), v[k], F)
    PROVE  AuthBatch(X, v, n)
  <1>1. ASSUME NEW p \in Party, NEW k \in 1..n PROVE X[p][k] \in ShareOf(F)
    <2>1. Col(X, k) \in [Party -> ShareOf(F)]
      BY DEF Authentic
    <2> QED BY <2>1 DEF Col
  <1>2. X \in [Party -> [1..n -> ShareOf(F)]]
    BY <1>1, JBatchIn DEF JBatch
  <1> QED BY <1>2 DEF AuthBatch

LEMMA MacKeyIn == KeysInField => MacKey \in F
  BY Closed, CarrierFacts DEF KeysInField, MacKey

\* The operations of ValueMacBatch at both parties
JSub(X, Y) == [p \in Party |-> BatchSub(X[p], Y[p])]
JAdd(X, Y) == [p \in Party |-> BatchAdd(X[p], Y[p])]
JScaleBy(X, c) == [p \in Party |-> BatchScaleBy(X[p], c)]
JScale(X, c) == [p \in Party |-> BatchScale(X[p], c)]
JAddPublic(X, c) == [p \in Party |-> add_public_value(p, c, X[p])]
JParts(X, M) == [p \in Party |-> from_parts(X[p], M[p])]

Scaled(c, v) == [k \in DOMAIN v |-> Times(c, v[k])]

LEMMA SubBatch ==
    ASSUME KeysInField, NEW X, NEW Y, NEW v, NEW w, NEW n, AuthBatch(X, v, n), AuthBatch(Y, w, n)
    PROVE  AuthBatch(JSub(X, Y), PtSub(v, w), n)
  <1>1. PICK Z, z : Z = [p \in Party |-> BatchSub(X[p], Y[p])] /\ z = PtSub(v, w)
    OBVIOUS
  <1>2. \A p \in Party : DOMAIN X[p] = 1..n
    BY DEF AuthBatch
  <1>3. v \in [1..n -> F] /\ w \in [1..n -> F]
    BY DEF AuthBatch
  <1>4. Z = [p \in Party |-> [k \in 1..n |-> Z[p][k]]]
    BY <1>1, <1>2 DEF BatchSub
  <1>5. z \in [1..n -> F] /\ \A k \in 1..n : z[k] = Minus(v[k], w[k])
    BY <1>1, <1>3, Closed, CarrierFacts DEF PtSub
  <1>6. ASSUME NEW k \in 1..n PROVE Authentic(Col(Z, k), z[k], F)
    <2>1. Col(Z, k) = Sub(Col(X, k), Col(Y, k))
      BY <1>1, <1>2 DEF Col, Sub, BatchSub
    <2>2. Authentic(Col(X, k), v[k], F) /\ Authentic(Col(Y, k), w[k], F)
      BY DEF AuthBatch
    <2> QED BY <1>5, <2>1, <2>2, SubAuthentic, CarrierFacts, MacKeyIn
  <1>7. AuthBatch(Z, z, n)
    BY <1>4, <1>5, <1>6, BatchShape
  <1> QED BY <1>1, <1>7 DEF JSub

LEMMA AddBatch ==
    ASSUME KeysInField, NEW X, NEW Y, NEW v, NEW w, NEW n, AuthBatch(X, v, n), AuthBatch(Y, w, n)
    PROVE  AuthBatch(JAdd(X, Y), PtAdd(v, w), n)
  <1>1. PICK Z, z : Z = [p \in Party |-> BatchAdd(X[p], Y[p])] /\ z = PtAdd(v, w)
    OBVIOUS
  <1>2. \A p \in Party : DOMAIN X[p] = 1..n
    BY DEF AuthBatch
  <1>3. v \in [1..n -> F] /\ w \in [1..n -> F]
    BY DEF AuthBatch
  <1>4. Z = [p \in Party |-> [k \in 1..n |-> Z[p][k]]]
    BY <1>1, <1>2 DEF BatchAdd
  <1>5. z \in [1..n -> F] /\ \A k \in 1..n : z[k] = Plus(v[k], w[k])
    BY <1>1, <1>3, Closed, CarrierFacts DEF PtAdd
  <1>6. ASSUME NEW k \in 1..n PROVE Authentic(Col(Z, k), z[k], F)
    <2>1. Col(Z, k) = Add(Col(X, k), Col(Y, k))
      BY <1>1, <1>2 DEF Col, Add, BatchAdd
    <2>2. Authentic(Col(X, k), v[k], F) /\ Authentic(Col(Y, k), w[k], F)
      BY DEF AuthBatch
    <2> QED BY <1>5, <2>1, <2>2, AddAuthentic, CarrierFacts, MacKeyIn
  <1>7. AuthBatch(Z, z, n)
    BY <1>4, <1>5, <1>6, BatchShape
  <1> QED BY <1>1, <1>7 DEF JAdd

LEMMA ScaleByBatch ==
    ASSUME KeysInField, NEW X, NEW v, NEW n, AuthBatch(X, v, n), NEW c \in [1..n -> F]
    PROVE  AuthBatch(JScaleBy(X, c), PtMul(c, v), n)
  <1>1. PICK Z, z : Z = [p \in Party |-> BatchScaleBy(X[p], c)] /\ z = PtMul(c, v)
    OBVIOUS
  <1>2. \A p \in Party : DOMAIN X[p] = 1..n
    BY DEF AuthBatch
  <1>3. v \in [1..n -> F]
    BY DEF AuthBatch
  <1>4. Z = [p \in Party |-> [k \in 1..n |-> Z[p][k]]]
    BY <1>1, <1>2 DEF BatchScaleBy
  <1>5. z \in [1..n -> F] /\ \A k \in 1..n : z[k] = Times(c[k], v[k])
    BY <1>1, <1>3, Closed, CarrierFacts DEF PtMul
  <1>6. ASSUME NEW k \in 1..n PROVE Authentic(Col(Z, k), z[k], F)
    <2>1. Col(Z, k) = MulPublic(Public(c[k]), Col(X, k))
      BY <1>1, <1>2 DEF Col, MulPublic, Public, BatchScaleBy
    <2>2. Authentic(Col(X, k), v[k], F)
      BY DEF AuthBatch
    <2> QED BY <1>5, <2>1, <2>2, MulPublicAuthentic, CarrierFacts, MacKeyIn
  <1>7. AuthBatch(Z, z, n)
    BY <1>4, <1>5, <1>6, BatchShape
  <1> QED BY <1>1, <1>7 DEF JScaleBy

LEMMA ScaleBatch ==
    ASSUME KeysInField, NEW X, NEW v, NEW n, AuthBatch(X, v, n), NEW c \in F
    PROVE  AuthBatch(JScale(X, c), Scaled(c, v), n)
  <1>1. PICK d : d = [k \in 1..n |-> c]
    OBVIOUS
  <1>2. d \in [1..n -> F]
    BY <1>1
  <1>3. AuthBatch(JScaleBy(X, d), PtMul(d, v), n)
    BY <1>2, ScaleByBatch
  <1>4. \A p \in Party : BatchScale(X[p], c) = BatchScaleBy(X[p], d)
    <2>1. \A p \in Party : DOMAIN X[p] = 1..n
      BY DEF AuthBatch
    <2> QED BY <1>1, <2>1 DEF BatchScale, BatchScaleBy
  <1>5. PtMul(d, v) = Scaled(c, v)
    <2>1. DOMAIN v = 1..n
      BY DEF AuthBatch
    <2> QED BY <1>1, <2>1 DEF PtMul, Scaled
  <1>6. JScaleBy(X, d) = JScale(X, c)
    BY <1>4 DEF JScaleBy, JScale
  <1> QED BY <1>3, <1>5, <1>6

LEMMA AddPublicBatch ==
    ASSUME KeysInField, NEW X, NEW v, NEW n, AuthBatch(X, v, n), NEW c \in [1..n -> F]
    PROVE  AuthBatch(JAddPublic(X, c), PtAdd(v, c), n)
  <1>1. PICK Z, z : Z = [p \in Party |-> add_public_value(p, c, X[p])] /\ z = PtAdd(v, c)
    OBVIOUS
  <1>2. \A p \in Party : DOMAIN X[p] = 1..n
    BY DEF AuthBatch
  <1>3. v \in [1..n -> F]
    BY DEF AuthBatch
  <1>4. Z = [p \in Party |-> [k \in 1..n |-> Z[p][k]]]
    BY <1>1, <1>2 DEF add_public_value
  <1>5. z \in [1..n -> F] /\ \A k \in 1..n : z[k] = Plus(v[k], c[k])
    BY <1>1, <1>3, Closed, CarrierFacts DEF PtAdd
  <1>6. ASSUME NEW k \in 1..n PROVE Authentic(Col(Z, k), z[k], F)
    <2>1. Col(Z, k) = AddPublic(Col(X, k), Public(c[k]))
      BY <1>1, <1>2 DEF Col, AddPublic, Public, add_public_value
    <2>2. Authentic(Col(X, k), v[k], F)
      BY DEF AuthBatch
    <2> QED BY <1>5, <2>1, <2>2, AddPublicAuthentic, CarrierFacts DEF KeysInField
  <1>7. AuthBatch(Z, z, n)
    BY <1>4, <1>5, <1>6, BatchShape
  <1> QED BY <1>1, <1>7 DEF JAddPublic

\* Opening a batch gives both parties the shared values.
LEMMA OpenBatch ==
    ASSUME NEW X, NEW v, NEW n, AuthBatch(X, v, n), NEW p \in Party
    PROVE  /\ values(X[p]) \in [1..n -> F] /\ macs(X[p]) \in [1..n -> F]
           /\ PtAdd(values(X[p]), values(X[1 - p])) = v
  <1>1. /\ X[p] \in [1..n -> ShareOf(F)] /\ X[1 - p] \in [1..n -> ShareOf(F)]
        /\ v \in [1..n -> F]
    BY PartyIs DEF AuthBatch
  <1>2. \A s \in ShareOf(F) : s.share \in F /\ s.mac \in F
    BY DEF ShareOf
  <1>3. values(X[p]) \in [1..n -> F] /\ macs(X[p]) \in [1..n -> F]
    BY <1>1, <1>2 DEF values, macs
  <1>4. ASSUME NEW k \in 1..n PROVE Plus(X[p][k].share, X[1 - p][k].share) = v[k]
    <2>1. Plus(X[0][k].share, X[1][k].share) = v[k]
      BY PartyIs DEF AuthBatch, Authentic, Open, Col
    <2>2. X[p][k].share \in F /\ X[1 - p][k].share \in F
      BY <1>1, <1>2
    <2>3. \A x, y \in F : Plus(x, y) = Plus(y, x)
      BY GroupAssumption, CarrierFacts
    <2> QED BY <2>1, <2>2, <2>3, PartyIs
  <1>5. PtAdd(values(X[p]), values(X[1 - p])) = [k \in 1..n |-> v[k]]
    BY <1>1, <1>4 DEF PtAdd, values
  <1> QED BY <1>1, <1>3, <1>5

\* Shares and their MACs, of which the padding is dropped
MacsOn(M, X, n) ==
    /\ \A p \in Party : \A k \in 1..n : M[p][k] \in F
    /\ \A k \in 1..n : Plus(M[0][k], M[1][k]) = Times(MacKey, Plus(X[0][k], X[1][k]))

LEMMA FromParts ==
    ASSUME KeysInField, NEW n, NEW X, IsVec(X, n), NEW M, MacsOn(M, X, n)
    PROVE  AuthBatch(JParts(X, M), PtAdd(X[0], X[1]), n)
  <1>7. /\ X \in [Party -> [1..n -> F]]
        /\ \A p \in Party : \A k \in 1..n : M[p][k] \in F
        /\ \A k \in 1..n : Plus(M[0][k], M[1][k]) = Times(MacKey, Plus(X[0][k], X[1][k]))
    BY DEF IsVec, MacsOn
  <1>1. PICK Z, z : Z = [p \in Party |-> from_parts(X[p], M[p])] /\ z = PtAdd(X[0], X[1])
    OBVIOUS
  <1>2. /\ \A p \in Party : DOMAIN X[p] = 1..n /\ \A k \in 1..n : X[p][k] \in F
        /\ X[0] \in [1..n -> F] /\ X[1] \in [1..n -> F]
    BY <1>7, PartyIs
  <1>3. /\ Z = [p \in Party |-> [k \in 1..n |-> Z[p][k]]]
        /\ \A p \in Party : \A k \in 1..n : Z[p][k] = [share |-> X[p][k], mac |-> M[p][k]]
    BY <1>1, <1>2 DEF from_parts
  <1>4. z \in [1..n -> F] /\ \A k \in 1..n : z[k] = Plus(X[0][k], X[1][k])
    BY <1>1, <1>2, Closed, CarrierFacts DEF PtAdd
  <1>5. ASSUME NEW k \in 1..n PROVE Authentic(Col(Z, k), z[k], F)
    <2>1. PICK s0, s1, m0, m1 \in F : s0 = X[0][k] /\ s1 = X[1][k] /\ m0 = M[0][k] /\ m1 = M[1][k]
      BY <1>2, <1>7, PartyIs
    <2>2. PICK x : x = Col(Z, k)
      OBVIOUS
    <2>3. /\ x = [p \in Party |-> x[p]]
          /\ x[0] = [share |-> s0, mac |-> m0] /\ x[1] = [share |-> s1, mac |-> m1]
      BY <1>3, <2>1, <2>2, PartyIs DEF Col
    <2>4. z[k] = Plus(s0, s1) /\ Plus(m0, m1) = Times(MacKey, z[k])
      BY <1>4, <1>7, <2>1
    <2>5. /\ x \in [Party -> ShareOf(F)]
          /\ x[0].share = s0 /\ x[1].share = s1
          /\ x[0].mac = m0 /\ x[1].mac = m1
      BY <2>3, BothParties
    <2>6. Authentic(x, z[k], F)
      BY <2>4, <2>5 DEF Authentic, Open
    <2> QED BY <2>2, <2>6
  <1>6. AuthBatch(Z, z, n)
    BY <1>3, <1>4, <1>5, BatchShape
  <1> QED BY <1>1, <1>6 DEF JParts

\* x - y and z - w cancel when x + z and y + w are the same.
LEMMA SumsCancel ==
    ASSUME NEW x \in F, NEW y \in F, NEW z \in F, NEW w \in F, Plus(x, z) = Plus(y, w)
    PROVE  Plus(Minus(x, y), Minus(z, w)) = Zero
  <1>1. Neg(y) \in F /\ Neg(w) \in F /\ Plus(y, w) \in F
    BY Closed, CarrierFacts
  <1>2. Plus(Plus(x, Neg(y)), Plus(z, Neg(w))) = Plus(Plus(x, z), Plus(Neg(y), Neg(w)))
    BY <1>1, Regroup, CarrierFacts
  <1>3. Plus(Neg(y), Neg(w)) = Neg(Plus(y, w))
    BY NegPlus, CarrierFacts
  <1>4. Plus(Plus(y, w), Neg(Plus(y, w))) = Zero
    BY <1>1, GroupAssumption, CarrierFacts
  <1> QED BY <1>2, <1>3, <1>4 DEF Minus

\* The MAC checks of the random linear combination of an authentic batch
\* cancel (mac_check.rs).
LEMMA MacChecksCancel ==
    ASSUME KeysInField, NEW n \in Nat \ {0}, NEW X, NEW v, AuthBatch(X, v, n),
           NEW c \in [1..n -> F]
    PROVE  /\ \A p \in Party : MacCheckOf(p, v, X[p], c) \in F
           /\ Plus(MacCheckOf(0, v, X[0], c), MacCheckOf(1, v, X[1], c)) = Zero
  <1>1. v \in [1..n -> F] /\ \A p \in Party : X[p] \in [1..n -> ShareOf(F)]
    BY DEF AuthBatch
  <1>2. PICK xs : xs = [k \in 1..n |-> MulPublic(Public(c[k]), Col(X, k))]
    OBVIOUS
  <1>3. PICK vs : vs = [k \in 1..n |-> Times(c[k], v[k])]
    OBVIOUS
  <1>4. DOMAIN xs = 1..n /\ Len(vs) = n
    BY <1>2, <1>3
  <1>5. ASSUME NEW k \in 1..n PROVE Authentic(xs[k], vs[k], F)
    <2>1. Authentic(Col(X, k), v[k], F)
      BY DEF AuthBatch
    <2> QED BY <1>2, <1>3, <2>1, MulPublicAuthentic, CarrierFacts, MacKeyIn
  <1>6. Authentic(Sum(xs), SumSeq(vs), F)
    BY <1>4, <1>5, SumAuthentic, CarrierFacts, MacKeyIn
  <1>7. PICK S0, S1 \in F : /\ Sum(xs)[0].mac = S0 /\ Sum(xs)[1].mac = S1
                            /\ Plus(S0, S1) = Times(MacKey, SumSeq(vs)) /\ SumSeq(vs) \in F
    BY <1>6, Parts, CarrierFacts
  <1>8. linear_combination(v, c) = SumSeq(vs)
    <2>1. PtMul(v, c) = vs
      BY <1>1, <1>3, FieldAssumption DEF PtMul
    <2> QED BY <2>1 DEF linear_combination
  <1>9. ASSUME NEW p \in Party PROVE linear_combination(macs(X[p]), c) = Sum(xs)[p].mac
    <2>1. \A s \in ShareOf(F) : s.mac \in F
      BY DEF ShareOf
    <2>2. \A k \in 1..n : X[p][k].mac \in F
      BY <1>1, <2>1
    <2>3. \A k \in 1..n : xs[k][p].mac = Times(c[k], X[p][k].mac)
      BY <1>2 DEF MulPublic, Public, Col, mul
    <2>4. PICK m : m = [k \in DOMAIN xs |-> xs[k][p]]
      OBVIOUS
    <2>5. DOMAIN m = 1..n /\ \A k \in 1..n : m[k].mac = Times(c[k], X[p][k].mac)
      BY <1>4, <2>3, <2>4
    <2>6. PtMul(macs(X[p]), c) = [k \in 1..n |-> Times(X[p][k].mac, c[k])]
      BY <1>1 DEF PtMul, macs
    <2>7. [k \in DOMAIN m |-> m[k].mac] = [k \in 1..n |-> Times(X[p][k].mac, c[k])]
      BY <2>2, <2>5, FieldAssumption
    <2>8. Sum(xs)[p] = sum(m)
      BY <2>4 DEF Sum
    <2>9. sum(m).mac = SumSeq([k \in DOMAIN m |-> m[k].mac])
      BY DEF sum
    <2> QED BY <2>6, <2>7, <2>8, <2>9 DEF linear_combination
  <1>10. PICK V \in F : V = SumSeq(vs)
    BY <1>7
  <1>11. PICK k0, k1 \in F : k0 = key[0] /\ k1 = key[1]
    BY DEF KeysInField
  <1>12. /\ MacCheckOf(0, v, X[0], c) = Minus(S0, Times(k0, V))
         /\ MacCheckOf(1, v, X[1], c) = Minus(S1, Times(k1, V))
    BY <1>7, <1>8, <1>9, <1>10, <1>11, PartyIs DEF MacCheckOf
  <1>13. Times(k0, V) \in F /\ Times(k1, V) \in F
    BY Closed, CarrierFacts
  <1>14. Plus(S0, S1) = Plus(Times(k0, V), Times(k1, V))
    <2>1. Plus(S0, S1) = Times(Plus(k0, k1), V)
      BY <1>7, <1>10, <1>11 DEF MacKey
    <2> QED BY <2>1, ModuleAssumption, CarrierFacts
  <1>15. Minus(S0, Times(k0, V)) \in F /\ Minus(S1, Times(k1, V)) \in F
    BY <1>13, Closed, CarrierFacts
  <1>16. Plus(Minus(S0, Times(k0, V)), Minus(S1, Times(k1, V))) = Zero
    BY <1>13, <1>14, SumsCancel
  <1> QED BY <1>12, <1>15, <1>16, PartyIs

\* Exchanging b[p] * a[1 - p] + mask shares the cross terms of a product
\* (triplets.rs): c - mask + what the counterparty sent.
LEMMA CrossTerms ==
    ASSUME NEW c0 \in F, NEW c1 \in F, NEW m0 \in F, NEW m1 \in F, NEW x0 \in F, NEW x1 \in F
    PROVE  Plus(Plus(Minus(c0, m0), Plus(x1, m1)), Plus(Minus(c1, m1), Plus(x0, m0)))
           = Plus(Plus(c0, c1), Plus(x0, x1))
  <1>1. ASSUME NEW c \in F, NEW m \in F, NEW x \in F, NEW r \in F
        PROVE  Plus(Minus(c, m), Plus(x, r)) = Plus(Plus(c, x), Plus(r, Neg(m)))
    <2>1. Neg(m) \in F
      BY Closed, CarrierFacts
    <2>2. Plus(Plus(c, Neg(m)), Plus(x, r)) = Plus(Plus(c, x), Plus(Neg(m), r))
      BY <2>1, Regroup, CarrierFacts
    <2>3. Plus(Neg(m), r) = Plus(r, Neg(m))
      BY <2>1, GroupAssumption, CarrierFacts
    <2> QED BY <2>2, <2>3 DEF Minus
  <1>2. PICK n0, n1 \in F : n0 = Neg(m0) /\ n1 = Neg(m1)
    BY Closed, CarrierFacts
  <1>3. /\ Plus(c0, x1) \in F /\ Plus(c1, x0) \in F /\ Plus(m1, n0) \in F /\ Plus(m0, n1) \in F
        /\ Plus(c0, c1) \in F /\ Plus(x1, x0) \in F
    BY Closed, CarrierFacts
  <1>4. Plus(Plus(Plus(c0, x1), Plus(m1, n0)), Plus(Plus(c1, x0), Plus(m0, n1)))
        = Plus(Plus(Plus(c0, x1), Plus(c1, x0)), Plus(Plus(m1, n0), Plus(m0, n1)))
    BY <1>3, Regroup, CarrierFacts
  <1>5. Plus(Plus(m1, n0), Plus(m0, n1)) = Zero
    <2>1. Plus(m1, m0) = Plus(m0, m1)
      BY GroupAssumption, CarrierFacts
    <2>2. Plus(Minus(m1, m0), Minus(m0, m1)) = Zero
      BY <2>1, SumsCancel
    <2> QED BY <1>2, <2>2 DEF Minus
  <1>6. Plus(Plus(c0, x1), Plus(c1, x0)) = Plus(Plus(c0, c1), Plus(x1, x0))
    BY Regroup, CarrierFacts
  <1>7. Plus(x1, x0) = Plus(x0, x1)
    BY GroupAssumption, CarrierFacts
  <1>8. \A x \in F : Plus(x, Zero) = x
    BY GroupAssumption, CarrierFacts
  <1>9. Plus(Plus(c0, c1), Plus(x1, x0)) \in F
    BY <1>3, Closed, CarrierFacts
  <1> QED BY <1>1, <1>2, <1>4, <1>5, <1>6, <1>7, <1>8, <1>9

\* (a0 + a1)(b0 + b1) = a0 b0 + a1 b1 + a0 b1 + a1 b0
LEMMA ProductTerms ==
    ASSUME NEW a0 \in F, NEW a1 \in F, NEW b0 \in F, NEW b1 \in F
    PROVE  Times(Plus(a0, a1), Plus(b0, b1))
           = Plus(Plus(Times(a0, b0), Times(a1, b1)), Plus(Times(a0, b1), Times(a1, b0)))
  <1>1. PICK b \in F : b = Plus(b0, b1)
    BY Closed, CarrierFacts
  <1>2. PICK w, x, y, z \in F : /\ w = Times(a0, b0) /\ x = Times(a0, b1)
                                /\ y = Times(a1, b0) /\ z = Times(a1, b1)
    BY Closed, CarrierFacts
  <1>3. Times(Plus(a0, a1), b) = Plus(Times(a0, b), Times(a1, b))
    BY ModuleAssumption, CarrierFacts
  <1>4. Times(a0, b) = Plus(w, x) /\ Times(a1, b) = Plus(z, y)
    <2>1. Times(a1, b) = Plus(y, z)
      BY <1>1, <1>2, ModuleAssumption, CarrierFacts
    <2>2. Plus(y, z) = Plus(z, y)
      BY GroupAssumption, CarrierFacts
    <2> QED BY <1>1, <1>2, <2>1, <2>2, ModuleAssumption, CarrierFacts
  <1>5. Plus(Plus(w, x), Plus(z, y)) = Plus(Plus(w, z), Plus(x, y))
    BY Regroup, CarrierFacts
  <1> QED BY <1>1, <1>2, <1>3, <1>4, <1>5

---------------------------------------------------------------------------
(* Sub-protocols, run by both parties on authentic shares                  *)

LEMMA GivesFacts ==
    ASSUME NEW G, NEW J, NEW K, NEW S, NEW L, Gives(G, J, K, S, L)
    PROVE  IsJoint(K) /\ Lg(K) = L /\ G \in JProgs
  BY DEF Gives

LEMMA GivesKeeps ==
    ASSUME NEW G, NEW J, NEW K, NEW S, NEW L, Gives(G, J, K, S, L),
           NEW r, r \notin S, NEW X, Holds(J, r, X)
    PROVE  Holds(K, r, X)
  BY DEF Gives, Keeps

LEMMA GivesThen ==
    ASSUME NEW G, NEW H, NEW J, NEW K, NEW M, NEW S, NEW T, NEW U, NEW L, NEW N,
           Gives(G, J, K, S, L), Gives(H, K, M, T, N), S \subseteq U, T \subseteq U
    PROVE  Gives(Cat(G, H), J, M, U, N)
  <1>1. Gives(Cat(G, H), J, M, S \cup T, N)
    BY GivesCat
  <1> QED BY <1>1 DEF Gives, Keeps

LEMMA Args1 ==
    ASSUME NEW J, NEW a, NEW A, Holds(J, a, A), NEW p \in Party
    PROVE  Vals(J[p], <<a>>)[1] = A[p]
  BY DEF Vals, Holds

LEMMA Args2 ==
    ASSUME NEW J, NEW a, NEW A, Holds(J, a, A), NEW b, NEW B, Holds(J, b, B), NEW p \in Party
    PROVE  Vals(J[p], <<a, b>>)[1] = A[p] /\ Vals(J[p], <<a, b>>)[2] = B[p]
  BY DEF Vals, Holds

CommitRegs == {"my_comm", "their_comm"}

JCommitReveal(mine, theirs) == [p \in Party |-> commit_reveal(p, mine, theirs)]

LEMMA CommitRevealGives ==
    ASSUME NEW J, IsJoint(J), NEW mine \in Names, NEW theirs \in Names, mine \notin CommitRegs,
           theirs \notin CommitRegs, mine # theirs, NEW M, Holds(J, mine, M)
    PROVE  \E K : /\ Gives(JCommitReveal(mine, theirs), J, K, CommitRegs \cup {theirs}, Lg(J))
                  /\ Holds(K, theirs, Flip(M))
  <1> DEFINE S == CommitRegs \cup {theirs}
  <1>0. /\ "my_comm" \in Names /\ "their_comm" \in Names /\ "Scalar" \in Names
        /\ "ScalarBatch" \in Names
    BY InNames
  <1>1. PICK H : \A p \in Party : H[p] = commit_scalars(M[p])
    <2>1. \A p \in Party : [q \in Party |-> commit_scalars(M[q])][p] = commit_scalars(M[p])
      OBVIOUS
    <2> QED BY <2>1
  <1>2. PICK K1 : /\ Gives(JDo("commit_scalars", <<mine>>, "my_comm"), J, K1, CommitRegs, Lg(J))
                  /\ Holds(K1, "my_comm", H)
    <2>1. PICK K : K = JPut(JForget(J, "their_comm"), "my_comm", H)
      OBVIOUS
    <2>2. /\ Gives(JDo("commit_scalars", <<mine>>, "my_comm"), J, K, CommitRegs, Lg(J))
          /\ Holds(K, "my_comm", H)
      BY <1>1, <2>1, DoCommit DEF CommitRegs
    <2> QED BY <2>2
  <1>3. IsJoint(K1) /\ Lg(K1) = Lg(J) /\ Holds(K1, mine, M)
    BY <1>2, GivesFacts, GivesKeeps
  <1>4. PICK K2 : /\ Gives(JX("Scalar", "my_comm", "their_comm"), K1, K2, {"their_comm"}, Lg(J))
                  /\ Holds(K2, "their_comm", Flip(H))
    <2>1. PICK K : K = JPut(K1, "their_comm", Flip(H))
      OBVIOUS
    <2>2. Gives(JX("Scalar", "my_comm", "their_comm"), K1, K, {"their_comm"}, Lg(J)) /\ Holds(K,
                "their_comm", Flip(H))
      BY <2>1, <1>0, <1>2, <1>3, ExchangeGives
    <2> QED BY <2>2
  <1>5. IsJoint(K2) /\ Lg(K2) = Lg(J) /\ Holds(K2, mine, M)
    BY <1>3, <1>4, GivesFacts, GivesKeeps DEF CommitRegs
  <1>6. PICK K3 : /\ Gives(JX("ScalarBatch", mine, theirs), K2, K3, {theirs}, Lg(J))
                  /\ Holds(K3, theirs, Flip(M))
    <2>1. PICK K : K = JPut(K2, theirs, Flip(M))
      OBVIOUS
    <2>2. Gives(JX("ScalarBatch", mine, theirs), K2, K, {theirs}, Lg(J)) /\ Holds(K, theirs,
                Flip(M))
      BY <2>1, <1>0, <1>5, ExchangeGives
    <2> QED BY <2>2
  <1>7. IsJoint(K3) /\ Lg(K3) = Lg(J) /\ Holds(K3, "their_comm", Flip(H))
    BY <1>4, <1>6, GivesFacts, GivesKeeps DEF CommitRegs
  <1>8. Gives(JCheck("check_commitment", <<theirs, "their_comm">>), K3, K3, {}, Lg(J))
    <2>1. "check_commitment" \in Checks /\ <<theirs, "their_comm">> \in Seq(Names)
      BY <1>0, ArgLists DEF Checks
    <2>2. ASSUME NEW p \in Party
          PROVE  Passes(K3[p], "check_commitment", Vals(K3[p], <<theirs, "their_comm">>))
      <3>1. PICK v : v = Vals(K3[p], <<theirs, "their_comm">>)
        OBVIOUS
      <3>2. v[1] = Flip(M)[p] /\ v[2] = Flip(H)[p]
        BY <1>6, <1>7, <3>1, Args2
      <3>3. v[2] = commit_scalars(v[1])
        BY <1>1, <3>2, PartyIs DEF Flip
      <3> QED BY <3>1, <3>3 DEF Passes
    <2> QED BY <1>7, <2>1, <2>2, CheckGives
  <1>9. PICK G1, G2, G3, G4 : /\ G1 = JDo("commit_scalars", <<mine>>, "my_comm")
                              /\ G2 = JX("Scalar", "my_comm", "their_comm")
                              /\ G3 = JX("ScalarBatch", mine, theirs)
                              /\ G4 = JCheck("check_commitment", <<theirs, "their_comm">>)
    OBVIOUS
  <1>10. Gives(Cat(G1, G2), J, K2, S, Lg(J))
    BY <1>2, <1>4, <1>9, GivesThen DEF CommitRegs
  <1>11. Gives(Cat(Cat(G1, G2), G3), J, K3, S, Lg(J))
    BY <1>6, <1>9, <1>10, GivesThen
  <1>12. Gives(Cat(Cat(Cat(G1, G2), G3), G4), J, K3, S, Lg(J))
    BY <1>8, <1>9, <1>11, GivesThen
  <1>13. JCommitReveal(mine, theirs) = Cat(Cat(Cat(G1, G2), G3), G4)
    BY <1>9 DEF JCommitReveal, commit_reveal, Cat, JDo, JX, JCheck
  <1> QED BY <1>6, <1>12, <1>13

JOpenBatch(x, res) == [p \in Party |-> open_batch(p, x, res)]

LEMMA OpenBatchGives ==
    ASSUME NEW J, IsJoint(J), NEW x \in Names, NEW res \in Names, x # "their_values",
           NEW X, Holds(J, x, X), NEW Y, \A p \in Party : Y[p] = PtAdd(X[p], X[1 - p])
    PROVE  \E K : /\ Gives(JOpenBatch(x, res), J, K, {"their_values", res}, Lg(J))
                  /\ Holds(K, res, Y)
  <1> DEFINE S == {"their_values", res}
  <1>0. "their_values" \in Names /\ "ScalarBatch" \in Names
    BY InNames
  <1>1. PICK K1 : /\ Gives(JX("ScalarBatch", x, "their_values"), J, K1, {"their_values"}, Lg(J))
                  /\ Holds(K1, "their_values", Flip(X))
    <2>1. PICK K : K = JPut(J, "their_values", Flip(X))
      OBVIOUS
    <2>2. Gives(JX("ScalarBatch", x, "their_values"), J, K, {"their_values"}, Lg(J)) /\ Holds(K,
                "their_values", Flip(X))
      BY <2>1, <1>0, ExchangeGives
    <2> QED BY <2>2
  <1>2. IsJoint(K1) /\ Lg(K1) = Lg(J) /\ Holds(K1, x, X)
    BY <1>1, GivesFacts, GivesKeeps
  <1>3. \A p \in Party : Y[p] = PtAdd(X[p], Flip(X)[p])
    BY DEF Flip
  <1>4. PICK K2 : /\ Gives(JDo("sum", <<x, "their_values">>, res), K1, K2, {res}, Lg(J))
                  /\ Holds(K2, res, Y)
    <2>1. PICK K : K = JPut(K1, res, Y)
      OBVIOUS
    <2>2. Gives(JDo("sum", <<x, "their_values">>, res), K1, K, {res}, Lg(J)) /\ Holds(K, res, Y)
      BY <2>1, <1>0, <1>1, <1>2, <1>3, DoSum
    <2> QED BY <2>2
  <1>6. Gives(Cat(JX("ScalarBatch", x, "their_values"), JDo("sum", <<x, "their_values">>, res)),
              J, K2, S, Lg(J))
    BY <1>1, <1>4, GivesThen
  <1>7. JOpenBatch(x, res) = Cat(JX("ScalarBatch", x, "their_values"),
                                 JDo("sum", <<x, "their_values">>, res))
    BY DEF JOpenBatch, open_batch, Cat, JX, JDo
  <1> QED BY <1>4, <1>6, <1>7

RandomRegs == CommitRegs \cup {"my_shares", "their_shares"}

\* Both parties hold v.
Both(v) == [p \in Party |-> v]

JRandomness(n, res) == [p \in Party |-> get_shared_randomness_vec(p, n, res)]

LEMMA RandomnessGives ==
    ASSUME DrawsInField, NEW J, IsJoint(J), NEW n \in Nat, NEW res \in Names
    PROVE  \E K, v : /\ v \in [1..n -> F]
                     /\ Gives(JRandomness(n, res), J, K, RandomRegs \cup {res}, Lg(J))
                     /\ Holds(K, res, Both(v))
  <1> DEFINE S == RandomRegs \cup {res}
  <1>0. "my_shares" \in Names /\ "their_shares" \in Names
    BY InNames
  <1>1. PICK K1, X : /\ Gives(JDraw(n, "my_shares"), J, K1, {"my_shares"}, Lg(J))
                     /\ Holds(K1, "my_shares", X) /\ X \in [Party -> [1..n -> F]]
    BY <1>0, DrawGives
  <1>2. IsJoint(K1) /\ Lg(K1) = Lg(J)
    BY <1>1, GivesFacts
  <1>3. /\ "my_shares" \notin CommitRegs /\ "their_shares" \notin CommitRegs
    BY DEF CommitRegs
  <1>4. PICK K2 : /\ Gives(JCommitReveal("my_shares", "their_shares"), K1, K2,
                           CommitRegs \cup {"their_shares"}, Lg(J))
                  /\ Holds(K2, "their_shares", Flip(X))
    BY <1>0, <1>1, <1>2, <1>3, CommitRevealGives
  <1>5. IsJoint(K2) /\ Lg(K2) = Lg(J) /\ Holds(K2, "my_shares", X)
    <2>1. "my_shares" \notin CommitRegs \cup {"their_shares"}
      BY <1>3
    <2> QED BY <1>1, <1>4, <2>1, GivesFacts, GivesKeeps
  <1>8. PICK v : v = PtAdd(X[0], X[1])
    OBVIOUS
  <1>9. X[0] \in [1..n -> F] /\ X[1] \in [1..n -> F]
    BY <1>1, PartyIs
  <1>10. \A x, y \in F : Plus(x, y) \in F /\ Plus(x, y) = Plus(y, x)
    BY GroupAssumption, CarrierFacts
  <1>11. v \in [1..n -> F]
    BY <1>8, <1>9, <1>10 DEF PtAdd
  <1>12. PtAdd(X[1], X[0]) = v
    BY <1>8, <1>9, <1>10 DEF PtAdd
  <1>13. \A p \in Party : Both(v)[p] = PtAdd(X[p], Flip(X)[p])
    BY <1>8, <1>12, PartyIs DEF Both, Flip
  <1>7. PICK K3 : /\ Gives(JDo("sum", <<"my_shares", "their_shares">>, res), K2, K3, {res}, Lg(J))
                  /\ Holds(K3, res, Both(v))
    <2>1. PICK K : K = JPut(K2, res, Both(v))
      OBVIOUS
    <2>2. Gives(JDo("sum", <<"my_shares", "their_shares">>, res), K2, K, {res},
                Lg(J)) /\ Holds(K, res, Both(v))
      BY <2>1, <1>0, <1>4, <1>5, <1>13, DoSum
    <2> QED BY <2>2
  <1>14. PICK G1, G2, G3 : /\ G1 = JDraw(n, "my_shares")
                           /\ G2 = JCommitReveal("my_shares", "their_shares")
                           /\ G3 = JDo("sum", <<"my_shares", "their_shares">>, res)
    OBVIOUS
  <1>15. Gives(Cat(G1, G2), J, K2, S, Lg(J))
    BY <1>1, <1>4, <1>14, GivesThen DEF RandomRegs
  <1>16. Gives(Cat(Cat(G1, G2), G3), J, K3, S, Lg(J))
    BY <1>7, <1>14, <1>15, GivesThen
  <1>17. JRandomness(n, res) = Cat(Cat(G1, G2), G3)
    BY <1>14 DEF JRandomness, get_shared_randomness_vec, Cat, JDraw, JCommitReveal, JDo
  <1> QED BY <1>7, <1>11, <1>16, <1>17

JCheckMac == [p \in Party |-> check_mac(p)]

LEMMA CheckMacGives ==
    ASSUME NEW J, IsJoint(J), NEW D, Holds(J, "mac_check", [p \in Party |-> <<D[p]>>]),
           Plus(D[0], D[1]) = Zero, Plus(D[1], D[0]) = Zero
    PROVE  \E K : Gives(JCheckMac, J, K, CommitRegs \cup {"their_mac_check"}, Lg(J))
  <1> DEFINE S == CommitRegs \cup {"their_mac_check"}
  <1>0. "mac_check" \in Names /\ "their_mac_check" \in Names
    BY InNames
  <1>1. "mac_check" \notin CommitRegs /\ "their_mac_check" \notin CommitRegs
    BY DEF CommitRegs
  <1>2. PICK X : X = [p \in Party |-> <<D[p]>>]
    OBVIOUS
  <1>3. PICK K1 : /\ Gives(JCommitReveal("mac_check", "their_mac_check"), J, K1, S, Lg(J))
                  /\ Holds(K1, "their_mac_check", Flip(X))
    BY <1>0, <1>1, <1>2, CommitRevealGives
  <1>4. IsJoint(K1) /\ Lg(K1) = Lg(J) /\ Holds(K1, "mac_check", X)
    <2>1. "mac_check" \notin S
      BY <1>1
    <2> QED BY <1>2, <1>3, <2>1, GivesFacts, GivesKeeps
  <1>5. Gives(JCheck("check_mac", <<"mac_check", "their_mac_check">>), K1, K1, {}, Lg(J))
    <2>1. "check_mac" \in Checks /\ <<"mac_check", "their_mac_check">> \in Seq(Names)
      BY <1>0, ArgLists DEF Checks
    <2>2. ASSUME NEW p \in Party
          PROVE  Passes(K1[p], "check_mac", Vals(K1[p], <<"mac_check", "their_mac_check">>))
      <3>1. PICK v : v = Vals(K1[p], <<"mac_check", "their_mac_check">>)
        OBVIOUS
      <3>2. v[1] = X[p] /\ v[2] = Flip(X)[p]
        BY <1>3, <1>4, <3>1, Args2
      <3>3. v[1][1] = D[p] /\ v[2][1] = D[1 - p]
        BY <1>2, <3>2, PartyIs DEF Flip
      <3>4. Plus(D[p], D[1 - p]) = Zero
        BY PartyIs
      <3> QED BY <3>1, <3>3, <3>4 DEF Passes
    <2> QED BY <1>4, <2>1, <2>2, CheckGives
  <1>6. Gives(Cat(JCommitReveal("mac_check", "their_mac_check"),
                  JCheck("check_mac", <<"mac_check", "their_mac_check">>)), J, K1, S, Lg(J))
    BY <1>3, <1>5, GivesThen
  <1>7. JCheckMac = Cat(JCommitReveal("mac_check", "their_mac_check"),
                        JCheck("check_mac", <<"mac_check", "their_mac_check">>))
    BY DEF JCheckMac, check_mac, Cat, JCommitReveal, JCheck
  <1> QED BY <1>6, <1>7

OpenRegs == RandomRegs \cup {"x_values", "their_values", "coeffs", "mac_check", "their_mac_check"}

JOpenAndCheck(x, n, res) == [p \in Party |-> open_and_check_macs(p, x, n, res)]

\* Opening an authentic batch gives both parties its values, and the MAC check
\* passes.
LEMMA OpenAndCheckGives ==
    ASSUME DrawsInField, KeysInField, NEW J, IsJoint(J), NEW x \in Names, NEW res \in Names,
           x \notin OpenRegs, res \notin OpenRegs, x # res, NEW n \in Nat \ {0},
           NEW X, NEW v, AuthBatch(X, v, n), Holds(J, x, X)
    PROVE  \E K : /\ Gives(JOpenAndCheck(x, n, res), J, K, OpenRegs \cup {res}, Lg(J))
                  /\ Holds(K, res, Both(v))
  <1> DEFINE S == OpenRegs \cup {res}
  <1>0. "x_values" \in Names /\ "coeffs" \in Names /\ "mac_check" \in Names
    BY InNames
  <1>1. PICK U : U = [p \in Party |-> values(X[p])]
    OBVIOUS
  <1>2. PICK K1 : /\ Gives(JDo("values", <<x>>, "x_values"), J, K1, {"x_values"}, Lg(J))
                  /\ Holds(K1, "x_values", U)
    <2>1. PICK K : K = JPut(J, "x_values", U)
      OBVIOUS
    <2>2. Gives(JDo("values", <<x>>, "x_values"), J, K, {"x_values"}, Lg(J)) /\ Holds(K,
                "x_values", U)
      BY <2>1, <1>0, <1>1, DoValues
    <2> QED BY <2>2
  <1>3. IsJoint(K1) /\ Lg(K1) = Lg(J) /\ Holds(K1, x, X)
    BY <1>2, GivesFacts, GivesKeeps DEF OpenRegs
  <1>4. PICK K2 : /\ Gives(JOpenBatch("x_values", res), K1, K2, {"their_values", res}, Lg(J))
                  /\ Holds(K2, res, Both(v))
    <2>1. \A p \in Party : PtAdd(values(X[p]), values(X[1 - p])) = v
      BY OpenBatch
    <2>2. \A p \in Party : 1 - p \in Party
      BY PartyIs
    <2>3. \A p \in Party : Both(v)[p] = PtAdd(U[p], U[1 - p])
      BY <1>1, <2>1, <2>2 DEF Both
    <2> HIDE <1>1
    <2> QED BY <1>0, <1>2, <1>3, <2>3, OpenBatchGives
  <1>6. IsJoint(K2) /\ Lg(K2) = Lg(J) /\ Holds(K2, x, X) /\ Holds(K2, res, Both(v))
    BY <1>3, <1>4, GivesFacts, GivesKeeps DEF OpenRegs
  <1>7. PICK K3, c : /\ c \in [1..n -> F]
                     /\ Gives(JRandomness(n, "coeffs"), K2, K3, RandomRegs \cup {"coeffs"}, Lg(J))
                     /\ Holds(K3, "coeffs", Both(c))
    BY <1>0, <1>6, RandomnessGives
  <1>8. IsJoint(K3) /\ Lg(K3) = Lg(J) /\ Holds(K3, x, X) /\ Holds(K3, res, Both(v))
    <2>1. x \notin RandomRegs \cup {"coeffs"} /\ res \notin RandomRegs \cup {"coeffs"}
      BY DEF OpenRegs
    <2> QED BY <1>6, <1>7, <2>1, GivesFacts, GivesKeeps
  <1>9. PICK D : D = [p \in Party |-> MacCheckOf(p, v, X[p], c)]
    OBVIOUS
  <1>10. PICK K4 : /\ Gives(JDo("mac_check", <<res, x, "coeffs">>, "mac_check"), K3, K4,
                            {"mac_check"}, Lg(J))
                   /\ Holds(K4, "mac_check", [p \in Party |-> <<D[p]>>])
    <2>1. PICK Y : Y = [p \in Party |-> <<D[p]>>]
      OBVIOUS
    <2>2. \A p \in Party : Y[p] = <<MacCheckOf(p, Both(v)[p], X[p], Both(c)[p])>>
      BY <1>9, <2>1 DEF Both
    <2>3. PICK K : /\ Gives(JDo("mac_check", <<res, x, "coeffs">>, "mac_check"), K3, K,
                            {"mac_check"}, Lg(J))
                   /\ Holds(K, "mac_check", Y)
      <3>1. PICK K : K = JPut(K3, "mac_check", Y)
        OBVIOUS
      <3>2. Gives(JDo("mac_check", <<res, x, "coeffs">>, "mac_check"), K3, K, {"mac_check"},
                  Lg(J)) /\ Holds(K, "mac_check", Y)
        BY <3>1, <1>0, <1>7, <1>8, <2>2, DoMacCheck
      <3> QED BY <3>2
    <2> QED BY <2>1, <2>3
  <1>11. IsJoint(K4) /\ Lg(K4) = Lg(J) /\ Holds(K4, res, Both(v))
    BY <1>8, <1>10, GivesFacts, GivesKeeps DEF OpenRegs
  <1>12. Plus(D[0], D[1]) = Zero /\ Plus(D[1], D[0]) = Zero
    <2>1. /\ D[0] \in F /\ D[1] \in F /\ Plus(D[0], D[1]) = Zero
      BY <1>7, <1>9, MacChecksCancel, PartyIs
    <2>2. \A a, b \in F : Plus(a, b) = Plus(b, a)
      BY GroupAssumption, CarrierFacts
    <2> QED BY <2>1, <2>2
  <1>13. PICK K5 : Gives(JCheckMac, K4, K5, CommitRegs \cup {"their_mac_check"}, Lg(J))
    BY <1>10, <1>11, <1>12, CheckMacGives
  <1>14. Holds(K5, res, Both(v))
    <2>1. res \notin CommitRegs \cup {"their_mac_check"}
      BY DEF OpenRegs, RandomRegs
    <2> QED BY <1>11, <1>13, <2>1, GivesKeeps
  <1>15. PICK G1, G2, G3, G4, G5 :
            /\ G1 = JDo("values", <<x>>, "x_values") /\ G2 = JOpenBatch("x_values", res)
            /\ G3 = JRandomness(n, "coeffs")
            /\ G4 = JDo("mac_check", <<res, x, "coeffs">>, "mac_check") /\ G5 = JCheckMac
    OBVIOUS
  <1>16. Gives(Cat(G1, G2), J, K2, S, Lg(J))
    BY <1>2, <1>4, <1>15, GivesThen DEF OpenRegs
  <1>17. Gives(Cat(Cat(G1, G2), G3), J, K3, S, Lg(J))
    BY <1>7, <1>15, <1>16, GivesThen DEF OpenRegs
  <1>18. Gives(Cat(Cat(Cat(G1, G2), G3), G4), J, K4, S, Lg(J))
    BY <1>10, <1>15, <1>17, GivesThen DEF OpenRegs
  <1>19. Gives(Cat(Cat(Cat(Cat(G1, G2), G3), G4), G5), J, K5, S, Lg(J))
    BY <1>13, <1>15, <1>18, GivesThen DEF OpenRegs, RandomRegs
  <1>20. JOpenAndCheck(x, n, res) = Cat(Cat(Cat(Cat(G1, G2), G3), G4), G5)
    BY <1>15 DEF JOpenAndCheck, open_and_check_macs, Cat, JDo, JOpenBatch, JRandomness, JCheckMac
  <1> QED BY <1>14, <1>19, <1>20

\* The product of a and b, of which c holds the terms known to one party.
ProductRegs == {"c_res", "cross", "their_cross"}

\* E holds the encryptions of the counterparty's vectors.
Encrypts(E, A) == \A p \in Party : E[p] = encrypt(1 - p, A[1 - p])

\* R shares the sum of C and of the cross products of A and B.
CrossSum(R, A, B, C, n) ==
    /\ IsVec(R, n)
    /\ \A k \in 1..n :
          Plus(R[0][k], R[1][k]) =
          Plus(Plus(C[0][k], C[1][k]), Plus(Times(A[0][k], B[1][k]), Times(A[1][k], B[0][k])))

JShareProduct(enc, b, c, res) == [p \in Party |-> share_product(p, enc, b, c, res)]

LEMMA ShareProductGives ==
    ASSUME DrawsInField, NEW J, IsJoint(J), NEW enc \in Names, NEW b \in Names, NEW c \in Names,
           NEW res \in Names, NEW n \in Nat,
           NEW A, NEW B, NEW C, IsVec(A, n), IsVec(B, n), IsVec(C, n),
           NEW E, Encrypts(E, A), Holds(J, enc, E), Holds(J, b, B), Holds(J, c, C)
    PROVE  \E K, R :
              /\ Gives(JShareProduct(enc, b, c, res), J, K, ProductRegs \cup {res}, Lg(J))
              /\ Holds(K, res, R) /\ CrossSum(R, A, B, C, n)
  <1> DEFINE S == ProductRegs \cup {res}
  <1>0. "c_res" \in Names /\ "cross" \in Names /\ "their_cross" \in Names /\ "Bytes" \in Names
    BY InNames
  <1>1. \A p \in Party : Len(B[p]) = n
    <2>1. \A f \in [1..n -> F] : Len(f) = n
      OBVIOUS
    <2> QED BY <2>1 DEF IsVec
  <1>2. \A p \in Party : /\ A[p] \in [1..n -> F] /\ B[p] \in [1..n -> F] /\ C[p] \in [1..n -> F]
    BY DEF IsVec
  <1>3. PICK K1, M, X, Y :
              /\ IsVec(M, n)
              /\ Gives(JDo("cross_products", <<enc, b, c>>, "c_res"), J, K1,
                       {"c_res", "cross"}, Lg(J))
              /\ Holds(K1, "c_res", X) /\ \A p \in Party : X[p] = PtSub(C[p], M[p])
              /\ Holds(K1, "cross", Y)
              /\ \A p \in Party : Y[p] = CtAddPlain(CtMulPlain(E[p], B[p]), M[p])
    <2>2. "c_res" # "cross"
      OBVIOUS
    <2>3. PICK M : M = JMask(J, n)
      OBVIOUS
    <2>4. PICK X : X = [p \in Party |-> PtSub(C[p], M[p])]
      OBVIOUS
    <2>5. PICK Y : Y = [p \in Party |-> CtAddPlain(CtMulPlain(E[p], B[p]), M[p])]
      OBVIOUS
    <2>6. PICK K : K = JDrawn(JPut(JPut(J, "c_res", X), "cross", Y), n)
      OBVIOUS
    <2>7. /\ \A p \in Party : X[p] = PtSub(C[p], M[p])
          /\ \A p \in Party : Y[p] = CtAddPlain(CtMulPlain(E[p], B[p]), M[p])
      BY <2>4, <2>5
    <2>8. Masked(n, E, B, C, M, X, Y) /\ IsVec(M, n)
      BY <1>1, <2>3, <2>7, MaskIn DEF Masked
    <2>9. /\ Gives(JDo("cross_products", <<enc, b, c>>, "c_res"), J, K,
                   {"c_res", "cross"}, Lg(J))
          /\ Holds(K, "c_res", X) /\ Holds(K, "cross", Y)
      BY <1>0, <2>2, <2>3, <2>6, <2>8, DoCross
    <2> QED BY <2>7, <2>8, <2>9
  <1>5. IsJoint(K1) /\ Lg(K1) = Lg(J) /\ Holds(K1, "c_res", X) /\ Holds(K1, "cross", Y)
    BY <1>3, GivesFacts
  <1>6. PICK K2 : /\ Gives(JX("Bytes", "cross", "their_cross"), K1, K2, {"their_cross"}, Lg(J))
                  /\ Holds(K2, "their_cross", Flip(Y))
    <2>1. PICK K : K = JPut(K1, "their_cross", Flip(Y))
      OBVIOUS
    <2>2. Gives(JX("Bytes", "cross", "their_cross"), K1, K, {"their_cross"}, Lg(J)) /\ Holds(K,
                "their_cross", Flip(Y))
      BY <2>1, <1>0, <1>5, ExchangeGives
    <2> QED BY <2>2
  <1>7. IsJoint(K2) /\ Lg(K2) = Lg(J) /\ Holds(K2, "c_res", X)
    <2>1. IsJoint(K2) /\ Lg(K2) = Lg(J)
      BY <1>6, GivesFacts
    <2>2. "c_res" \notin {"their_cross"}
      OBVIOUS
    <2>3. Holds(K2, "c_res", X)
      BY <1>5, <1>6, <2>2, GivesKeeps
    <2> QED BY <2>1, <2>3
  <1>8. PICK Z : Z = Flip(Y)
    OBVIOUS
  <1>9. PICK R : /\ R = [p \in Party |-> R[p]]
                 /\ \A p \in Party : R[p] = PtAdd(X[p], decrypt(p, Z[p]))
    <2>1. PICK Q : Q = [p \in Party |-> PtAdd(X[p], decrypt(p, Z[p]))]
      OBVIOUS
    <2>2. Q = [p \in Party |-> Q[p]] /\ \A p \in Party : Q[p] = PtAdd(X[p], decrypt(p, Z[p]))
      BY <2>1
    <2> QED BY <2>2
  <1>18. Holds(K2, "their_cross", Z)
    BY <1>6, <1>8
  <1>19. \A p \in Party : R[p] = PtAdd(X[p], decrypt(p, Z[p]))
    BY <1>9
  <1> HIDE <1>8
  <1>10. PICK K3 : /\ Gives(JDo("add_cross", <<"c_res", "their_cross">>, res), K2, K3, {res},
                            Lg(J))
                   /\ Holds(K3, res, R)
    <2>1. PICK K : K = JPut(K2, res, R)
      OBVIOUS
    <2>2. Gives(JDo("add_cross", <<"c_res", "their_cross">>, res), K2, K, {res},
                Lg(J)) /\ Holds(K, res, R)
      BY <2>1, <1>0, <1>7, <1>19, <1>18, DoAddCross
    <2> QED BY <2>2
  <1>11. ASSUME NEW p \in Party
         PROVE  /\ R[p] \in [1..n -> F]
                /\ \A k \in 1..n :
                      R[p][k] = Plus(Minus(C[p][k], M[p][k]),
                                     Plus(Times(A[p][k], B[1 - p][k]), M[1 - p][k]))
    <2>1. PICK q \in Party : q = 1 - p /\ 1 - q = p
      BY PartyIs
    <2>2. E[q] = [key |-> p, val |-> A[p]]
      BY <2>1 DEF encrypt, Encrypts
    <2>3. PICK w : w = [k \in 1..n |-> Plus(Times(A[p][k], B[q][k]), M[q][k])]
      OBVIOUS
    <2>4. CtMulPlain(E[q], B[q]) = [key |-> p, val |-> PtMul(A[p], B[q])]
      BY <2>2 DEF CtMulPlain
    <2>5. Y[q] = [key |-> p, val |-> PtAdd(PtMul(A[p], B[q]), M[q])]
      <3>1. PICK ct : ct = [key |-> p, val |-> PtMul(A[p], B[q])]
        OBVIOUS
      <3>2. Y[q] = CtAddPlain(ct, M[q])
        BY <1>3, <2>4, <3>1
      <3> QED BY <3>1, <3>2 DEF CtAddPlain
    <2>6. PtAdd(PtMul(A[p], B[q]), M[q]) = w
      BY <1>2, <2>3 DEF PtAdd, PtMul
    <2>7. Z[p] = [key |-> p, val |-> w]
      BY <1>8, <2>1, <2>5, <2>6 DEF Flip
    <2>8. decrypt(p, Z[p]) = w
      BY <2>7 DEF decrypt
    <2>9. R[p] = [k \in 1..n |-> Plus(Minus(C[p][k], M[p][k]), w[k])]
      <3>1. R[p] = PtAdd(X[p], w)
        BY <1>9, <2>8
      <3>2. X[p] = [k \in 1..n |-> Minus(C[p][k], M[p][k])]
        BY <1>2, <1>3 DEF PtSub
      <3> QED BY <3>1, <3>2 DEF PtAdd
    <2>10. \A k \in 1..n : /\ C[p][k] \in F /\ M[p][k] \in F /\ A[p][k] \in F /\ B[q][k] \in F
                           /\ M[q][k] \in F
      BY <1>3 DEF IsVec
    <2>11. \A k \in 1..n : Plus(Minus(C[p][k], M[p][k]), w[k]) \in F
      BY <2>3, <2>10, Closed, CarrierFacts
    <2> QED BY <2>1, <2>3, <2>9, <2>11
  <1>12. IsVec(R, n)
    BY <1>9, <1>11 DEF IsVec
  <1>13. ASSUME NEW k \in 1..n
         PROVE  Plus(R[0][k], R[1][k]) =
                Plus(Plus(C[0][k], C[1][k]), Plus(Times(A[0][k], B[1][k]), Times(A[1][k], B[0][k])))
    <2>1. PICK c0, c1, m0, m1 \in F : /\ c0 = C[0][k] /\ c1 = C[1][k]
                                      /\ m0 = M[0][k] /\ m1 = M[1][k]
      BY <1>3, PartyIs DEF IsVec
    <2>2. PICK x0, x1 \in F : x1 = Times(A[0][k], B[1][k]) /\ x0 = Times(A[1][k], B[0][k])
      <3>1. A[0][k] \in F /\ A[1][k] \in F /\ B[0][k] \in F /\ B[1][k] \in F
        BY PartyIs DEF IsVec
      <3> QED BY <3>1, Closed, CarrierFacts
    <2>3. R[0][k] = Plus(Minus(c0, m0), Plus(x1, m1)) /\ R[1][k] = Plus(Minus(c1, m1), Plus(x0, m0))
      <3>1. R[0][k] = Plus(Minus(C[0][k], M[0][k]), Plus(Times(A[0][k], B[1 - 0][k]), M[1 - 0][k]))
        BY <1>11, PartyIs
      <3>2. R[1][k] = Plus(Minus(C[1][k], M[1][k]), Plus(Times(A[1][k], B[1 - 1][k]), M[1 - 1][k]))
        BY <1>11, PartyIs
      <3> QED BY <2>1, <2>2, <3>1, <3>2
    <2>4. Plus(R[0][k], R[1][k]) = Plus(Plus(c0, c1), Plus(x0, x1))
      BY <2>3, CrossTerms
    <2>5. Plus(x0, x1) = Plus(x1, x0)
      BY GroupAssumption, CarrierFacts
    <2> QED BY <2>1, <2>2, <2>4, <2>5
  <1>14. PICK G1, G2, G3 : /\ G1 = JDo("cross_products", <<enc, b, c>>, "c_res")
                           /\ G2 = JX("Bytes", "cross", "their_cross")
                           /\ G3 = JDo("add_cross", <<"c_res", "their_cross">>, res)
    OBVIOUS
  <1>15. Gives(Cat(G1, G2), J, K2, S, Lg(J))
    BY <1>3, <1>6, <1>14, GivesThen DEF ProductRegs
  <1>16. Gives(Cat(Cat(G1, G2), G3), J, K3, S, Lg(J))
    BY <1>10, <1>14, <1>15, GivesThen
  <1>17. JShareProduct(enc, b, c, res) = Cat(Cat(G1, G2), G3)
    BY <1>14 DEF JShareProduct, share_product, exchange_message, Cat, JDo, JX
  <1>20. CrossSum(R, A, B, C, n)
    BY <1>12, <1>13 DEF CrossSum
  <1> QED BY <1>10, <1>16, <1>17, <1>20

\* The keys are exchanged.
KeysAll(L) == \A p \in Party : KeysSet(p, L[p])

\* M shares the MACs of what X shares.
MacsFor(M, X, n) ==
    /\ IsVec(M, n)
    /\ \A k \in 1..n : Plus(M[0][k], M[1][k]) = Times(MacKey, Plus(X[0][k], X[1][k]))

LEMMA OtherMacEnc ==
    ASSUME NEW p \in Party, NEW lg, KeysSet(p, lg), NEW n \in Nat
    PROVE  get_other_mac_enc(lg, n) = encrypt(1 - p, set_all(key[1 - p], n))
  <1>1. PICK ct : ct = lg.other_mac_enc[1]
    OBVIOUS
  <1>2. ct = [key |-> 1 - p, val |-> [k \in 1..Slots |-> key[1 - p]]]
    BY <1>1 DEF KeysSet, Some, encrypt, set_all
  <1>3. \A k \in 1..n : ((k - 1) % Slots) + 1 \in 1..Slots
    BY SlotsAssumption
  <1>4. [k \in 1..n |-> ct.val[((k - 1) % Slots) + 1]] = set_all(key[1 - p], n)
    BY <1>2, <1>3 DEF set_all
  <1>5. get_other_mac_enc(lg, n) = [ct EXCEPT !.val = [k \in 1..n |-> ct.val[((k - 1) % Slots) + 1]]]
    BY <1>1 DEF get_other_mac_enc
  <1> QED BY <1>2, <1>4, <1>5 DEF encrypt

\* What the terms known to each party and the cross terms add up to
LEMMA MacTerms ==
    ASSUME KeysInField, NEW n \in Nat, NEW X, IsVec(X, n), NEW R,
           NEW A, \A p \in Party : A[p] = set_all(key[p], n),
           NEW C, \A p \in Party : C[p] = PtMul(A[p], X[p]),
           CrossSum(R, A, X, C, n)
    PROVE  MacsFor(R, X, n)
  <1>1. ASSUME NEW k \in 1..n
        PROVE  Plus(R[0][k], R[1][k]) = Times(MacKey, Plus(X[0][k], X[1][k]))
    <2>1. PICK x0, x1 \in F : x0 = X[0][k] /\ x1 = X[1][k]
      BY PartyIs DEF IsVec
    <2>2. PICK a0, a1 \in F : a0 = key[0] /\ a1 = key[1]
      BY DEF KeysInField
    <2>3. A[0] = set_all(a0, n) /\ A[1] = set_all(a1, n)
      BY <2>2, PartyIs
    <2>4. A[0][k] = a0 /\ A[1][k] = a1
      BY <2>3 DEF set_all
    <2>5. C[0][k] = Times(a0, x0) /\ C[1][k] = Times(a1, x1)
      <3>1. C[0] = PtMul(A[0], X[0]) /\ C[1] = PtMul(A[1], X[1])
        BY PartyIs
      <3>2. DOMAIN A[0] = 1..n /\ DOMAIN A[1] = 1..n
        BY <2>3 DEF set_all
      <3> QED BY <2>1, <2>4, <3>1, <3>2 DEF PtMul
    <2>6. Plus(R[0][k], R[1][k]) =
            Plus(Plus(Times(a0, x0), Times(a1, x1)), Plus(Times(a0, x1), Times(a1, x0)))
      BY <2>1, <2>4, <2>5 DEF CrossSum
    <2>7. Plus(R[0][k], R[1][k]) = Times(Plus(a0, a1), Plus(x0, x1))
      BY <2>6, ProductTerms
    <2> QED BY <2>1, <2>2, <2>7 DEF MacKey
  <1> QED BY <1>1 DEF MacsFor, CrossSum

AuthRegs == ProductRegs \cup {"mac_enc", "mac_mine"}

JAuthenticate(x, res) == [p \in Party |-> authenticate_vec(p, x, res)]

LEMMA SetupPasses ==
    ASSUME NEW J, IsJoint(J), KeysAll(Lg(J))
    PROVE  Gives(JCheck("need_setup", <<>>), J, J, {}, Lg(J))
  <1>1. "need_setup" \in Checks /\ <<>> \in Seq(Names)
    BY ArgLists DEF Checks
  <1>2. ASSUME NEW p \in Party PROVE Passes(J[p], "need_setup", Vals(J[p], <<>>))
    <2>1. PICK v : v = Vals(J[p], <<>>)
      OBVIOUS
    <2>2. J[p].lg.other_pk # None
      BY DEF KeysAll, KeysSet, Lg, Some, None
    <2> QED BY <2>1, <2>2 DEF Passes
  <1> QED BY <1>1, <1>2, CheckGives

LEMMA AuthenticateGives ==
    ASSUME DrawsInField, KeysInField, NEW J, IsJoint(J), KeysAll(Lg(J)),
           NEW x \in Names, NEW res \in Names, x \notin AuthRegs, NEW n \in Nat,
           NEW X, IsVec(X, n), Holds(J, x, X)
    PROVE  \E K, R : /\ Gives(JAuthenticate(x, res), J, K, AuthRegs \cup {res}, Lg(J))
                     /\ Holds(K, res, R) /\ MacsFor(R, X, n)
  <1> DEFINE S == AuthRegs \cup {res}
  <1>0. "mac_enc" \in Names /\ "mac_mine" \in Names
    BY InNames
  <1>1. PICK A : /\ A = [p \in Party |-> A[p]]
                 /\ \A p \in Party : A[p] = set_all(key[p], n)
    <2>1. PICK Q : Q = [p \in Party |-> set_all(key[p], n)]
      OBVIOUS
    <2>2. Q = [p \in Party |-> Q[p]]
      BY <2>1
    <2> QED BY <2>1, <2>2
  <1>21. PICK E : \A p \in Party : E[p] = get_other_mac_enc(J[p].lg, Len(X[p]))
    <2>1. \A p \in Party : [q \in Party |-> get_other_mac_enc(J[q].lg, Len(X[q]))][p]
                           = get_other_mac_enc(J[p].lg, Len(X[p]))
      OBVIOUS
    <2> QED BY <2>1
  <1>22. PICK C : /\ C = [p \in Party |-> C[p]]
                  /\ \A p \in Party : C[p] = PtMul(set_all(key[p], Len(X[p])), X[p])
    <2>1. PICK Q : Q = [p \in Party |-> PtMul(set_all(key[p], Len(X[p])), X[p])]
      OBVIOUS
    <2>2. Q = [p \in Party |-> Q[p]]
      BY <2>1
    <2> QED BY <2>1, <2>2
  <1>23. \A p \in Party : Len(X[p]) = n
    <2>1. \A f \in [1..n -> F] : Len(f) = n
      OBVIOUS
    <2> QED BY <2>1 DEF IsVec
  <1>2. Encrypts(E, A)
    <2>1. ASSUME NEW p \in Party PROVE E[p] = encrypt(1 - p, A[1 - p])
      <3>1. KeysSet(p, J[p].lg)
        BY DEF KeysAll, Lg
      <3>2. E[p] = get_other_mac_enc(J[p].lg, n)
        BY <1>21, <1>23
      <3>3. A[1 - p] = set_all(key[1 - p], n)
        BY <1>1, PartyIs
      <3> QED BY <3>1, <3>2, <3>3, OtherMacEnc
    <2> QED BY <2>1 DEF Encrypts
  <1>3. \A p \in Party : C[p] = PtMul(A[p], X[p])
    BY <1>1, <1>22, <1>23
  <1>4. IsVec(A, n) /\ IsVec(C, n)
    <2>1. \A p \in Party : key[p] \in F
      BY PartyIs DEF KeysInField
    <2>2. \A p \in Party : A[p] \in [1..n -> F]
      BY <1>1, <2>1 DEF set_all
    <2>3. \A p \in Party : X[p] \in [1..n -> F]
      BY DEF IsVec
    <2>4. \A a, b \in F : Times(a, b) \in F
      BY Closed, CarrierFacts
    <2>5. ASSUME NEW p \in Party PROVE C[p] \in [1..n -> F]
      <3>1. C[p] = [k \in 1..n |-> Times(A[p][k], X[p][k])]
        BY <1>3, <2>2 DEF PtMul
      <3> QED BY <2>2, <2>3, <2>4, <3>1
    <2> QED BY <1>1, <1>22, <2>2, <2>5 DEF IsVec
  <1>5. Gives(JCheck("need_setup", <<>>), J, J, {}, Lg(J))
    BY SetupPasses
  <1>6. PICK K1 : /\ Gives(JDo("other_mac_enc", <<x>>, "mac_enc"), J, K1, {"mac_enc"}, Lg(J))
                  /\ Holds(K1, "mac_enc", E)
    <2>1. PICK K : K = JPut(J, "mac_enc", E)
      OBVIOUS
    <2>2. Gives(JDo("other_mac_enc", <<x>>, "mac_enc"), J, K, {"mac_enc"}, Lg(J)) /\ Holds(K,
                "mac_enc", E)
      BY <2>1, <1>0, <1>21, DoOtherMacEnc
    <2> QED BY <2>2
  <1>7. IsJoint(K1) /\ Lg(K1) = Lg(J) /\ Holds(K1, x, X)
    BY <1>6, GivesFacts, GivesKeeps DEF AuthRegs
  <1>8. PICK K2 : /\ Gives(JDo("mac_product", <<x>>, "mac_mine"), K1, K2, {"mac_mine"}, Lg(J))
                  /\ Holds(K2, "mac_mine", C)
    <2>1. PICK K : K = JPut(K1, "mac_mine", C)
      OBVIOUS
    <2>2. Gives(JDo("mac_product", <<x>>, "mac_mine"), K1, K, {"mac_mine"}, Lg(J)) /\ Holds(K,
                "mac_mine", C)
      BY <2>1, <1>0, <1>7, <1>22, DoMacProduct
    <2> QED BY <2>2
  <1>9. IsJoint(K2) /\ Lg(K2) = Lg(J) /\ Holds(K2, x, X) /\ Holds(K2, "mac_enc", E)
    BY <1>6, <1>7, <1>8, GivesFacts, GivesKeeps DEF AuthRegs
  <1>10. PICK K3, R :
              /\ Gives(JShareProduct("mac_enc", x, "mac_mine", res), K2, K3,
                       ProductRegs \cup {res}, Lg(J))
              /\ Holds(K3, res, R) /\ CrossSum(R, A, X, C, n)
    BY <1>0, <1>2, <1>4, <1>8, <1>9, ShareProductGives
  <1>11. MacsFor(R, X, n)
    BY <1>1, <1>3, <1>10, MacTerms
  <1>12. PICK G1, G2, G3, G4 : /\ G1 = JCheck("need_setup", <<>>)
                               /\ G2 = JDo("other_mac_enc", <<x>>, "mac_enc")
                               /\ G3 = JDo("mac_product", <<x>>, "mac_mine")
                               /\ G4 = JShareProduct("mac_enc", x, "mac_mine", res)
    OBVIOUS
  <1>13. Gives(Cat(G1, G2), J, K1, S, Lg(J))
    BY <1>5, <1>6, <1>12, GivesThen DEF AuthRegs
  <1>14. Gives(Cat(Cat(G1, G2), G3), J, K2, S, Lg(J))
    BY <1>8, <1>12, <1>13, GivesThen DEF AuthRegs
  <1>15. Gives(Cat(Cat(Cat(G1, G2), G3), G4), J, K3, S, Lg(J))
    BY <1>10, <1>12, <1>14, GivesThen DEF AuthRegs
  <1>16. JAuthenticate(x, res) = Cat(Cat(Cat(G1, G2), G3), G4)
    BY <1>12 DEF JAuthenticate, authenticate_vec, Cat, JCheck, JDo, JShareProduct
  <1> QED BY <1>10, <1>11, <1>15, <1>16

\* r(xy) - xz - (ry - z)x = 0
LEMMA TauTerms ==
    ASSUME NEW r \in F, NEW x \in F, NEW y \in F, NEW z \in F
    PROVE  Minus(Minus(Times(r, Times(x, y)), Times(x, z)), Times(Minus(Times(r, y), z), x)) = Zero
  <1>1. PICK u, t, m \in F : /\ u = Times(r, Times(x, y)) /\ t = Times(x, z)
                             /\ m = Minus(u, t)
    BY Closed, CarrierFacts
  <1>2. PICK w, ry, nz \in F : w = Minus(ry, z) /\ ry = Times(r, y) /\ nz = Neg(z) /\ w = Plus(ry, nz)
    BY Closed, CarrierFacts DEF Minus
  <1>3. Times(w, x) = Times(x, w)
    BY FieldAssumption
  <1>4. Times(x, w) = Plus(Times(x, ry), Times(x, nz))
    BY <1>2, ModuleAssumption, CarrierFacts
  <1>5. Times(x, ry) = u
    BY <1>1, <1>2, TimesCommutes, CarrierFacts
  <1>6. Times(x, nz) = Neg(t)
    BY <1>1, <1>2, TimesNeg, CarrierFacts
  <1>7. Times(w, x) = m
    BY <1>1, <1>3, <1>4, <1>5, <1>6 DEF Minus
  <1>8. Minus(m, m) = Zero
    BY GroupAssumption, CarrierFacts DEF Minus
  <1> QED BY <1>1, <1>2, <1>7, <1>8

\* Batches a, b, c, b', c' of which c = ab and c' = ab': with any r the batch
\* r c - c' - rho a, where rho = r b - b', is zero.
LEMMA TauZero ==
    ASSUME NEW n, NEW a \in [1..n -> F], NEW b \in [1..n -> F], NEW bp \in [1..n -> F], NEW r \in F,
           NEW rho, rho = PtSub(Scaled(r, b), bp),
           NEW tau, tau = PtSub(PtSub(Scaled(r, PtMul(a, b)), PtMul(a, bp)), PtMul(rho, a))
    PROVE  \A k \in 1..n : tau[k] = Zero
  <1> SUFFICES ASSUME NEW k \in 1..n PROVE tau[k] = Zero
    OBVIOUS
  <1>1. PICK x, y, z \in F : x = a[k] /\ y = b[k] /\ z = bp[k]
    OBVIOUS
  <1>2. DOMAIN rho = 1..n /\ rho[k] = Minus(Times(r, y), z)
    BY <1>1 DEF PtSub, Scaled
  <1>3. PICK ab, abp : /\ ab = PtMul(a, b) /\ abp = PtMul(a, bp)
    OBVIOUS
  <1>4. /\ DOMAIN ab = 1..n /\ ab[k] = Times(x, y)
        /\ DOMAIN abp = 1..n /\ abp[k] = Times(x, z)
    BY <1>1, <1>3 DEF PtMul
  <1>5. tau[k] = Minus(Minus(Times(r, ab[k]), abp[k]), Times(rho[k], a[k]))
    BY <1>2, <1>3, <1>4 DEF PtSub, PtMul, Scaled
  <1>6. tau[k] = Minus(Minus(Times(r, Times(x, y)), Times(x, z)), Times(Minus(Times(r, y), z), x))
    BY <1>1, <1>2, <1>4, <1>5
  <1> QED BY <1>6, TauTerms

SacrificeRegs == OpenRegs \cup {"r", "my_rho", "rho", "my_tau", "tau"}

JSacrifice(n) == [p \in Party |-> sacrifice(p, n)]

LEMMA RhoTau ==
    ASSUME KeysInField, NEW n, NEW XA, NEW XB, NEW XC, NEW XD, NEW XE, NEW a, NEW b, NEW d,
           AuthBatch(XA, a, n), AuthBatch(XB, b, n), AuthBatch(XC, PtMul(a, b), n),
           AuthBatch(XD, d, n), AuthBatch(XE, PtMul(a, d), n), NEW r \in F,
           NEW rho, rho = PtSub(Scaled(r, b), d)
    PROVE  /\ AuthBatch(JSub(JScale(XB, r), XD), rho, n)
           /\ \E tau : /\ AuthBatch(JSub(JSub(JScale(XC, r), XE), JScaleBy(XA, rho)), tau, n)
                       /\ \A k \in 1..n : tau[k] = Zero
  <1>1. AuthBatch(JScale(XB, r), Scaled(r, b), n)
    BY ScaleBatch
  <1>2. AuthBatch(JSub(JScale(XB, r), XD), rho, n)
    BY <1>1, SubBatch
  <1>3. PICK c : c = PtMul(a, b)
    OBVIOUS
  <1>4. AuthBatch(JScale(XC, r), Scaled(r, c), n)
    BY <1>3, ScaleBatch
  <1>5. PICK Y : Y = JScale(XC, r)
    OBVIOUS
  <1>6. AuthBatch(JSub(Y, XE), PtSub(Scaled(r, c), PtMul(a, d)), n)
    BY <1>4, <1>5, SubBatch
  <1>7. rho \in [1..n -> F] /\ a \in [1..n -> F] /\ b \in [1..n -> F] /\ d \in [1..n -> F]
    BY <1>2 DEF AuthBatch
  <1>8. AuthBatch(JScaleBy(XA, rho), PtMul(rho, a), n)
    BY <1>7, ScaleByBatch
  <1>9. PICK W, Z, w, z : /\ W = JSub(Y, XE) /\ Z = JScaleBy(XA, rho)
                          /\ w = PtSub(Scaled(r, c), PtMul(a, d)) /\ z = PtMul(rho, a)
    OBVIOUS
  <1>10. AuthBatch(W, w, n) /\ AuthBatch(Z, z, n)
    BY <1>6, <1>8, <1>9
  <1>11. AuthBatch(JSub(W, Z), PtSub(w, z), n)
    BY <1>10, SubBatch
  <1>12. PICK tau : tau = PtSub(w, z)
    OBVIOUS
  <1>13. \A k \in 1..n : tau[k] = Zero
    <2>1. tau = PtSub(PtSub(Scaled(r, PtMul(a, b)), PtMul(a, d)), PtMul(rho, a))
      BY <1>3, <1>9, <1>12
    <2> QED BY <1>7, <2>1, TauZero
  <1> QED BY <1>2, <1>5, <1>9, <1>11, <1>12, <1>13

LEMMA SacrificeGives ==
    ASSUME DrawsInField, KeysInField, NEW J, IsJoint(J), NEW n \in Nat \ {0},
           NEW XA, NEW XB, NEW XC, NEW XD, NEW XE, NEW a, NEW b, NEW d,
           AuthBatch(XA, a, n), AuthBatch(XB, b, n), AuthBatch(XC, PtMul(a, b), n),
           AuthBatch(XD, d, n), AuthBatch(XE, PtMul(a, d), n),
           Holds(J, "A", XA), Holds(J, "B", XB), Holds(J, "C", XC), Holds(J, "B_prime", XD),
           Holds(J, "C_prime", XE)
    PROVE  \E K : Gives(JSacrifice(n), J, K, SacrificeRegs, Lg(J))
  <1> DEFINE S == SacrificeRegs
  <1>0. /\ "r" \in Names /\ "my_rho" \in Names /\ "rho" \in Names /\ "my_tau" \in Names
        /\ "tau" \in Names /\ "A" \in Names /\ "B" \in Names /\ "C" \in Names
        /\ "B_prime" \in Names /\ "C_prime" \in Names
    BY InNames
  <1>1. PICK K1, v : /\ v \in [1..1 -> F]
                     /\ Gives(JRandomness(1, "r"), J, K1, RandomRegs \cup {"r"}, Lg(J))
                     /\ Holds(K1, "r", Both(v))
    BY <1>0, RandomnessGives
  <1>2. PICK r \in F : r = v[1]
    BY <1>1
  <1>3. \A x \in {"A", "B", "C", "B_prime", "C_prime"} : x \notin RandomRegs \cup {"r"}
    BY DEF RandomRegs, CommitRegs
  <1>4. /\ IsJoint(K1) /\ Lg(K1) = Lg(J)
        /\ Holds(K1, "A", XA) /\ Holds(K1, "B", XB) /\ Holds(K1, "C", XC)
        /\ Holds(K1, "B_prime", XD) /\ Holds(K1, "C_prime", XE)
    BY <1>1, <1>3, GivesFacts, GivesKeeps
  <1>5. PICK rho : rho = PtSub(Scaled(r, b), d)
    OBVIOUS
  <1>6. PICK Y, Z, tau : /\ Y = JSub(JScale(XB, r), XD) /\ AuthBatch(Y, rho, n)
                         /\ Z = JSub(JSub(JScale(XC, r), XE), JScaleBy(XA, rho))
                         /\ AuthBatch(Z, tau, n) /\ \A k \in 1..n : tau[k] = Zero
    BY <1>5, RhoTau
  <1>7. \A p \in Party : Y[p] = BatchSub(BatchScale(XB[p], Both(v)[p][1]), XD[p])
    BY <1>2, <1>6 DEF JSub, JScale, Both
  <1>8. AreTau(Z, XC, Both(v), XE, XA, Both(rho))
    BY <1>2, <1>6 DEF AreTau, JSub, JScale, JScaleBy, Both
  <1>25. AuthBatch(Y, rho, n) /\ AuthBatch(Z, tau, n)
    BY <1>6
  <1>9. PICK K2 : /\ Gives(JDo("rho", <<"B", "r", "B_prime">>, "my_rho"), K1, K2, {"my_rho"},
                           Lg(J))
                  /\ Holds(K2, "my_rho", Y)
    <2>1. PICK K : K = JPut(K1, "my_rho", Y)
      OBVIOUS
    <2>2. Gives(JDo("rho", <<"B", "r", "B_prime">>, "my_rho"), K1, K, {"my_rho"},
                Lg(J)) /\ Holds(K, "my_rho", Y)
      BY <2>1, <1>0, <1>1, <1>4, <1>7, DoRho
    <2> QED BY <2>2
  <1>10. /\ IsJoint(K2) /\ Lg(K2) = Lg(J) /\ Holds(K2, "r", Both(v))
         /\ Holds(K2, "A", XA) /\ Holds(K2, "C", XC) /\ Holds(K2, "C_prime", XE)
    BY <1>1, <1>4, <1>9, GivesFacts, GivesKeeps
  <1>26. /\ "my_rho" \notin OpenRegs /\ "my_tau" \notin OpenRegs /\ "rho" \notin OpenRegs
         /\ "tau" \notin OpenRegs /\ "my_rho" # "rho" /\ "my_tau" # "tau"
    BY DEF OpenRegs, RandomRegs, CommitRegs
  <1>11. PICK K3 : /\ Gives(JOpenAndCheck("my_rho", n, "rho"), K2, K3, OpenRegs \cup {"rho"}, Lg(J))
                   /\ Holds(K3, "rho", Both(rho))
    BY <1>0, <1>9, <1>10, <1>25, <1>26, OpenAndCheckGives
  <1>12. \A x \in {"A", "C", "C_prime", "r"} : x \notin OpenRegs \cup {"rho"}
    BY DEF OpenRegs, RandomRegs, CommitRegs
  <1>13. /\ IsJoint(K3) /\ Lg(K3) = Lg(J) /\ Holds(K3, "r", Both(v))
         /\ Holds(K3, "A", XA) /\ Holds(K3, "C", XC) /\ Holds(K3, "C_prime", XE)
    BY <1>10, <1>11, <1>12, GivesFacts, GivesKeeps
  <1>29. Holds5(K3, "C", "r", "C_prime", "A", "rho", XC, Both(v), XE, XA, Both(rho))
    BY <1>0, <1>11, <1>13 DEF Holds5
  <1>14. PICK K4 : /\ Gives(JDo("tau", <<"C", "r", "C_prime", "A", "rho">>, "my_tau"), K3, K4,
                            {"my_tau"}, Lg(J))
                   /\ Holds(K4, "my_tau", Z)
    <2>1. PICK K : K = JPut(K3, "my_tau", Z)
      OBVIOUS
    <2>2. Gives(JDo("tau", <<"C", "r", "C_prime", "A", "rho">>, "my_tau"), K3, K, {"my_tau"},
                Lg(J)) /\ Holds(K, "my_tau", Z)
      BY <2>1, <1>0, <1>8, <1>13, <1>29, DoTau
    <2> QED BY <2>2
  <1>15. IsJoint(K4) /\ Lg(K4) = Lg(J)
    BY <1>14, GivesFacts
  <1>16. PICK K5 : /\ Gives(JOpenAndCheck("my_tau", n, "tau"), K4, K5, OpenRegs \cup {"tau"}, Lg(J))
                   /\ Holds(K5, "tau", Both(tau))
    BY <1>0, <1>14, <1>15, <1>25, <1>26, OpenAndCheckGives
  <1>17. Gives(JCheck("check_zero", <<"tau">>), K5, K5, {}, Lg(J))
    <2>1. "check_zero" \in Checks /\ <<"tau">> \in Seq(Names)
      BY <1>0, ArgLists DEF Checks
    <2>2. ASSUME NEW p \in Party PROVE Passes(K5[p], "check_zero", Vals(K5[p], <<"tau">>))
      <3>1. PICK w : w = Vals(K5[p], <<"tau">>)
        OBVIOUS
      <3>2. w[1] = tau
        BY <1>16, <3>1, Args1 DEF Both
      <3>3. DOMAIN tau = 1..n
        BY <1>25 DEF AuthBatch
      <3>4. \A k \in DOMAIN w[1] : w[1][k] = Zero
        BY <1>6, <3>2, <3>3
      <3> QED BY <3>1, <3>4 DEF Passes
    <2>3. IsJoint(K5) /\ Lg(K5) = Lg(J)
      BY <1>16, GivesFacts
    <2> QED BY <2>1, <2>2, <2>3, CheckGives
  <1>18. PICK G1, G2, G3, G4, G5, G6 :
            /\ G1 = JRandomness(1, "r") /\ G2 = JDo("rho", <<"B", "r", "B_prime">>, "my_rho")
            /\ G3 = JOpenAndCheck("my_rho", n, "rho")
            /\ G4 = JDo("tau", <<"C", "r", "C_prime", "A", "rho">>, "my_tau")
            /\ G5 = JOpenAndCheck("my_tau", n, "tau") /\ G6 = JCheck("check_zero", <<"tau">>)
    OBVIOUS
  <1>27. /\ RandomRegs \cup {"r"} \subseteq S /\ {"my_rho"} \subseteq S /\ {"my_tau"} \subseteq S
         /\ OpenRegs \cup {"rho"} \subseteq S /\ OpenRegs \cup {"tau"} \subseteq S
    BY DEF SacrificeRegs, OpenRegs
  <1>28. {} \subseteq S
    OBVIOUS
  <1> HIDE DEF S
  <1>19. Gives(Cat(G1, G2), J, K2, S, Lg(J))
    BY <1>1, <1>9, <1>18, <1>27, GivesThen
  <1>20. Gives(Cat(Cat(G1, G2), G3), J, K3, S, Lg(J))
    BY <1>11, <1>18, <1>19, <1>27, GivesThen
  <1>21. Gives(Cat(Cat(Cat(G1, G2), G3), G4), J, K4, S, Lg(J))
    BY <1>14, <1>18, <1>20, <1>27, GivesThen
  <1>22. Gives(Cat(Cat(Cat(Cat(G1, G2), G3), G4), G5), J, K5, S, Lg(J))
    BY <1>16, <1>18, <1>21, <1>27, GivesThen
  <1>23. Gives(Cat(Cat(Cat(Cat(Cat(G1, G2), G3), G4), G5), G6), J, K5, S, Lg(J))
    BY <1>17, <1>18, <1>22, <1>28, GivesThen
  <1>24. JSacrifice(n) = Cat(Cat(Cat(Cat(Cat(G1, G2), G3), G4), G5), G6)
    BY <1>18 DEF JSacrifice, sacrifice, Cat, JRandomness, JDo, JOpenAndCheck, JCheck
  <1> QED BY <1>23, <1>24 DEF S

---------------------------------------------------------------------------
(* The generators                                                          *)

\* P takes I to J and leaves L in the LowGears; or it ends both tasks.
Runs(P, I, J, L) == \E S : Gives(P, I, J, S, L)
Dead(P, I) == P \in JProgs /\ Fails(P, I)

LEMMA RunsThen ==
    ASSUME NEW P, NEW H, NEW I, NEW J, NEW K, NEW S, NEW L, NEW N,
           Runs(P, I, J, L), Gives(H, J, K, S, N)
    PROVE  Runs(Cat(P, H), I, K, N)
  <1>1. PICK T : Gives(P, I, J, T, L)
    BY DEF Runs
  <1>2. Gives(Cat(P, H), I, K, T \cup S, N)
    BY <1>1, GivesCat
  <1> QED BY <1>2 DEF Runs

LEMMA RunsFacts ==
    ASSUME NEW P, NEW I, NEW J, NEW L, Runs(P, I, J, L)
    PROVE  IsJoint(J) /\ Lg(J) = L /\ P \in JProgs
  BY DEF Runs, Gives

LEMMA RunsFirst ==
    ASSUME NEW P, NEW I, NEW J, NEW S, NEW L, Gives(P, I, J, S, L)
    PROVE  Runs(P, I, J, L)
  BY DEF Runs

LEMMA RunsDead ==
    ASSUME NEW P, NEW H, NEW I, NEW J, NEW L, Runs(P, I, J, L), Dead(H, J)
    PROVE  Dead(Cat(P, H), I)
  <1>1. PICK T : Gives(P, I, J, T, L)
    BY DEF Runs
  <1>2. P \in JProgs /\ H \in JProgs
    BY <1>1 DEF Gives, Dead
  <1>3. Cat(P, H) \in JProgs
    BY <1>2, CatProgs
  <1>4. Fails(Cat(P, H), I)
    BY <1>1, <1>2, GivesFails DEF Dead
  <1> QED BY <1>3, <1>4 DEF Dead

LEMMA DeadCat ==
    ASSUME NEW P, NEW H \in JProgs, NEW I, Dead(P, I)
    PROVE  Dead(Cat(P, H), I)
  BY CatProgs, FailsCat DEF Dead

LEMMA OrderlyJoint ==
    ASSUME NEW G, G = [p \in Party |-> G[p]], \A p \in Party : Orderly(p, G[p])
    PROVE  G \in JProgs
  BY DEF Orderly, JProgs

LEMMA SetupFails ==
    ASSUME NEW J, IsJoint(J), \A p \in Party : J[p].lg.other_pk = None
    PROVE  Dead(JCheck("need_setup", <<>>), J)
  <1>1. "need_setup" \in Checks /\ <<>> \in Seq(Names) /\ ErrorOf("need_setup") = "panic"
    BY ArgLists DEF Checks, ErrorOf
  <1>2. ASSUME NEW p \in Party PROVE ~Passes(J[p], "need_setup", Vals(J[p], <<>>))
    <2>1. PICK v : v = Vals(J[p], <<>>)
      OBVIOUS
    <2> QED BY <2>1 DEF Passes
  <1>3. Fails(JCheck("need_setup", <<>>), J)
    BY <1>1, <1>2, CheckFails
  <1>4. Orderly(0, Check("need_setup", <<>>))
    BY InNames, InLocals, ArgLists, OrderlyDo DEF Check
  <1>5. JCheck("need_setup", <<>>) \in JProgs
    BY <1>4 DEF JCheck, JProgs, Orderly
  <1> QED BY <1>3, <1>5 DEF Dead

\* Shares of X with their MACs
JAuthShares(v, sh) ==
    [p \in Party |-> (authenticate_vec(p, v, "mac") \o Do("from_parts", <<v, "mac">>, sh))]

SharesRegs == AuthRegs \cup {"mac"}

LEMMA AuthSharesGives ==
    ASSUME DrawsInField, KeysInField, NEW J, IsJoint(J), KeysAll(Lg(J)),
           NEW v \in Names, NEW sh \in Names, v \notin SharesRegs, NEW n \in Nat,
           NEW X, IsVec(X, n), Holds(J, v, X)
    PROVE  \E K, Y : /\ Gives(JAuthShares(v, sh), J, K, SharesRegs \cup {sh}, Lg(J))
                     /\ Holds(K, sh, Y) /\ AuthBatch(Y, PtAdd(X[0], X[1]), n)
  <1> DEFINE S == SharesRegs \cup {sh}
  <1>0. "mac" \in Names /\ v \notin AuthRegs
    BY InNames DEF SharesRegs
  <1>1. PICK K1, M : /\ Gives(JAuthenticate(v, "mac"), J, K1, AuthRegs \cup {"mac"}, Lg(J))
                     /\ Holds(K1, "mac", M) /\ MacsFor(M, X, n)
    BY <1>0, AuthenticateGives
  <1>2. IsJoint(K1) /\ Lg(K1) = Lg(J) /\ Holds(K1, v, X)
    BY <1>1, GivesFacts, GivesKeeps DEF SharesRegs
  <1>3. MacsOn(M, X, n)
    <2>1. \A p \in Party : \A k \in 1..n : M[p][k] \in F
      BY <1>1 DEF MacsFor, IsVec
    <2> QED BY <1>1, <2>1 DEF MacsOn, MacsFor
  <1>4. PICK Y : Y = JParts(X, M)
    OBVIOUS
  <1>5. AuthBatch(Y, PtAdd(X[0], X[1]), n)
    BY <1>3, <1>4, FromParts
  <1>6. \A p \in Party : Y[p] = from_parts(X[p], M[p])
    BY <1>4 DEF JParts
  <1> HIDE <1>4
  <1>7. PICK K2 : /\ Gives(JDo("from_parts", <<v, "mac">>, sh), K1, K2, {sh}, Lg(J))
                  /\ Holds(K2, sh, Y)
    <2>1. PICK K : K = JPut(K1, sh, Y)
      OBVIOUS
    <2>2. Gives(JDo("from_parts", <<v, "mac">>, sh), K1, K, {sh}, Lg(J)) /\ Holds(K, sh, Y)
      BY <2>1, <1>0, <1>1, <1>2, <1>6, DoFromParts
    <2> QED BY <2>2
  <1>8. Gives(Cat(JAuthenticate(v, "mac"), JDo("from_parts", <<v, "mac">>, sh)), J, K2, S, Lg(J))
    BY <1>1, <1>7, GivesThen DEF SharesRegs
  <1>9. JAuthShares(v, sh) = Cat(JAuthenticate(v, "mac"), JDo("from_parts", <<v, "mac">>, sh))
    BY DEF JAuthShares, Cat, JAuthenticate, JDo
  <1> QED BY <1>5, <1>7, <1>8, <1>9

\* The shares of a product, of the terms known to one party and the cross terms
LEMMA ProductShares ==
    ASSUME NEW n, NEW A, NEW B, IsVec(A, n), IsVec(B, n), NEW C,
           \A p \in Party : C[p] = PtMul(A[p], B[p]), NEW R, CrossSum(R, A, B, C, n)
    PROVE  PtAdd(R[0], R[1]) = PtMul(PtAdd(A[0], A[1]), PtAdd(B[0], B[1]))
  <1>1. /\ A[0] \in [1..n -> F] /\ A[1] \in [1..n -> F] /\ B[0] \in [1..n -> F]
        /\ B[1] \in [1..n -> F] /\ R[0] \in [1..n -> F]
    BY PartyIs DEF IsVec, CrossSum
  <1>2. C[0] = PtMul(A[0], B[0]) /\ C[1] = PtMul(A[1], B[1])
    BY PartyIs
  <1>3. ASSUME NEW k \in 1..n
        PROVE  Plus(R[0][k], R[1][k]) = Times(Plus(A[0][k], A[1][k]), Plus(B[0][k], B[1][k]))
    <2>1. A[0][k] \in F /\ A[1][k] \in F /\ B[0][k] \in F /\ B[1][k] \in F
      BY <1>1
    <2>2. C[0][k] = Times(A[0][k], B[0][k]) /\ C[1][k] = Times(A[1][k], B[1][k])
      BY <1>1, <1>2 DEF PtMul
    <2>3. Plus(R[0][k], R[1][k]) =
          Plus(Plus(C[0][k], C[1][k]), Plus(Times(A[0][k], B[1][k]), Times(A[1][k], B[0][k])))
      BY DEF CrossSum
    <2> QED BY <2>1, <2>2, <2>3, ProductTerms
  <1>4. PICK s, t : s = PtAdd(A[0], A[1]) /\ t = PtAdd(B[0], B[1])
    OBVIOUS
  <1>5. /\ DOMAIN s = 1..n /\ \A k \in 1..n : s[k] = Plus(A[0][k], A[1][k])
        /\ \A k \in 1..n : t[k] = Plus(B[0][k], B[1][k])
    BY <1>1, <1>4 DEF PtAdd
  <1>6. PtMul(s, t) = [k \in 1..n |-> Plus(R[0][k], R[1][k])]
    BY <1>3, <1>5 DEF PtMul
  <1>7. PtAdd(R[0], R[1]) = [k \in 1..n |-> Plus(R[0][k], R[1][k])]
    BY <1>1 DEF PtAdd
  <1> QED BY <1>4, <1>6, <1>7

JTriplesHead(n) ==
    Cat(Cat(Cat(Cat(Cat(Cat(JDraw(n, "a"), JDraw(n, "b")), JDraw(n, "b_prime")),
                    JDo("product", <<"a", "b">>, "c_mine")),
                JDo("product", <<"a", "b_prime">>, "c_prime_mine")),
            JDo("encrypt", <<"a">>, "a_enc")),
        JX("Bytes", "a_enc", "their_a_enc"))

Products(C, A, B) == \A p \in Party : C[p] = PtMul(A[p], B[p])

\* The parties hold what the head of generate_triples leaves.
TripleInputs(J, n, A, B, D, C, CP, E) ==
    /\ IsVec(A, n) /\ IsVec(B, n) /\ IsVec(D, n) /\ IsVec(C, n) /\ IsVec(CP, n)
    /\ Holds(J, "a", A) /\ Holds(J, "b", B) /\ Holds(J, "b_prime", D)
    /\ Holds(J, "c_mine", C) /\ Products(C, A, B)
    /\ Holds(J, "c_prime_mine", CP) /\ Products(CP, A, D)
    /\ Holds(J, "their_a_enc", E) /\ Encrypts(E, A)

LEMMA IsProducts ==
    ASSUME NEW n, NEW A, NEW B, IsVec(A, n), IsVec(B, n)
    PROVE  \E C : IsVec(C, n) /\ Products(C, A, B)
  <1>1. PICK C : C = [p \in Party |-> PtMul(A[p], B[p])]
    OBVIOUS
  <1>2. ASSUME NEW p \in Party PROVE PtMul(A[p], B[p]) \in [1..n -> F]
    <2>1. A[p] \in [1..n -> F] /\ B[p] \in [1..n -> F]
      BY DEF IsVec
    <2>2. \A x, y \in F : Times(x, y) \in F
      BY Closed, CarrierFacts
    <2> QED BY <2>1, <2>2 DEF PtMul
  <1> QED BY <1>1, <1>2 DEF IsVec, Products

LEMMA TriplesHead ==
    ASSUME DrawsInField, NEW I, IsJoint(I), NEW n \in Nat
    PROVE  \E J, A, B, D, C, CP, E :
              Runs(JTriplesHead(n), I, J, Lg(I)) /\ TripleInputs(J, n, A, B, D, C, CP, E)
  <1>0. /\ "a" \in Names /\ "b" \in Names /\ "b_prime" \in Names /\ "c_mine" \in Names
        /\ "c_prime_mine" \in Names /\ "a_enc" \in Names /\ "their_a_enc" \in Names
        /\ "Bytes" \in Names
    BY InNames
  <1>1. PICK K1, A : /\ Gives(JDraw(n, "a"), I, K1, {"a"}, Lg(I)) /\ Holds(K1, "a", A)
                     /\ IsVec(A, n)
    BY <1>0, DrawGives DEF IsVec
  <1>2. IsJoint(K1) /\ Lg(K1) = Lg(I)
    BY <1>1, GivesFacts
  <1>3. PICK K2, B : /\ Gives(JDraw(n, "b"), K1, K2, {"b"}, Lg(I)) /\ Holds(K2, "b", B)
                     /\ IsVec(B, n)
    BY <1>0, <1>2, DrawGives DEF IsVec
  <1>4. IsJoint(K2) /\ Lg(K2) = Lg(I) /\ Holds(K2, "a", A)
    BY <1>1, <1>3, GivesFacts, GivesKeeps
  <1>5. PICK K3, D : /\ Gives(JDraw(n, "b_prime"), K2, K3, {"b_prime"}, Lg(I))
                     /\ Holds(K3, "b_prime", D) /\ IsVec(D, n)
    BY <1>0, <1>4, DrawGives DEF IsVec
  <1>6. IsJoint(K3) /\ Lg(K3) = Lg(I) /\ Holds(K3, "a", A) /\ Holds(K3, "b", B)
    BY <1>3, <1>4, <1>5, GivesFacts, GivesKeeps
  <1>7. PICK C : IsVec(C, n) /\ Products(C, A, B)
    BY <1>1, <1>3, IsProducts
  <1>8. PICK CP : IsVec(CP, n) /\ Products(CP, A, D)
    BY <1>1, <1>5, IsProducts
  <1>9. \A p \in Party : C[p] = PtMul(A[p], B[p])
    BY <1>7 DEF Products
  <1>10. \A p \in Party : CP[p] = PtMul(A[p], D[p])
    BY <1>8 DEF Products
  <1>11. PICK K4 : /\ Gives(JDo("product", <<"a", "b">>, "c_mine"), K3, K4, {"c_mine"}, Lg(I))
                   /\ Holds(K4, "c_mine", C)
    <2>1. PICK K : K = JPut(K3, "c_mine", C)
      OBVIOUS
    <2>2. Gives(JDo("product", <<"a", "b">>, "c_mine"), K3, K, {"c_mine"}, Lg(I)) /\ Holds(K,
                "c_mine", C)
      BY <2>1, <1>0, <1>6, <1>9, DoProduct
    <2> QED BY <2>2
  <1>12. /\ IsJoint(K4) /\ Lg(K4) = Lg(I) /\ Holds(K4, "a", A) /\ Holds(K4, "b", B)
         /\ Holds(K4, "b_prime", D)
    BY <1>5, <1>6, <1>11, GivesFacts, GivesKeeps
  <1>13. PICK K5 : /\ Gives(JDo("product", <<"a", "b_prime">>, "c_prime_mine"), K4, K5,
                            {"c_prime_mine"}, Lg(I))
                   /\ Holds(K5, "c_prime_mine", CP)
    <2>1. PICK K : K = JPut(K4, "c_prime_mine", CP)
      OBVIOUS
    <2>2. Gives(JDo("product", <<"a", "b_prime">>, "c_prime_mine"), K4, K, {"c_prime_mine"},
                Lg(I)) /\ Holds(K, "c_prime_mine", CP)
      BY <2>1, <1>0, <1>12, <1>10, DoProduct
    <2> QED BY <2>2
  <1>14. /\ IsJoint(K5) /\ Lg(K5) = Lg(I) /\ Holds(K5, "a", A) /\ Holds(K5, "b", B)
         /\ Holds(K5, "b_prime", D) /\ Holds(K5, "c_mine", C)
    BY <1>11, <1>12, <1>13, GivesFacts, GivesKeeps
  <1>15. PICK W : \A p \in Party : W[p] = encrypt(p, A[p])
    <2>1. \A p \in Party : [q \in Party |-> encrypt(q, A[q])][p] = encrypt(p, A[p])
      OBVIOUS
    <2> QED BY <2>1
  <1>16. PICK K6 : /\ Gives(JDo("encrypt", <<"a">>, "a_enc"), K5, K6, {"a_enc"}, Lg(I))
                   /\ Holds(K6, "a_enc", W)
    <2>1. PICK K : K = JPut(K5, "a_enc", W)
      OBVIOUS
    <2>2. Gives(JDo("encrypt", <<"a">>, "a_enc"), K5, K, {"a_enc"}, Lg(I)) /\ Holds(K, "a_enc", W)
      BY <2>1, <1>0, <1>14, <1>15, DoEncrypt
    <2> QED BY <2>2
  <1>17. /\ IsJoint(K6) /\ Lg(K6) = Lg(I) /\ Holds(K6, "a", A) /\ Holds(K6, "b", B)
         /\ Holds(K6, "b_prime", D) /\ Holds(K6, "c_mine", C) /\ Holds(K6, "c_prime_mine", CP)
    BY <1>13, <1>14, <1>16, GivesFacts, GivesKeeps
  <1>18. PICK K7 : /\ Gives(JX("Bytes", "a_enc", "their_a_enc"), K6, K7, {"their_a_enc"}, Lg(I))
                   /\ Holds(K7, "their_a_enc", Flip(W))
    <2>1. PICK K : K = JPut(K6, "their_a_enc", Flip(W))
      OBVIOUS
    <2>2. Gives(JX("Bytes", "a_enc", "their_a_enc"), K6, K, {"their_a_enc"}, Lg(I)) /\ Holds(K,
                "their_a_enc", Flip(W))
      BY <2>1, <1>0, <1>16, <1>17, ExchangeGives
    <2> QED BY <2>2
  <1>19. /\ Holds(K7, "a", A) /\ Holds(K7, "b", B)
         /\ Holds(K7, "b_prime", D) /\ Holds(K7, "c_mine", C) /\ Holds(K7, "c_prime_mine", CP)
    BY <1>17, <1>18, GivesKeeps
  <1>20. Encrypts(Flip(W), A)
    BY <1>15, PartyIs DEF Encrypts, Flip
  <1>21. TripleInputs(K7, n, A, B, D, C, CP, Flip(W))
    BY <1>1, <1>3, <1>5, <1>7, <1>8, <1>18, <1>19, <1>20 DEF TripleInputs
  <1>22. PICK G1, G2, G3, G4, G5, G6, G7 :
            /\ G1 = JDraw(n, "a") /\ G2 = JDraw(n, "b") /\ G3 = JDraw(n, "b_prime")
            /\ G4 = JDo("product", <<"a", "b">>, "c_mine")
            /\ G5 = JDo("product", <<"a", "b_prime">>, "c_prime_mine")
            /\ G6 = JDo("encrypt", <<"a">>, "a_enc") /\ G7 = JX("Bytes", "a_enc", "their_a_enc")
    OBVIOUS
  <1>23. Runs(Cat(G1, G2), I, K2, Lg(I))
    BY <1>1, <1>3, <1>22, RunsFirst, RunsThen
  <1>24. Runs(Cat(Cat(G1, G2), G3), I, K3, Lg(I))
    BY <1>5, <1>22, <1>23, RunsThen
  <1>25. Runs(Cat(Cat(Cat(G1, G2), G3), G4), I, K4, Lg(I))
    BY <1>11, <1>22, <1>24, RunsThen
  <1>26. Runs(Cat(Cat(Cat(Cat(G1, G2), G3), G4), G5), I, K5, Lg(I))
    BY <1>13, <1>22, <1>25, RunsThen
  <1>27. Runs(Cat(Cat(Cat(Cat(Cat(G1, G2), G3), G4), G5), G6), I, K6, Lg(I))
    BY <1>16, <1>22, <1>26, RunsThen
  <1>28. Runs(Cat(Cat(Cat(Cat(Cat(Cat(G1, G2), G3), G4), G5), G6), G7), I, K7, Lg(I))
    BY <1>18, <1>22, <1>27, RunsThen
  <1>29. JTriplesHead(n) = Cat(Cat(Cat(Cat(Cat(Cat(G1, G2), G3), G4), G5), G6), G7)
    BY <1>22 DEF JTriplesHead
  <1> QED BY <1>21, <1>28, <1>29

Summed(X) == PtAdd(X[0], X[1])

\* The registers enc, b and c hold what a product is shared from.
ProductInputs(J, enc, b, c, n, A, B, C, E) ==
    /\ IsVec(A, n) /\ IsVec(B, n) /\ IsVec(C, n) /\ Encrypts(E, A)
    /\ Holds(J, enc, E) /\ Holds(J, b, B) /\ Holds(J, c, C)

HasProduct(J, enc, b, c, res, n, A, B, C, L) ==
    \E K, R : /\ Gives(JShareProduct(enc, b, c, res), J, K, ProductRegs \cup {res}, L)
              /\ Holds(K, res, R) /\ CrossSum(R, A, B, C, n)

LEMMA ProductGives ==
    ASSUME DrawsInField, NEW J, IsJoint(J), NEW L, Lg(J) = L, NEW enc \in Names, NEW b \in Names,
           NEW c \in Names, NEW res \in Names, NEW n \in Nat, NEW A, NEW B, NEW C, NEW E,
           ProductInputs(J, enc, b, c, n, A, B, C, E)
    PROVE  HasProduct(J, enc, b, c, res, n, A, B, C, L)
  <1>1. /\ IsVec(A, n) /\ IsVec(B, n) /\ IsVec(C, n) /\ Encrypts(E, A)
        /\ Holds(J, enc, E) /\ Holds(J, b, B) /\ Holds(J, c, C)
    BY DEF ProductInputs
  <1>2. \E K, R :
              /\ Gives(JShareProduct(enc, b, c, res), J, K, ProductRegs \cup {res}, Lg(J))
              /\ Holds(K, res, R) /\ CrossSum(R, A, B, C, n)
    BY <1>1, ShareProductGives
  <1> QED BY <1>2 DEF HasProduct

\* The parties hold a, b, ab, b' and ab', shared.
TripleVecs(J, n, A, B, C, D, E) ==
    /\ IsVec(A, n) /\ IsVec(B, n) /\ IsVec(C, n) /\ IsVec(D, n) /\ IsVec(E, n)
    /\ Holds(J, "a", A) /\ Holds(J, "b", B) /\ Holds(J, "c", C)
    /\ Holds(J, "b_prime", D) /\ Holds(J, "c_prime", E)
    /\ Summed(C) = PtMul(Summed(A), Summed(B)) /\ Summed(E) = PtMul(Summed(A), Summed(D))

JTriplesProducts(P) ==
    Cat(Cat(Cat(P, JCheck("need_setup", <<>>)),
            JShareProduct("their_a_enc", "b", "c_mine", "c")),
        JShareProduct("their_a_enc", "b_prime", "c_prime_mine", "c_prime"))

LEMMA TriplesProducts ==
    ASSUME DrawsInField, NEW n \in Nat, NEW P, NEW I, NEW J, NEW L, Runs(P, I, J, L), KeysAll(L),
           NEW A, NEW B, NEW D, NEW C, NEW CP, NEW E, TripleInputs(J, n, A, B, D, C, CP, E)
    PROVE  \E K, R, RP :
              Runs(JTriplesProducts(P), I, K, L) /\ TripleVecs(K, n, A, B, R, D, RP)
  <1>0. /\ "b" \in Names /\ "b_prime" \in Names /\ "c_mine" \in Names
        /\ "c_prime_mine" \in Names /\ "their_a_enc" \in Names /\ "c" \in Names
        /\ "c_prime" \in Names
    BY InNames
  <1>1. IsJoint(J) /\ Lg(J) = L
    BY RunsFacts
  <1>2. /\ IsVec(A, n) /\ IsVec(B, n) /\ IsVec(D, n) /\ IsVec(C, n) /\ IsVec(CP, n)
        /\ Encrypts(E, A) /\ Products(C, A, B) /\ Products(CP, A, D)
    BY DEF TripleInputs
  <1>3. /\ Holds(J, "a", A) /\ Holds(J, "b", B) /\ Holds(J, "b_prime", D)
        /\ Holds(J, "c_mine", C) /\ Holds(J, "c_prime_mine", CP) /\ Holds(J, "their_a_enc", E)
    BY DEF TripleInputs
  <1>4. Gives(JCheck("need_setup", <<>>), J, J, {}, L)
    BY <1>1, SetupPasses
  <1>5. PICK K1, R :
              /\ Gives(JShareProduct("their_a_enc", "b", "c_mine", "c"), J, K1,
                       ProductRegs \cup {"c"}, L)
              /\ Holds(K1, "c", R) /\ CrossSum(R, A, B, C, n)
    <2>1. ProductInputs(J, "their_a_enc", "b", "c_mine", n, A, B, C, E)
      BY <1>2, <1>3 DEF ProductInputs
    <2>2. HasProduct(J, "their_a_enc", "b", "c_mine", "c", n, A, B, C, L)
      BY <1>0, <1>1, <2>1, ProductGives
    <2> QED BY <2>2 DEF HasProduct
  <1>6. \A x \in {"a", "b", "b_prime", "c_prime_mine", "their_a_enc"} :
            x \notin ProductRegs \cup {"c"}
    BY DEF ProductRegs
  <1>7. /\ IsJoint(K1) /\ Lg(K1) = L /\ Holds(K1, "a", A) /\ Holds(K1, "b", B)
        /\ Holds(K1, "b_prime", D) /\ Holds(K1, "c_prime_mine", CP) /\ Holds(K1, "their_a_enc", E)
    BY <1>3, <1>5, <1>6, GivesFacts, GivesKeeps
  <1>8. PICK K2, RP :
              /\ Gives(JShareProduct("their_a_enc", "b_prime", "c_prime_mine", "c_prime"), K1, K2,
                       ProductRegs \cup {"c_prime"}, L)
              /\ Holds(K2, "c_prime", RP) /\ CrossSum(RP, A, D, CP, n)
    <2>1. ProductInputs(K1, "their_a_enc", "b_prime", "c_prime_mine", n, A, D, CP, E)
      BY <1>2, <1>7 DEF ProductInputs
    <2>2. HasProduct(K1, "their_a_enc", "b_prime", "c_prime_mine", "c_prime", n, A, D, CP, L)
      BY <1>0, <1>7, <2>1, ProductGives
    <2> QED BY <2>2 DEF HasProduct
  <1>9. \A x \in {"a", "b", "b_prime", "c"} : x \notin ProductRegs \cup {"c_prime"}
    BY DEF ProductRegs
  <1>10. /\ Holds(K2, "a", A) /\ Holds(K2, "b", B) /\ Holds(K2, "b_prime", D) /\ Holds(K2, "c", R)
    BY <1>5, <1>7, <1>8, <1>9, GivesKeeps
  <1>11. Summed(R) = PtMul(Summed(A), Summed(B))
    BY <1>2, <1>5, ProductShares DEF Products, Summed
  <1>12. Summed(RP) = PtMul(Summed(A), Summed(D))
    BY <1>2, <1>8, ProductShares DEF Products, Summed
  <1>13. IsVec(R, n) /\ IsVec(RP, n)
    BY <1>5, <1>8 DEF CrossSum
  <1>14. TripleVecs(K2, n, A, B, R, D, RP)
    BY <1>2, <1>8, <1>10, <1>11, <1>12, <1>13 DEF TripleVecs
  <1>15. PICK G1, G2, G3 :
            /\ G1 = JCheck("need_setup", <<>>)
            /\ G2 = JShareProduct("their_a_enc", "b", "c_mine", "c")
            /\ G3 = JShareProduct("their_a_enc", "b_prime", "c_prime_mine", "c_prime")
    OBVIOUS
  <1>16. Runs(Cat(P, G1), I, J, L)
    BY <1>4, <1>15, RunsThen
  <1>17. Runs(Cat(Cat(P, G1), G2), I, K1, L)
    BY <1>5, <1>15, <1>16, RunsThen
  <1>18. Runs(Cat(Cat(Cat(P, G1), G2), G3), I, K2, L)
    BY <1>8, <1>15, <1>17, RunsThen
  <1>19. JTriplesProducts(P) = Cat(Cat(Cat(P, G1), G2), G3)
    BY <1>15 DEF JTriplesProducts
  <1> QED BY <1>14, <1>18, <1>19

\* The parties hold authentic shares of a, b, ab, d and ad.
TripleShares(J, n, a, b, d, XA, XB, XC, XD, XE) ==
    /\ Holds(J, "A", XA) /\ Holds(J, "B", XB) /\ Holds(J, "C", XC)
    /\ Holds(J, "B_prime", XD) /\ Holds(J, "C_prime", XE)
    /\ AuthBatch(XA, a, n) /\ AuthBatch(XB, b, n) /\ AuthBatch(XC, PtMul(a, b), n)
    /\ AuthBatch(XD, d, n) /\ AuthBatch(XE, PtMul(a, d), n)

JTriplesShares(P) ==
    Cat(Cat(Cat(Cat(Cat(P, JAuthShares("a", "A")), JAuthShares("b", "B")), JAuthShares("c", "C")),
            JAuthShares("b_prime", "B_prime")),
        JAuthShares("c_prime", "C_prime"))

LEMMA TriplesShares ==
    ASSUME DrawsInField, KeysInField, NEW n \in Nat, NEW P, NEW I, NEW J, NEW L, Runs(P, I, J, L),
           KeysAll(L), NEW A, NEW B, NEW C, NEW D, NEW E, TripleVecs(J, n, A, B, C, D, E)
    PROVE  \E K, XA, XB, XC, XD, XE, a, b, d :
              Runs(JTriplesShares(P), I, K, L) /\ TripleShares(K, n, a, b, d, XA, XB, XC, XD, XE)
  <1>0. /\ "a" \in Names /\ "b" \in Names /\ "c" \in Names /\ "b_prime" \in Names
        /\ "c_prime" \in Names /\ "A" \in Names /\ "B" \in Names /\ "C" \in Names
        /\ "B_prime" \in Names /\ "C_prime" \in Names
    BY InNames
  <1>1. IsJoint(J) /\ Lg(J) = L
    BY RunsFacts
  <1>2. IsVec(A, n) /\ IsVec(B, n) /\ IsVec(C, n) /\ IsVec(D, n) /\ IsVec(E, n)
    BY DEF TripleVecs
  <1>3. /\ Holds(J, "a", A) /\ Holds(J, "b", B) /\ Holds(J, "c", C)
        /\ Holds(J, "b_prime", D) /\ Holds(J, "c_prime", E)
    BY DEF TripleVecs
  <1>4. \A x \in {"a", "b", "c", "b_prime", "c_prime"} : x \notin SharesRegs
    BY DEF SharesRegs, AuthRegs, ProductRegs
  <1>5. PICK K1, XA : /\ Gives(JAuthShares("a", "A"), J, K1, SharesRegs \cup {"A"}, L)
                      /\ Holds(K1, "A", XA) /\ AuthBatch(XA, Summed(A), n)
    BY <1>0, <1>1, <1>2, <1>3, <1>4, AuthSharesGives DEF Summed
  <1>6. \A x \in {"b", "c", "b_prime", "c_prime"} : x \notin SharesRegs \cup {"A"}
    BY <1>4
  <1>7. /\ IsJoint(K1) /\ Lg(K1) = L /\ Holds(K1, "b", B) /\ Holds(K1, "c", C)
        /\ Holds(K1, "b_prime", D) /\ Holds(K1, "c_prime", E)
    BY <1>3, <1>5, <1>6, GivesFacts, GivesKeeps
  <1>8. PICK K2, XB : /\ Gives(JAuthShares("b", "B"), K1, K2, SharesRegs \cup {"B"}, L)
                      /\ Holds(K2, "B", XB) /\ AuthBatch(XB, Summed(B), n)
    BY <1>0, <1>2, <1>4, <1>7, AuthSharesGives DEF Summed
  <1>9. \A x \in {"c", "b_prime", "c_prime", "A"} : x \notin SharesRegs \cup {"B"}
    BY <1>4 DEF SharesRegs, AuthRegs, ProductRegs
  <1>10. /\ IsJoint(K2) /\ Lg(K2) = L /\ Holds(K2, "c", C) /\ Holds(K2, "A", XA)
         /\ Holds(K2, "b_prime", D) /\ Holds(K2, "c_prime", E)
    BY <1>5, <1>7, <1>8, <1>9, GivesFacts, GivesKeeps
  <1>11. PICK K3, XC : /\ Gives(JAuthShares("c", "C"), K2, K3, SharesRegs \cup {"C"}, L)
                       /\ Holds(K3, "C", XC) /\ AuthBatch(XC, Summed(C), n)
    BY <1>0, <1>2, <1>4, <1>10, AuthSharesGives DEF Summed
  <1>12. \A x \in {"b_prime", "c_prime", "A", "B"} : x \notin SharesRegs \cup {"C"}
    BY <1>4 DEF SharesRegs, AuthRegs, ProductRegs
  <1>13. /\ IsJoint(K3) /\ Lg(K3) = L /\ Holds(K3, "A", XA) /\ Holds(K3, "B", XB)
         /\ Holds(K3, "b_prime", D) /\ Holds(K3, "c_prime", E)
    BY <1>8, <1>10, <1>11, <1>12, GivesFacts, GivesKeeps
  <1>14. PICK K4, XD : /\ Gives(JAuthShares("b_prime", "B_prime"), K3, K4,
                                SharesRegs \cup {"B_prime"}, L)
                       /\ Holds(K4, "B_prime", XD) /\ AuthBatch(XD, Summed(D), n)
    BY <1>0, <1>2, <1>4, <1>13, AuthSharesGives DEF Summed
  <1>15. \A x \in {"c_prime", "A", "B", "C"} : x \notin SharesRegs \cup {"B_prime"}
    BY <1>4 DEF SharesRegs, AuthRegs, ProductRegs
  <1>16. /\ IsJoint(K4) /\ Lg(K4) = L /\ Holds(K4, "A", XA) /\ Holds(K4, "B", XB)
         /\ Holds(K4, "C", XC) /\ Holds(K4, "c_prime", E)
    BY <1>11, <1>13, <1>14, <1>15, GivesFacts, GivesKeeps
  <1>17. PICK K5, XE : /\ Gives(JAuthShares("c_prime", "C_prime"), K4, K5,
                                SharesRegs \cup {"C_prime"}, L)
                       /\ Holds(K5, "C_prime", XE) /\ AuthBatch(XE, Summed(E), n)
    BY <1>0, <1>2, <1>4, <1>16, AuthSharesGives DEF Summed
  <1>18. \A x \in {"A", "B", "C", "B_prime"} : x \notin SharesRegs \cup {"C_prime"}
    BY DEF SharesRegs, AuthRegs, ProductRegs
  <1>19. /\ Holds(K5, "A", XA) /\ Holds(K5, "B", XB) /\ Holds(K5, "C", XC)
         /\ Holds(K5, "B_prime", XD)
    BY <1>14, <1>16, <1>17, <1>18, GivesKeeps
  <1>20. PICK a, b, d : a = Summed(A) /\ b = Summed(B) /\ d = Summed(D)
    OBVIOUS
  <1>21. Summed(C) = PtMul(a, b) /\ Summed(E) = PtMul(a, d)
    BY <1>20 DEF TripleVecs
  <1>22. TripleShares(K5, n, a, b, d, XA, XB, XC, XD, XE)
    BY <1>5, <1>8, <1>11, <1>14, <1>17, <1>19, <1>20, <1>21 DEF TripleShares
  <1>23. PICK G1, G2, G3, G4, G5 :
            /\ G1 = JAuthShares("a", "A") /\ G2 = JAuthShares("b", "B")
            /\ G3 = JAuthShares("c", "C") /\ G4 = JAuthShares("b_prime", "B_prime")
            /\ G5 = JAuthShares("c_prime", "C_prime")
    OBVIOUS
  <1>24. Runs(Cat(P, G1), I, K1, L)
    BY <1>5, <1>23, RunsThen
  <1>25. Runs(Cat(Cat(P, G1), G2), I, K2, L)
    BY <1>8, <1>23, <1>24, RunsThen
  <1>26. Runs(Cat(Cat(Cat(P, G1), G2), G3), I, K3, L)
    BY <1>11, <1>23, <1>25, RunsThen
  <1>27. Runs(Cat(Cat(Cat(Cat(P, G1), G2), G3), G4), I, K4, L)
    BY <1>14, <1>23, <1>26, RunsThen
  <1>28. Runs(Cat(Cat(Cat(Cat(Cat(P, G1), G2), G3), G4), G5), I, K5, L)
    BY <1>17, <1>23, <1>27, RunsThen
  <1>29. JTriplesShares(P) = Cat(Cat(Cat(Cat(Cat(P, G1), G2), G3), G4), G5)
    BY <1>23 DEF JTriplesShares
  <1> QED BY <1>22, <1>28, <1>29

---------------------------------------------------------------------------
(* Replacing one field of the LowGears                                     *)

\* M is L with field f set to X.
LgSet(L, M, f, X) ==
    M = [p \in Party |-> M[p]] /\ \A p \in Party : M[p] = [L[p] EXCEPT ![f] = X[p]]

LEMMA LgSetFacts ==
    ASSUME NEW L, \A p \in Party : IsLg(L[p]), NEW f \in LgFields, NEW X, NEW M, LgSet(L, M, f, X)
    PROVE  /\ \A p \in Party : IsLg(M[p]) /\ M[p][f] = X[p]
           /\ \A p \in Party : \A g \in LgFields : g # f => M[p][g] = L[p][g]
  <1> SUFFICES ASSUME NEW p \in Party
               PROVE  /\ IsLg(M[p]) /\ M[p][f] = X[p]
                      /\ \A g \in LgFields : g # f => M[p][g] = L[p][g]
    OBVIOUS
  <1>1. PICK s, t, x : s = L[p] /\ t = M[p] /\ x = X[p]
    OBVIOUS
  <1>2. IsLg(s) /\ t = [s EXCEPT ![f] = x]
    BY <1>1 DEF LgSet
  <1>3. IsLg(t) /\ t[f] = x /\ \A g \in LgFields : g # f => t[g] = s[g]
    BY <1>2 DEF IsLg
  <1> QED BY <1>1, <1>3

\* The parts of LgOK
KeysOK(L) == (\A p \in Party : L[p].other_pk = None) \/ KeysAll(L)
TriplesOK(L) == \E n \in Nat : TriplesFit(L[0].triples, L[1].triples, n)
PairsOK(L) == \E n \in Nat : PairsFit(L[0].inverse_tuples, L[1].inverse_tuples, n)
BitsOK(L) == \E n \in Nat : BitsFit(L[0].shared_bits, L[1].shared_bits, n)
ValuesOK(L) == \E n \in Nat : ValuesFit(L[0].shared_randomness, L[1].shared_randomness, n)
MasksOK(L) == \A p \in Party : \E n \in Nat :
    MasksFit(L[p].input_masks.my_masks, L[p].input_masks.my_mask_shares,
             L[1 - p].input_masks.their_masks, n)

LEMMA LgParts ==
    ASSUME NEW L
    PROVE  LgOK(L) <=> /\ \A p \in Party : IsLg(L[p]) /\ IsMasks(L[p].input_masks)
                       /\ KeysOK(L) /\ TriplesOK(L) /\ PairsOK(L) /\ BitsOK(L) /\ ValuesOK(L)
                       /\ MasksOK(L)
  BY DEF LgOK, KeysOK, TriplesOK, PairsOK, BitsOK, ValuesOK, MasksOK, KeysAll

\* What a new value of a field leaves of the other fields' parts
LEMMA LgOthers ==
    ASSUME NEW L, LgOK(L), NEW f \in LgFields, NEW X, NEW M, LgSet(L, M, f, X)
    PROVE  /\ \A p \in Party : IsLg(M[p])
           /\ f # "input_masks" => (\A p \in Party : IsMasks(M[p].input_masks)) /\ MasksOK(M)
           /\ f \notin {"other_pk", "other_mac_enc"} => KeysOK(M)
           /\ f # "triples" => TriplesOK(M)
           /\ f # "inverse_tuples" => PairsOK(M)
           /\ f # "shared_bits" => BitsOK(M)
           /\ f # "shared_randomness" => ValuesOK(M)
  <1>1. /\ \A p \in Party : IsLg(L[p]) /\ IsMasks(L[p].input_masks)
        /\ KeysOK(L) /\ TriplesOK(L) /\ PairsOK(L) /\ BitsOK(L) /\ ValuesOK(L) /\ MasksOK(L)
    BY LgParts
  <1>2. /\ \A p \in Party : IsLg(M[p]) /\ M[p][f] = X[p]
        /\ \A p \in Party : \A g \in LgFields : g # f => M[p][g] = L[p][g]
    BY <1>1, LgSetFacts
  <1>3. ASSUME f # "input_masks" PROVE (\A p \in Party : IsMasks(M[p].input_masks)) /\ MasksOK(M)
    <2>1. \A p \in Party : M[p].input_masks = L[p].input_masks
      BY <1>2, <1>3 DEF LgFields
    <2>2. \A p \in Party : 1 - p \in Party
      BY PartyIs
    <2> QED BY <1>1, <2>1, <2>2 DEF MasksOK
  <1>4. ASSUME f \notin {"other_pk", "other_mac_enc"} PROVE KeysOK(M)
    <2>1. \A p \in Party : M[p].other_pk = L[p].other_pk /\ M[p].other_mac_enc = L[p].other_mac_enc
      BY <1>2, <1>4 DEF LgFields
    <2> QED BY <1>1, <2>1 DEF KeysOK, KeysAll, KeysSet
  <1>5. ASSUME f # "triples" PROVE TriplesOK(M)
    <2>1. \A p \in Party : M[p].triples = L[p].triples
      BY <1>2, <1>5 DEF LgFields
    <2> QED BY <1>1, <2>1, PartyIs DEF TriplesOK
  <1>6. ASSUME f # "inverse_tuples" PROVE PairsOK(M)
    <2>1. \A p \in Party : M[p].inverse_tuples = L[p].inverse_tuples
      BY <1>2, <1>6 DEF LgFields
    <2> QED BY <1>1, <2>1, PartyIs DEF PairsOK
  <1>7. ASSUME f # "shared_bits" PROVE BitsOK(M)
    <2>1. \A p \in Party : M[p].shared_bits = L[p].shared_bits
      BY <1>2, <1>7 DEF LgFields
    <2> QED BY <1>1, <2>1, PartyIs DEF BitsOK
  <1>8. ASSUME f # "shared_randomness" PROVE ValuesOK(M)
    <2>1. \A p \in Party : M[p].shared_randomness = L[p].shared_randomness
      BY <1>2, <1>8 DEF LgFields
    <2> QED BY <1>1, <2>1, PartyIs DEF ValuesOK
  <1> QED BY <1>2, <1>3, <1>4, <1>5, <1>6, <1>7, <1>8

LEMMA LgTriples ==
    ASSUME NEW L, LgOK(L), NEW X, NEW M, LgSet(L, M, "triples", X), NEW n \in Nat,
           TriplesFit(X[0], X[1], n)
    PROVE  LgOK(M)
  <1>1. "triples" \in LgFields /\ \A p \in Party : IsLg(L[p])
    BY LgParts DEF LgFields
  <1>2. TriplesOK(M)
    BY <1>1, LgSetFacts, PartyIs DEF TriplesOK
  <1> QED BY <1>1, <1>2, LgOthers, LgParts

LEMMA LgPairs ==
    ASSUME NEW L, LgOK(L), NEW X, NEW M, LgSet(L, M, "inverse_tuples", X), NEW n \in Nat,
           PairsFit(X[0], X[1], n)
    PROVE  LgOK(M)
  <1>1. "inverse_tuples" \in LgFields /\ \A p \in Party : IsLg(L[p])
    BY LgParts DEF LgFields
  <1>2. PairsOK(M)
    BY <1>1, LgSetFacts, PartyIs DEF PairsOK
  <1> QED BY <1>1, <1>2, LgOthers, LgParts

LEMMA LgBits ==
    ASSUME NEW L, LgOK(L), NEW X, NEW M, LgSet(L, M, "shared_bits", X), NEW n \in Nat,
           BitsFit(X[0], X[1], n)
    PROVE  LgOK(M)
  <1>1. "shared_bits" \in LgFields /\ \A p \in Party : IsLg(L[p])
    BY LgParts DEF LgFields
  <1>2. BitsOK(M)
    BY <1>1, LgSetFacts, PartyIs DEF BitsOK
  <1> QED BY <1>1, <1>2, LgOthers, LgParts

LEMMA LgValues ==
    ASSUME NEW L, LgOK(L), NEW X, NEW M, LgSet(L, M, "shared_randomness", X), NEW n \in Nat,
           ValuesFit(X[0], X[1], n)
    PROVE  LgOK(M)
  <1>1. "shared_randomness" \in LgFields /\ \A p \in Party : IsLg(L[p])
    BY LgParts DEF LgFields
  <1>2. ValuesOK(M)
    BY <1>1, LgSetFacts, PartyIs DEF ValuesOK
  <1> QED BY <1>1, <1>2, LgOthers, LgParts

LEMMA JoinedIs ==
    ASSUME NEW X, NEW v, NEW n, AuthBatch(X, v, n)
    PROVE  Joined(X[0], X[1]) = X
  <1>1. X = [p \in Party |-> X[p]]
    BY DEF AuthBatch
  <1>2. \A p \in Party : Joined(X[0], X[1])[p] = X[p]
    BY PartyIs DEF Joined
  <1> QED BY <1>1, <1>2 DEF Joined

LEMMA Args3 ==
    ASSUME NEW J, NEW a, NEW A, Holds(J, a, A), NEW b, NEW B, Holds(J, b, B),
           NEW c, NEW C, Holds(J, c, C), NEW p \in Party
    PROVE  /\ Vals(J[p], <<a, b, c>>)[1] = A[p] /\ Vals(J[p], <<a, b, c>>)[2] = B[p]
           /\ Vals(J[p], <<a, b, c>>)[3] = C[p]
  BY DEF Vals, Holds

LEMMA TriplesEnd ==
    ASSUME DrawsInField, KeysInField, NEW n \in Nat \ {0}, NEW P, NEW I, NEW J, NEW L,
           Runs(P, I, J, L), LgOK(L), NEW a, NEW b, NEW d, NEW XA, NEW XB, NEW XC, NEW XD, NEW XE,
           TripleShares(J, n, a, b, d, XA, XB, XC, XD, XE)
    PROVE  \E K, M : Runs(Cat(Cat(P, JSacrifice(n)), JDo("set_triples", <<"A", "B", "C">>, "")),
                          I, K, M) /\ LgOK(M)
  <1>0. "A" \in Names /\ "B" \in Names /\ "C" \in Names /\ "set_triples" \in Stores
    BY InNames DEF Stores
  <1>1. IsJoint(J) /\ Lg(J) = L
    BY RunsFacts
  <1>2. /\ AuthBatch(XA, a, n) /\ AuthBatch(XB, b, n) /\ AuthBatch(XC, PtMul(a, b), n)
        /\ AuthBatch(XD, d, n) /\ AuthBatch(XE, PtMul(a, d), n)
    BY DEF TripleShares
  <1>3. /\ Holds(J, "A", XA) /\ Holds(J, "B", XB) /\ Holds(J, "C", XC)
        /\ Holds(J, "B_prime", XD) /\ Holds(J, "C_prime", XE)
    BY DEF TripleShares
  <1>4. PICK K1 : Gives(JSacrifice(n), J, K1, SacrificeRegs, L)
    BY <1>1, <1>2, <1>3, SacrificeGives
  <1>5. \A x \in {"A", "B", "C"} : x \notin SacrificeRegs
    BY DEF SacrificeRegs, OpenRegs, RandomRegs, CommitRegs
  <1>6. IsJoint(K1) /\ Lg(K1) = L /\ Holds(K1, "A", XA) /\ Holds(K1, "B", XB) /\ Holds(K1, "C", XC)
    BY <1>3, <1>4, <1>5, GivesFacts, GivesKeeps
  <1>7. PICK T : /\ T = [p \in Party |-> T[p]]
                 /\ \A p \in Party : T[p] = [a |-> XA[p], b |-> XB[p], c |-> XC[p]]
    <2>1. PICK T : T = [p \in Party |-> [a |-> XA[p], b |-> XB[p], c |-> XC[p]]]
      OBVIOUS
    <2>2. T = [p \in Party |-> T[p]]
      BY <2>1
    <2> QED BY <2>1, <2>2
  <1>8. TriplesFit(T[0], T[1], n)
    <2>1. /\ T[0] = [a |-> XA[0], b |-> XB[0], c |-> XC[0]]
          /\ T[1] = [a |-> XA[1], b |-> XB[1], c |-> XC[1]]
      BY <1>7, PartyIs
    <2>2. /\ Joined(XA[0], XA[1]) = XA /\ Joined(XB[0], XB[1]) = XB /\ Joined(XC[0], XC[1]) = XC
      BY <1>2, JoinedIs
    <2>3. a \in [1..n -> F] /\ b \in [1..n -> F]
      BY <1>2 DEF AuthBatch
    <2>4. PICK t, u : t = T[0] /\ u = T[1]
      OBVIOUS
    <2>5. /\ t.a = XA[0] /\ t.b = XB[0] /\ t.c = XC[0] /\ t = [a |-> t.a, b |-> t.b, c |-> t.c]
          /\ u.a = XA[1] /\ u.b = XB[1] /\ u.c = XC[1] /\ u = [a |-> u.a, b |-> u.b, c |-> u.c]
      BY <2>1, <2>4
    <2>6. /\ AuthBatch(Joined(t.a, u.a), a, n) /\ AuthBatch(Joined(t.b, u.b), b, n)
          /\ AuthBatch(Joined(t.c, u.c), PtMul(a, b), n)
      BY <1>2, <2>2, <2>5
    <2>7. TriplesFit(t, u, n)
      BY <2>3, <2>5, <2>6 DEF TriplesFit
    <2> QED BY <2>4, <2>7
  <1>9. PICK M : /\ M = [p \in Party |-> M[p]]
                 /\ \A p \in Party : M[p] = [L[p] EXCEPT !.triples = T[p]]
    <2>1. PICK M : M = [p \in Party |-> [L[p] EXCEPT !.triples = T[p]]]
      OBVIOUS
    <2>2. M = [p \in Party |-> M[p]]
      BY <2>1
    <2> QED BY <2>1, <2>2
  <1>10. LgOK(M)
    <2>1. LgSet(L, M, "triples", T)
      BY <1>9 DEF LgSet
    <2> QED BY <1>8, <2>1, LgTriples
  <1>11. ASSUME NEW p \in Party
         PROVE  M[p] = Store(p, K1[p].lg, "set_triples", Vals(K1[p], <<"A", "B", "C">>))
    <2>1. PICK v, l : v = Vals(K1[p], <<"A", "B", "C">>) /\ l = L[p]
      OBVIOUS
    <2>2. v[1] = XA[p] /\ v[2] = XB[p] /\ v[3] = XC[p]
      BY <1>6, <2>1, Args3
    <2>3. Store(p, l, "set_triples", v) = set_triples(l, v[1], v[2], v[3])
      BY DEF Store
    <2>4. set_triples(l, v[1], v[2], v[3]) = [l EXCEPT !.triples = T[p]]
      BY <1>7, <2>2 DEF set_triples
    <2>5. K1[p].lg = l
      BY <1>6, <2>1 DEF Lg
    <2> QED BY <1>9, <2>1, <2>3, <2>4, <2>5
  <1>12. <<"A", "B", "C">> \in Seq(Names)
    BY <1>0, ArgLists
  <1>13. PICK K2 : Gives(JDo("set_triples", <<"A", "B", "C">>, ""), K1, K2, {}, M)
    BY <1>0, <1>6, <1>9, <1>11, <1>12, StoreGives
  <1>14. Runs(Cat(P, JSacrifice(n)), I, K1, L)
    BY <1>4, RunsThen
  <1>15. Runs(Cat(Cat(P, JSacrifice(n)), JDo("set_triples", <<"A", "B", "C">>, "")), I, K2, M)
    BY <1>13, <1>14, RunsThen
  <1> QED BY <1>10, <1>15

---------------------------------------------------------------------------
(* The pieces as joint programs                                            *)

LEMMA DoJoint ==
    ASSUME NEW op \in Locals, NEW args \in Seq(Names), NEW res \in Names, res # "my_comm"
    PROVE  JDo(op, args, res) \in JProgs /\ JCheck(op, args) \in JProgs
  <1>1. "" \in Names /\ "" # "my_comm"
    BY InNames
  <1>2. PICK G : G = JDo(op, args, res)
    OBVIOUS
  <1>3. \A p \in Party : Orderly(p, G[p])
    BY <1>2, OrderlyDo DEF JDo
  <1>4. G = [p \in Party |-> G[p]]
    BY <1>2 DEF JDo
  <1>5. PICK H : H = JCheck(op, args)
    OBVIOUS
  <1>6. \A p \in Party : Orderly(p, H[p])
    BY <1>1, <1>5, OrderlyDo DEF JCheck, Check
  <1>7. H = [p \in Party |-> H[p]]
    BY <1>5 DEF JCheck
  <1> QED BY <1>2, <1>3, <1>4, <1>5, <1>6, <1>7, OrderlyJoint

LEMMA ProductJoint ==
    ASSUME NEW enc \in Names, NEW b \in Names, NEW c \in Names, NEW res \in Names, res # "my_comm"
    PROVE  JShareProduct(enc, b, c, res) \in JProgs
  <1>1. PICK G : G = JShareProduct(enc, b, c, res)
    OBVIOUS
  <1>2. \A p \in Party : Orderly(p, G[p])
    BY <1>1, OrderlyProduct DEF JShareProduct
  <1>3. G = [p \in Party |-> G[p]]
    BY <1>1 DEF JShareProduct
  <1> QED BY <1>1, <1>2, <1>3, OrderlyJoint

LEMMA AuthSharesJoint ==
    ASSUME NEW v \in Names, NEW sh \in Names, sh # "my_comm"
    PROVE  JAuthShares(v, sh) \in JProgs
  <1>1. PICK G : G = JAuthShares(v, sh)
    OBVIOUS
  <1>2. \A p \in Party : Orderly(p, G[p])
    BY <1>1, OrderlyAuthenticated DEF JAuthShares
  <1>3. G = [p \in Party |-> G[p]]
    BY <1>1 DEF JAuthShares
  <1> QED BY <1>1, <1>2, <1>3, OrderlyJoint

LEMMA SacrificeJoint ==
    ASSUME NEW n \in Nat
    PROVE  JSacrifice(n) \in JProgs
  <1>1. PICK G : G = JSacrifice(n)
    OBVIOUS
  <1>2. \A p \in Party : Orderly(p, G[p])
    BY <1>1, OrderlySacrifice DEF JSacrifice
  <1>3. G = [p \in Party |-> G[p]]
    BY <1>1 DEF JSacrifice
  <1> QED BY <1>1, <1>2, <1>3, OrderlyJoint

LEMMA OpenJoint ==
    ASSUME NEW x \in Names, NEW n \in Nat, NEW res \in Names, res # "my_comm"
    PROVE  JOpenAndCheck(x, n, res) \in JProgs
  <1>1. PICK G : G = JOpenAndCheck(x, n, res)
    OBVIOUS
  <1>2. \A p \in Party : Orderly(p, G[p])
    BY <1>1, OrderlyOpenAndCheck DEF JOpenAndCheck
  <1>3. G = [p \in Party |-> G[p]]
    BY <1>1 DEF JOpenAndCheck
  <1> QED BY <1>1, <1>2, <1>3, OrderlyJoint

LEMMA ExchangeJoint ==
    ASSUME NEW kind \in Names, NEW out \in Names, NEW in \in Names, in # "my_comm"
    PROVE  JX(kind, out, in) \in JProgs
  <1>1. PICK G : G = JX(kind, out, in)
    OBVIOUS
  <1>2. \A p \in Party : Orderly(p, G[p])
    BY <1>1, OrderlyExchange DEF JX
  <1>3. G = [p \in Party |-> G[p]]
    BY <1>1 DEF JX
  <1> QED BY <1>1, <1>2, <1>3, OrderlyJoint

\* Both tasks end, or both parties are left with pools that fit together.
Ends(P, I) == Dead(P, I) \/ \E K, M : Runs(P, I, K, M) /\ LgOK(M)

JTriples == [p \in Party |-> generate_triples(p)]

LEMMA TriplesIs ==
    ASSUME NEW n, n = PokBatch * Slots
    PROVE  JTriples = Cat(Cat(JTriplesShares(JTriplesProducts(JTriplesHead(n))), JSacrifice(n)),
                          JDo("set_triples", <<"A", "B", "C">>, ""))
  <1>1. PICK P1 : P1 = JTriplesHead(n)
    OBVIOUS
  <1>2. PICK P2 : P2 = JTriplesProducts(P1)
    OBVIOUS
  <1>3. PICK P3 : P3 = JTriplesShares(P2)
    OBVIOUS
  <1>4. ASSUME NEW p \in Party
        PROVE  P1[p] = Draw(n, "a") \o Draw(n, "b") \o Draw(n, "b_prime")
                       \o Do("product", <<"a", "b">>, "c_mine")
                       \o Do("product", <<"a", "b_prime">>, "c_prime_mine")
                       \o Do("encrypt", <<"a">>, "a_enc")
                       \o exchange_message(p, "a_enc", "their_a_enc")
    BY <1>1 DEF JTriplesHead, Cat, JDraw, JDo, JX, exchange_message
  <1>5. ASSUME NEW p \in Party
        PROVE  P2[p] = P1[p] \o Check("need_setup", <<>>)
                       \o share_product(p, "their_a_enc", "b", "c_mine", "c")
                       \o share_product(p, "their_a_enc", "b_prime", "c_prime_mine", "c_prime")
    BY <1>2 DEF JTriplesProducts, Cat, JCheck, JShareProduct
  <1>6. ASSUME NEW p \in Party
        PROVE  P3[p] = P2[p] \o JAuthShares("a", "A")[p] \o JAuthShares("b", "B")[p]
                       \o JAuthShares("c", "C")[p] \o JAuthShares("b_prime", "B_prime")[p]
                       \o JAuthShares("c_prime", "C_prime")[p]
    BY <1>3 DEF JTriplesShares, Cat
  <1>7. ASSUME NEW p \in Party, NEW v, NEW sh
        PROVE  JAuthShares(v, sh)[p]
               = authenticate_vec(p, v, "mac") \o Do("from_parts", <<v, "mac">>, sh)
    BY DEF JAuthShares
  <1>8. PICK P4 : P4 = Cat(Cat(P3, JSacrifice(n)), JDo("set_triples", <<"A", "B", "C">>, ""))
    OBVIOUS
  <1>9. /\ P4 = [p \in Party |-> P4[p]]
        /\ \A p \in Party : P4[p] = P3[p] \o sacrifice(p, n)
                                    \o Do("set_triples", <<"A", "B", "C">>, "")
    BY <1>8 DEF Cat, JSacrifice, JDo
  <1>10. ASSUME NEW p \in Party PROVE generate_triples(p) = P4[p]
    <2> DEFINE q1 == Draw(n, "a") \o Draw(n, "b") \o Draw(n, "b_prime")
                     \o Do("product", <<"a", "b">>, "c_mine")
                     \o Do("product", <<"a", "b_prime">>, "c_prime_mine")
                     \o Do("encrypt", <<"a">>, "a_enc")
                     \o exchange_message(p, "a_enc", "their_a_enc")
               q2 == q1 \o Check("need_setup", <<>>)
                     \o share_product(p, "their_a_enc", "b", "c_mine", "c")
                     \o share_product(p, "their_a_enc", "b_prime", "c_prime_mine", "c_prime")
               auth(v, sh) == authenticate_vec(p, v, "mac") \o Do("from_parts", <<v, "mac">>, sh)
               q3 == q2 \o auth("a", "A") \o auth("b", "B") \o auth("c", "C")
                     \o auth("b_prime", "B_prime") \o auth("c_prime", "C_prime")
               q4 == q3 \o sacrifice(p, n) \o Do("set_triples", <<"A", "B", "C">>, "")
    <2>1. generate_triples(p) = q4
      BY DEF generate_triples
    <2>2. P1[p] = q1
      BY <1>4
    <2>3. P2[p] = q2
      <3> HIDE DEF q1
      <3> QED BY <1>5, <2>2 DEF q2
    <2>4. P3[p] = q3
      <3>1. \A v, sh : JAuthShares(v, sh)[p] = auth(v, sh)
        BY <1>7 DEF auth
      <3> HIDE DEF q1, q2, auth
      <3> QED BY <1>6, <2>3, <3>1 DEF q3
    <2>5. P4[p] = q4
      <3> HIDE DEF q1, q2, q3, auth
      <3> QED BY <1>9, <2>4 DEF q4
    <2> HIDE DEF q1, q2, q3, q4, auth
    <2> QED BY <2>1, <2>5
  <1>11. JTriples = P4
    BY <1>9, <1>10 DEF JTriples
  <1> QED BY <1>1, <1>2, <1>3, <1>8, <1>11

\* generate_triples before the key exchange
LEMMA TriplesDead ==
    ASSUME DrawsInField, NEW I, IsJoint(I), \A p \in Party : Lg(I)[p].other_pk = None
    PROVE  Dead(JTriples, I)
  <1>0. PICK n \in Nat : n = PokBatch * Slots
    BY LowGearAssumption, SlotsAssumption
  <1>1. PICK J : Runs(JTriplesHead(n), I, J, Lg(I))
    BY TriplesHead
  <1>2. IsJoint(J) /\ Lg(J) = Lg(I)
    BY <1>1, RunsFacts
  <1>3. \A p \in Party : J[p].lg.other_pk = None
    <2>1. \A p \in Party : Lg(J)[p] = J[p].lg
      BY DEF Lg
    <2> QED BY <1>2, <2>1
  <1>4. PICK Q : Q = Cat(JTriplesHead(n), JCheck("need_setup", <<>>))
    OBVIOUS
  <1>5. Dead(Q, I)
    BY <1>1, <1>2, <1>3, <1>4, SetupFails, RunsDead
  <1>6. PICK G1, G2 : /\ G1 = JShareProduct("their_a_enc", "b", "c_mine", "c")
                      /\ G2 = JShareProduct("their_a_enc", "b_prime", "c_prime_mine", "c_prime")
    OBVIOUS
  <1>7. G1 \in JProgs /\ G2 \in JProgs
    BY <1>6, InNames, ProductJoint
  <1>8. Dead(Cat(Cat(Q, G1), G2), I)
    BY <1>5, <1>7, DeadCat
  <1>9. PICK P : P = JTriplesProducts(JTriplesHead(n))
    OBVIOUS
  <1>10. Dead(P, I)
    BY <1>4, <1>6, <1>8, <1>9 DEF JTriplesProducts
  <1>11. PICK A1, A2, A3, A4, A5 :
            /\ A1 = JAuthShares("a", "A") /\ A2 = JAuthShares("b", "B")
            /\ A3 = JAuthShares("c", "C") /\ A4 = JAuthShares("b_prime", "B_prime")
            /\ A5 = JAuthShares("c_prime", "C_prime")
    OBVIOUS
  <1>12. A1 \in JProgs /\ A2 \in JProgs /\ A3 \in JProgs /\ A4 \in JProgs /\ A5 \in JProgs
    BY <1>11, InNames, AuthSharesJoint
  <1>13. Dead(Cat(Cat(Cat(P, A1), A2), A3), I)
    BY <1>10, <1>12, DeadCat
  <1>14. Dead(Cat(Cat(Cat(Cat(Cat(P, A1), A2), A3), A4), A5), I)
    BY <1>12, <1>13, DeadCat
  <1>15. PICK R : R = JTriplesShares(P)
    OBVIOUS
  <1>16. Dead(R, I)
    BY <1>11, <1>14, <1>15 DEF JTriplesShares
  <1>17. PICK Z1, Z2 : Z1 = JSacrifice(n) /\ Z2 = JDo("set_triples", <<"A", "B", "C">>, "")
    OBVIOUS
  <1>18. Z1 \in JProgs /\ Z2 \in JProgs
    BY <1>17, InNames, InLocals, ArgLists, SacrificeJoint, DoJoint
  <1>19. Dead(Cat(Cat(R, Z1), Z2), I)
    BY <1>16, <1>18, DeadCat
  <1> QED BY <1>0, <1>9, <1>15, <1>17, <1>19, TriplesIs

\* generate_triples leaves both parties with valid triples.
LEMMA TriplesRun ==
    ASSUME DrawsInField, KeysInField, NEW I, IsJoint(I), LgOK(Lg(I)), KeysAll(Lg(I))
    PROVE  \E K, M : Runs(JTriples, I, K, M) /\ LgOK(M)
  <1>0. PICK n \in Nat \ {0} : n = PokBatch * Slots
    BY LowGearAssumption, SlotsAssumption
  <1>1. PICK J, A, B, D, C, CP, E :
            Runs(JTriplesHead(n), I, J, Lg(I)) /\ TripleInputs(J, n, A, B, D, C, CP, E)
    BY TriplesHead
  <1>2. PICK P1 : P1 = JTriplesHead(n)
    OBVIOUS
  <1>3. PICK P2 : P2 = JTriplesProducts(P1)
    OBVIOUS
  <1>4. PICK K1, R, RP : Runs(P2, I, K1, Lg(I)) /\ TripleVecs(K1, n, A, B, R, D, RP)
    BY <1>1, <1>2, <1>3, TriplesProducts
  <1>5. PICK P3 : P3 = JTriplesShares(P2)
    OBVIOUS
  <1>6. PICK K2, XA, XB, XC, XD, XE, a, b, d :
            Runs(P3, I, K2, Lg(I)) /\ TripleShares(K2, n, a, b, d, XA, XB, XC, XD, XE)
    BY <1>4, <1>5, TriplesShares
  <1>7. \E K, M : Runs(Cat(Cat(P3, JSacrifice(n)), JDo("set_triples", <<"A", "B", "C">>, "")),
                       I, K, M) /\ LgOK(M)
    BY <1>6, TriplesEnd
  <1> QED BY <1>0, <1>2, <1>3, <1>5, <1>7, TriplesIs

LEMMA TriplesEnds ==
    ASSUME DrawsInField, KeysInField, NEW I, IsJoint(I), LgOK(Lg(I))
    PROVE  Ends(JTriples, I)
  <1>1. KeysOK(Lg(I))
    BY LgParts
  <1>2. CASE \A p \in Party : Lg(I)[p].other_pk = None
    BY <1>2, TriplesDead DEF Ends
  <1>3. CASE KeysAll(Lg(I))
    BY <1>3, TriplesRun DEF Ends
  <1> QED BY <1>1, <1>2, <1>3 DEF KeysOK

---------------------------------------------------------------------------
(* Authenticated random values                                             *)

\* n scalars in whole plaintexts
LEMMA PaddedLength ==
    ASSUME NEW n \in Nat
    PROVE  \E m \in Nat : m = Slots * ((n + Slots - 1) \div Slots) /\ n <= m
  <1>1. PICK q : q = (n + Slots - 1) \div Slots
    OBVIOUS
  <1>2. q \in Int /\ Slots * q <= n + Slots - 1 /\ n + Slots - 1 < Slots * (q + 1)
    BY <1>1, SlotsAssumption
  <1>3. Slots * (q + 1) = Slots * q + Slots /\ Slots * q \in Int
    BY <1>2, SlotsAssumption
  <1>4. n <= Slots * q
    BY <1>2, <1>3, SlotsAssumption
  <1> QED BY <1>1, <1>3, <1>4

IsPadded(Y, X, n, m) ==
    /\ IsVec(Y, m) /\ n <= m
    /\ \A p \in Party : Y[p] = from_scalars(X[p])
    /\ \A p \in Party : \A k \in 1..n : Y[p][k] = X[p][k]

LEMMA Padded ==
    ASSUME NEW n \in Nat, NEW X, IsVec(X, n)
    PROVE  \E m \in Nat : \E Y : IsPadded(Y, X, n, m)
  <1>1. PICK m \in Nat : m = Slots * ((n + Slots - 1) \div Slots) /\ n <= m
    BY PaddedLength
  <1>2. PICK Y : Y = [p \in Party |-> from_scalars(X[p])]
    OBVIOUS
  <1>3. ASSUME NEW p \in Party
        PROVE  from_scalars(X[p]) = [k \in 1..m |-> IF k <= n THEN X[p][k] ELSE Zero]
    <2>1. \A f \in [1..n -> F] : Len(f) = n
      OBVIOUS
    <2>2. Len(X[p]) = n
      BY <2>1 DEF IsVec
    <2> QED BY <1>1, <2>2 DEF from_scalars
  <1>4. ASSUME NEW p \in Party PROVE Y[p] \in [1..m -> F]
    <2>1. X[p] \in [1..n -> F]
      BY DEF IsVec
    <2>2. \A k \in 1..m : (IF k <= n THEN X[p][k] ELSE Zero) \in F
      BY <1>1, <2>1, CarrierFacts, Closed
    <2> QED BY <1>2, <1>3, <2>2
  <1>5. IsVec(Y, m)
    BY <1>2, <1>4 DEF IsVec
  <1>6. \A p \in Party : \A k \in 1..n : Y[p][k] = X[p][k]
    <2>1. \A k \in 1..n : k \in 1..m /\ k <= n
      BY <1>1
    <2>2. \A p \in Party : Y[p] = [k \in 1..m |-> IF k <= n THEN X[p][k] ELSE Zero]
      BY <1>2, <1>3
    <2> QED BY <2>1, <2>2
  <1>7. IsPadded(Y, X, n, m)
    BY <1>1, <1>2, <1>5, <1>6 DEF IsPadded
  <1> QED BY <1>7

\* The MACs of padded vectors are those of the vectors.
LEMMA PaddedMacs ==
    ASSUME NEW n \in Nat, NEW m \in Nat, NEW X, NEW Y, IsPadded(Y, X, n, m), NEW M, MacsFor(M, Y, m)
    PROVE  MacsOn(M, X, n)
  <1>1. \A k \in 1..n : k \in 1..m
    BY DEF IsPadded
  <1>2. \A p \in Party : \A k \in 1..n : M[p][k] \in F
    BY <1>1 DEF MacsFor, IsVec
  <1>3. ASSUME NEW k \in 1..n
        PROVE  Plus(M[0][k], M[1][k]) = Times(MacKey, Plus(X[0][k], X[1][k]))
    <2>1. Plus(M[0][k], M[1][k]) = Times(MacKey, Plus(Y[0][k], Y[1][k]))
      BY <1>1 DEF MacsFor
    <2> QED BY <2>1, PartyIs DEF IsPadded
  <1> QED BY <1>2, <1>3 DEF MacsOn

RandRegs == AuthRegs \cup {"rand", "rand_pt", "rand_mac"}

JAuthRandomness(n, res) == [p \in Party |-> get_authenticated_randomness_vec(p, n, res)]

LEMMA AuthRandomnessIs ==
    ASSUME NEW n, NEW res
    PROVE  JAuthRandomness(n, res) =
           Cat(Cat(Cat(JDraw(n, "rand"), JDo("from_scalars", <<"rand">>, "rand_pt")),
                   JAuthenticate("rand_pt", "rand_mac")),
               JDo("from_parts", <<"rand", "rand_mac">>, res))
  BY DEF JAuthRandomness, get_authenticated_randomness_vec, Cat, JDraw, JDo, JAuthenticate

LEMMA AuthRandomnessGives ==
    ASSUME DrawsInField, KeysInField, NEW J, IsJoint(J), NEW L, Lg(J) = L, KeysAll(L),
           NEW n \in Nat, NEW res \in Names
    PROVE  \E K, X, v : /\ Gives(JAuthRandomness(n, res), J, K, RandRegs \cup {res}, L)
                        /\ Holds(K, res, X) /\ AuthBatch(X, v, n)
  <1> DEFINE S == RandRegs \cup {res}
  <1>0. "rand" \in Names /\ "rand_pt" \in Names /\ "rand_mac" \in Names
    BY InNames
  <1>1. PICK K1, X : /\ Gives(JDraw(n, "rand"), J, K1, {"rand"}, L) /\ Holds(K1, "rand", X)
                     /\ IsVec(X, n)
    BY <1>0, DrawGives DEF IsVec
  <1>2. IsJoint(K1) /\ Lg(K1) = L
    BY <1>1, GivesFacts
  <1>3. PICK m \in Nat : \E Y : IsPadded(Y, X, n, m)
    BY <1>1, Padded
  <1>4. PICK Y : IsPadded(Y, X, n, m)
    BY <1>3
  <1>5. IsVec(Y, m) /\ \A p \in Party : Y[p] = from_scalars(X[p])
    BY <1>4 DEF IsPadded
  <1>6. PICK K2 : /\ Gives(JDo("from_scalars", <<"rand">>, "rand_pt"), K1, K2, {"rand_pt"}, L)
                  /\ Holds(K2, "rand_pt", Y)
    <2>1. PICK K : K = JPut(K1, "rand_pt", Y)
      OBVIOUS
    <2>2. Gives(JDo("from_scalars", <<"rand">>, "rand_pt"), K1, K, {"rand_pt"}, L) /\ Holds(K,
                "rand_pt", Y)
      BY <2>1, <1>0, <1>1, <1>2, <1>5, DoFromScalars
    <2> QED BY <2>2
  <1>7. IsJoint(K2) /\ Lg(K2) = L /\ Holds(K2, "rand", X)
    BY <1>1, <1>6, GivesFacts, GivesKeeps
  <1>8. "rand_pt" \notin AuthRegs /\ "rand" \notin AuthRegs
    BY DEF AuthRegs, ProductRegs
  <1>9. PICK K3, M : /\ Gives(JAuthenticate("rand_pt", "rand_mac"), K2, K3,
                              AuthRegs \cup {"rand_mac"}, L)
                     /\ Holds(K3, "rand_mac", M) /\ MacsFor(M, Y, m)
    <2>1. KeysAll(Lg(K2))
      BY <1>7
    <2>2. \E K, R : /\ Gives(JAuthenticate("rand_pt", "rand_mac"), K2, K,
                            AuthRegs \cup {"rand_mac"}, Lg(K2))
                    /\ Holds(K, "rand_mac", R) /\ MacsFor(R, Y, m)
      BY <1>0, <1>5, <1>6, <1>7, <1>8, <2>1, AuthenticateGives
    <2> QED BY <1>7, <2>2
  <1>10. IsJoint(K3) /\ Lg(K3) = L /\ Holds(K3, "rand", X)
    BY <1>7, <1>8, <1>9, GivesFacts, GivesKeeps
  <1>11. MacsOn(M, X, n)
    BY <1>4, <1>9, PaddedMacs
  <1>12. PICK Z : Z = JParts(X, M)
    OBVIOUS
  <1>13. AuthBatch(Z, PtAdd(X[0], X[1]), n)
    BY <1>1, <1>11, <1>12, FromParts
  <1>14. \A p \in Party : Z[p] = from_parts(X[p], M[p])
    BY <1>12 DEF JParts
  <1> HIDE <1>12
  <1>15. PICK K4 : /\ Gives(JDo("from_parts", <<"rand", "rand_mac">>, res), K3, K4, {res}, L)
                   /\ Holds(K4, res, Z)
    <2>1. PICK K : K = JPut(K3, res, Z)
      OBVIOUS
    <2>2. Gives(JDo("from_parts", <<"rand", "rand_mac">>, res), K3, K, {res}, L) /\ Holds(K,
                res, Z)
      BY <2>1, <1>0, <1>9, <1>10, <1>14, DoFromParts
    <2> QED BY <2>2
  <1>16. PICK G1, G2, G3, G4 :
            /\ G1 = JDraw(n, "rand") /\ G2 = JDo("from_scalars", <<"rand">>, "rand_pt")
            /\ G3 = JAuthenticate("rand_pt", "rand_mac")
            /\ G4 = JDo("from_parts", <<"rand", "rand_mac">>, res)
    OBVIOUS
  <1>17. Gives(Cat(G1, G2), J, K2, S, L)
    BY <1>1, <1>6, <1>16, GivesThen DEF RandRegs
  <1>18. Gives(Cat(Cat(G1, G2), G3), J, K3, S, L)
    BY <1>9, <1>16, <1>17, GivesThen DEF RandRegs
  <1>19. Gives(Cat(Cat(Cat(G1, G2), G3), G4), J, K4, S, L)
    BY <1>15, <1>16, <1>18, GivesThen DEF RandRegs
  <1> QED BY <1>13, <1>15, <1>16, <1>19, AuthRandomnessIs

LEMMA AuthenticateDead ==
    ASSUME NEW J, IsJoint(J), \A p \in Party : Lg(J)[p].other_pk = None,
           NEW x \in Names, NEW res \in Names, res # "my_comm"
    PROVE  Dead(JAuthenticate(x, res), J)
  <1>1. PICK G1, G2, G3, G4 :
            /\ G1 = JCheck("need_setup", <<>>) /\ G2 = JDo("other_mac_enc", <<x>>, "mac_enc")
            /\ G3 = JDo("mac_product", <<x>>, "mac_mine")
            /\ G4 = JShareProduct("mac_enc", x, "mac_mine", res)
    OBVIOUS
  <1>2. \A p \in Party : J[p].lg.other_pk = None
    <2>1. \A p \in Party : Lg(J)[p] = J[p].lg
      BY DEF Lg
    <2> QED BY <2>1
  <1>3. Dead(G1, J)
    BY <1>1, <1>2, SetupFails
  <1>4. G2 \in JProgs /\ G3 \in JProgs
    BY <1>1, InNames, InLocals, ArgLists, DoJoint
  <1>5. G4 \in JProgs
    BY <1>1, InNames, ProductJoint
  <1>6. Dead(Cat(Cat(Cat(G1, G2), G3), G4), J)
    BY <1>3, <1>4, <1>5, DeadCat
  <1>7. JAuthenticate(x, res) = Cat(Cat(Cat(G1, G2), G3), G4)
    BY <1>1 DEF JAuthenticate, authenticate_vec, Cat, JCheck, JDo, JShareProduct
  <1> QED BY <1>6, <1>7

LEMMA AuthRandomnessDead ==
    ASSUME DrawsInField, NEW J, IsJoint(J), \A p \in Party : Lg(J)[p].other_pk = None,
           NEW n \in Nat, NEW res \in Names, res # "my_comm"
    PROVE  Dead(JAuthRandomness(n, res), J)
  <1>0. "rand" \in Names /\ "rand_pt" \in Names /\ "rand_mac" \in Names
    BY InNames
  <1>1. PICK K1, X : /\ Gives(JDraw(n, "rand"), J, K1, {"rand"}, Lg(J)) /\ Holds(K1, "rand", X)
                     /\ IsVec(X, n)
    BY <1>0, DrawGives DEF IsVec
  <1>2. IsJoint(K1) /\ Lg(K1) = Lg(J)
    BY <1>1, GivesFacts
  <1>3. PICK Y : \A p \in Party : Y[p] = from_scalars(X[p])
    <2>1. \A p \in Party : [q \in Party |-> from_scalars(X[q])][p] = from_scalars(X[p])
      OBVIOUS
    <2> QED BY <2>1
  <1>4. PICK K2 : /\ Gives(JDo("from_scalars", <<"rand">>, "rand_pt"), K1, K2, {"rand_pt"}, Lg(J))
                  /\ Holds(K2, "rand_pt", Y)
    <2>1. PICK K : K = JPut(K1, "rand_pt", Y)
      OBVIOUS
    <2>2. Gives(JDo("from_scalars", <<"rand">>, "rand_pt"), K1, K, {"rand_pt"},
                Lg(J)) /\ Holds(K, "rand_pt", Y)
      BY <2>1, <1>0, <1>1, <1>2, <1>3, DoFromScalars
    <2> QED BY <2>2
  <1>5. IsJoint(K2) /\ Lg(K2) = Lg(J)
    BY <1>4, GivesFacts
  <1>6. PICK G1, G2, G3, G4 :
            /\ G1 = JDraw(n, "rand") /\ G2 = JDo("from_scalars", <<"rand">>, "rand_pt")
            /\ G3 = JAuthenticate("rand_pt", "rand_mac")
            /\ G4 = JDo("from_parts", <<"rand", "rand_mac">>, res)
    OBVIOUS
  <1>7. Runs(Cat(G1, G2), J, K2, Lg(J))
    BY <1>1, <1>4, <1>6, RunsFirst, RunsThen
  <1>8. Dead(G3, K2)
    BY <1>0, <1>5, <1>6, AuthenticateDead
  <1>9. Dead(Cat(Cat(G1, G2), G3), J)
    BY <1>7, <1>8, RunsDead
  <1>10. G4 \in JProgs
    BY <1>6, InNames, InLocals, ArgLists, DoJoint
  <1>11. Dead(Cat(Cat(Cat(G1, G2), G3), G4), J)
    BY <1>9, <1>10, DeadCat
  <1> QED BY <1>6, <1>11, AuthRandomnessIs

---------------------------------------------------------------------------
(* Parts of pools, and pools put one after the other                       *)

\* q elements after the first i
Slice(f, i, q) == [k \in 1..q |-> f[i + k]]

\* A vector of m elements of S
OfLen(f, m, S) == f \in [1..m -> S]

IsSlice(f, m, i, q, S) == SubSeq(f, i + 1, i + q) = Slice(f, i, q) /\ OfLen(Slice(f, i, q), q, S)

LEMMA SliceIs ==
    ASSUME NEW S, NEW m \in Nat, NEW f \in [1..m -> S], NEW i \in Nat, NEW q \in Nat, i + q <= m
    PROVE  SubSeq(f, i + 1, i + q) = Slice(f, i, q) /\ Slice(f, i, q) \in [1..q -> S]
  <1>1. \A k \in (i + 1)..(i + q) : f[k] \in S
    OBVIOUS
  <1>2. PICK s : s = SubSeq(f, i + 1, i + q)
    OBVIOUS
  <1>3. /\ s \in Seq(S)
        /\ Len(s) = IF i + 1 <= i + q THEN (i + q) - (i + 1) + 1 ELSE 0
        /\ \A k \in 1..((i + q) - (i + 1) + 1) : s[k] = f[(i + 1) + k - 1]
    BY <1>1, <1>2, SubSeqProperties
  <1>4. Len(s) = q /\ \A k \in 1..q : s[k] = f[i + k]
    BY <1>3
  <1>5. s = [k \in 1..Len(s) |-> s[k]]
    BY <1>3
  <1>6. s = [k \in 1..q |-> f[i + k]]
    BY <1>4, <1>5
  <1>7. Slice(f, i, q) \in [1..q -> S]
    <2>1. \A k \in 1..q : f[i + k] \in S
      OBVIOUS
    <2> QED BY <2>1 DEF Slice
  <1> QED BY <1>2, <1>6, <1>7 DEF Slice

LEMMA SliceOf ==
    ASSUME NEW S, NEW m \in Nat, NEW f, OfLen(f, m, S), NEW i \in Nat, NEW q \in Nat, i + q <= m
    PROVE  IsSlice(f, m, i, q, S)
  <1>1. f \in [1..m -> S]
    BY DEF OfLen
  <1>2. SubSeq(f, i + 1, i + q) = Slice(f, i, q) /\ Slice(f, i, q) \in [1..q -> S]
    BY <1>1, SliceIs
  <1> QED BY <1>2 DEF IsSlice, OfLen

\* What split_off leaves, and what it returns
LEMMA SplitIs ==
    ASSUME NEW S, NEW m \in Nat, NEW f \in [1..m -> S], NEW n \in Nat, n <= m
    PROVE  Stays(f, n) = Slice(f, 0, m - n) /\ split_off(f, n) = Slice(f, m - n, n)
  <1>1. Len(f) = m
    OBVIOUS
  <1>2. PICK i \in Nat : i = m - n
    OBVIOUS
  <1>7. OfLen(f, m, S) /\ 0 + i <= m /\ i + n <= m
    BY <1>2 DEF OfLen
  <1>3. SubSeq(f, 0 + 1, 0 + i) = Slice(f, 0, i)
    <2>1. IsSlice(f, m, 0, i, S)
      BY <1>7, SliceOf
    <2> QED BY <2>1 DEF IsSlice
  <1>4. SubSeq(f, i + 1, i + n) = Slice(f, i, n)
    <2>1. IsSlice(f, m, i, n, S)
      BY <1>7, SliceOf
    <2> QED BY <2>1 DEF IsSlice
  <1>5. 0 + 1 = 1 /\ 0 + i = i /\ i + n = m
    BY <1>2
  <1>6. SubSeq(f, 1, i) = Slice(f, 0, i) /\ SubSeq(f, i + 1, m) = Slice(f, i, n)
    BY <1>3, <1>4, <1>5
  <1> QED BY <1>1, <1>2, <1>6 DEF Stays, split_off

JSlice(X, i, q) == [p \in Party |-> Slice(X[p], i, q)]

LEMMA SliceBatch ==
    ASSUME NEW m \in Nat, NEW i \in Nat, NEW q \in Nat, i + q <= m, NEW X, NEW v, AuthBatch(X, v, m)
    PROVE  AuthBatch(JSlice(X, i, q), Slice(v, i, q), q)
  <1>1. PICK Z, z : Z = JSlice(X, i, q) /\ z = Slice(v, i, q)
    OBVIOUS
  <1>2. Z = [p \in Party |-> [k \in 1..q |-> Z[p][k]]]
    BY <1>1 DEF JSlice, Slice
  <1>3. z \in [1..q -> F]
    BY <1>1, SliceIs DEF AuthBatch
  <1>4. ASSUME NEW k \in 1..q PROVE Authentic(Col(Z, k), z[k], F)
    <2>1. PICK j \in 1..m : j = i + k
      OBVIOUS
    <2>2. \A p \in Party : Z[p][k] = X[p][j]
      BY <1>1, <2>1 DEF JSlice, Slice
    <2>3. Col(Z, k) = Col(X, j)
      BY <2>2 DEF Col
    <2>4. z[k] = v[j]
      BY <1>1, <2>1 DEF Slice
    <2> QED BY <2>3, <2>4 DEF AuthBatch
  <1>5. AuthBatch(Z, z, q)
    BY <1>2, <1>3, <1>4, BatchShape
  <1> QED BY <1>1, <1>5

LEMMA SliceJoined ==
    ASSUME NEW x, NEW y, NEW i, NEW q
    PROVE  JSlice(Joined(x, y), i, q) = Joined(Slice(x, i, q), Slice(y, i, q))
  BY DEF JSlice, Joined

LEMMA SliceFits ==
    ASSUME NEW m \in Nat, NEW i \in Nat, NEW q \in Nat, i + q <= m, NEW x, NEW y, NEW v,
           AuthBatch(Joined(x, y), v, m)
    PROVE  AuthBatch(Joined(Slice(x, i, q), Slice(y, i, q)), Slice(v, i, q), q)
  BY SliceBatch, SliceJoined

LEMMA SliceMul ==
    ASSUME NEW m \in Nat, NEW i \in Nat, NEW q \in Nat, i + q <= m,
           NEW x \in [1..m -> F], NEW y \in [1..m -> F]
    PROVE  Slice(PtMul(x, y), i, q) = PtMul(Slice(x, i, q), Slice(y, i, q))
  <1>1. \A k \in 1..q : i + k \in 1..m
    OBVIOUS
  <1>2. PICK z : z = PtMul(x, y)
    OBVIOUS
  <1>3. \A k \in 1..q : z[i + k] = Times(x[i + k], y[i + k])
    BY <1>1, <1>2 DEF PtMul
  <1> QED BY <1>2, <1>3 DEF PtMul, Slice

\* The same slice of every part of a record of pools
Slices(t, i, q) == [f \in DOMAIN t |-> Slice(t[f], i, q)]

LEMMA SliceTriples ==
    ASSUME NEW m \in Nat, NEW i \in Nat, NEW q \in Nat, i + q <= m, NEW t, NEW u,
           TriplesFit(t, u, m)
    PROVE  TriplesFit(Slices(t, i, q), Slices(u, i, q), q)
  <1>1. t = [a |-> t.a, b |-> t.b, c |-> t.c] /\ u = [a |-> u.a, b |-> u.b, c |-> u.c]
    BY DEF TriplesFit
  <1>2. PICK x, y \in [1..m -> F] :
          /\ AuthBatch(Joined(t.a, u.a), x, m) /\ AuthBatch(Joined(t.b, u.b), y, m)
          /\ AuthBatch(Joined(t.c, u.c), PtMul(x, y), m)
    BY DEF TriplesFit
  <1>3. PICK s, r : s = Slices(t, i, q) /\ r = Slices(u, i, q)
    OBVIOUS
  <1>4. DOMAIN t = {"a", "b", "c"} /\ DOMAIN u = {"a", "b", "c"}
    BY <1>1
  <1>5. /\ s.a = Slice(t.a, i, q) /\ s.b = Slice(t.b, i, q) /\ s.c = Slice(t.c, i, q)
        /\ s = [a |-> s.a, b |-> s.b, c |-> s.c]
    BY <1>3, <1>4 DEF Slices
  <1>6. /\ r.a = Slice(u.a, i, q) /\ r.b = Slice(u.b, i, q) /\ r.c = Slice(u.c, i, q)
        /\ r = [a |-> r.a, b |-> r.b, c |-> r.c]
    BY <1>3, <1>4 DEF Slices
  <1>7. Slice(x, i, q) \in [1..q -> F] /\ Slice(y, i, q) \in [1..q -> F]
    BY SliceIs
  <1>8. /\ AuthBatch(Joined(s.a, r.a), Slice(x, i, q), q)
        /\ AuthBatch(Joined(s.b, r.b), Slice(y, i, q), q)
        /\ AuthBatch(Joined(s.c, r.c), Slice(PtMul(x, y), i, q), q)
    BY <1>2, <1>5, <1>6, SliceFits
  <1>9. AuthBatch(Joined(s.c, r.c), PtMul(Slice(x, i, q), Slice(y, i, q)), q)
    BY <1>8, SliceMul
  <1>10. TriplesFit(s, r, q)
    BY <1>5, <1>6, <1>7, <1>8, <1>9 DEF TriplesFit
  <1> QED BY <1>3, <1>10

LEMMA SlicePairs ==
    ASSUME NEW m \in Nat, NEW i \in Nat, NEW q \in Nat, i + q <= m, NEW t, NEW u, PairsFit(t, u, m)
    PROVE  PairsFit(Slices(t, i, q), Slices(u, i, q), q)
  <1>1. t = [lhs |-> t.lhs, rhs |-> t.rhs] /\ u = [lhs |-> u.lhs, rhs |-> u.rhs]
    BY DEF PairsFit
  <1>2. PICK x, y \in [1..m -> F] :
          /\ AuthBatch(Joined(t.lhs, u.lhs), x, m) /\ AuthBatch(Joined(t.rhs, u.rhs), y, m)
          /\ \A k \in 1..m : Times(x[k], y[k]) = One
    BY DEF PairsFit
  <1>3. PICK s, r : s = Slices(t, i, q) /\ r = Slices(u, i, q)
    OBVIOUS
  <1>4. DOMAIN t = {"lhs", "rhs"} /\ DOMAIN u = {"lhs", "rhs"}
    BY <1>1
  <1>5. /\ s.lhs = Slice(t.lhs, i, q) /\ s.rhs = Slice(t.rhs, i, q)
        /\ s = [lhs |-> s.lhs, rhs |-> s.rhs]
    BY <1>3, <1>4 DEF Slices
  <1>6. /\ r.lhs = Slice(u.lhs, i, q) /\ r.rhs = Slice(u.rhs, i, q)
        /\ r = [lhs |-> r.lhs, rhs |-> r.rhs]
    BY <1>3, <1>4 DEF Slices
  <1>7. Slice(x, i, q) \in [1..q -> F] /\ Slice(y, i, q) \in [1..q -> F]
    BY SliceIs
  <1>8. /\ AuthBatch(Joined(s.lhs, r.lhs), Slice(x, i, q), q)
        /\ AuthBatch(Joined(s.rhs, r.rhs), Slice(y, i, q), q)
    BY <1>2, <1>5, <1>6, SliceFits
  <1>9. \A k \in 1..q : Times(Slice(x, i, q)[k], Slice(y, i, q)[k]) = One
    <2>1. \A k \in 1..q : i + k \in 1..m
      OBVIOUS
    <2> QED BY <1>2, <2>1 DEF Slice
  <1>10. PairsFit(s, r, q)
    BY <1>5, <1>6, <1>7, <1>8, <1>9 DEF PairsFit
  <1> QED BY <1>3, <1>10

LEMMA SliceBits ==
    ASSUME NEW m \in Nat, NEW i \in Nat, NEW q \in Nat, i + q <= m, NEW x, NEW y, BitsFit(x, y, m)
    PROVE  BitsFit(Slice(x, i, q), Slice(y, i, q), q)
  <1>1. PICK v \in [1..m -> F] :
          AuthBatch(Joined(x, y), v, m) /\ \A k \in 1..m : v[k] \in {Zero, One}
    BY DEF BitsFit
  <1>2. Slice(v, i, q) \in [1..q -> F]
    BY SliceIs
  <1>3. AuthBatch(Joined(Slice(x, i, q), Slice(y, i, q)), Slice(v, i, q), q)
    BY <1>1, SliceFits
  <1>4. \A k \in 1..q : Slice(v, i, q)[k] \in {Zero, One}
    <2>1. \A k \in 1..q : i + k \in 1..m
      OBVIOUS
    <2> QED BY <1>1, <2>1 DEF Slice
  <1> QED BY <1>2, <1>3, <1>4 DEF BitsFit

LEMMA SliceValues ==
    ASSUME NEW m \in Nat, NEW i \in Nat, NEW q \in Nat, i + q <= m, NEW x, NEW y, ValuesFit(x, y, m)
    PROVE  ValuesFit(Slice(x, i, q), Slice(y, i, q), q)
  <1>1. PICK v \in [1..m -> F] : AuthBatch(Joined(x, y), v, m)
    BY DEF ValuesFit
  <1>2. Slice(v, i, q) \in [1..q -> F]
    BY SliceIs
  <1>3. AuthBatch(Joined(Slice(x, i, q), Slice(y, i, q)), Slice(v, i, q), q)
    BY <1>1, SliceFits
  <1> QED BY <1>2, <1>3 DEF ValuesFit

LEMMA SliceMasks ==
    ASSUME NEW m \in Nat, NEW i \in Nat, NEW q \in Nat, i + q <= m, NEW v, NEW x, NEW y,
           MasksFit(v, x, y, m)
    PROVE  MasksFit(Slice(v, i, q), Slice(x, i, q), Slice(y, i, q), q)
  <1>1. v \in [1..m -> F] /\ AuthBatch(Joined(x, y), v, m)
    BY DEF MasksFit
  <1>2. Slice(v, i, q) \in [1..q -> F]
    BY <1>1, SliceIs
  <1>3. AuthBatch(Joined(Slice(x, i, q), Slice(y, i, q)), Slice(v, i, q), q)
    BY <1>1, SliceFits
  <1> QED BY <1>2, <1>3 DEF MasksFit

\* One vector after another
LEMMA ChainIs ==
    ASSUME NEW S, NEW m \in Nat, NEW n \in Nat, NEW f \in [1..m -> S], NEW g \in [1..n -> S]
    PROVE  /\ f \o g = [k \in 1..(m + n) |-> IF k <= m THEN f[k] ELSE g[k - m]]
           /\ f \o g \in [1..(m + n) -> S]
  <1>1. f \in Seq(S) /\ g \in Seq(S) /\ Len(f) = m /\ Len(g) = n
    OBVIOUS
  <1>2. PICK h : h = f \o g
    OBVIOUS
  <1>3. /\ h \in Seq(S) /\ Len(h) = m + n
        /\ \A k \in 1..(m + n) : h[k] = IF k <= m THEN f[k] ELSE g[k - m]
    BY <1>1, <1>2, ConcatProperties
  <1>4. h = [k \in 1..Len(h) |-> h[k]] /\ h \in [1..Len(h) -> S]
    BY <1>3
  <1>5. h = [k \in 1..(m + n) |-> IF k <= m THEN f[k] ELSE g[k - m]]
    BY <1>3, <1>4
  <1> QED BY <1>2, <1>3, <1>4, <1>5

IsChain(h, f, g, m, n) == h = [k \in 1..(m + n) |-> IF k <= m THEN f[k] ELSE g[k - m]]

LEMMA ChainOf ==
    ASSUME NEW S, NEW m \in Nat, NEW n \in Nat, NEW f, NEW g, OfLen(f, m, S), OfLen(g, n, S)
    PROVE  IsChain(f \o g, f, g, m, n) /\ OfLen(f \o g, m + n, S)
  <1>1. f \in [1..m -> S] /\ g \in [1..n -> S]
    BY DEF OfLen
  <1>2. /\ f \o g = [k \in 1..(m + n) |-> IF k <= m THEN f[k] ELSE g[k - m]]
        /\ f \o g \in [1..(m + n) -> S]
    BY <1>1, ChainIs
  <1> QED BY <1>2 DEF IsChain, OfLen

JChain(X, Y) == [p \in Party |-> X[p] \o Y[p]]

LEMMA ChainBatch ==
    ASSUME NEW m \in Nat, NEW n \in Nat, NEW X, NEW v, AuthBatch(X, v, m),
           NEW Y, NEW w, AuthBatch(Y, w, n)
    PROVE  AuthBatch(JChain(X, Y), v \o w, m + n)
  <1>1. PICK Z, z : Z = JChain(X, Y) /\ z = v \o w
    OBVIOUS
  <1>2. \A p \in Party : X[p] \in [1..m -> ShareOf(F)] /\ Y[p] \in [1..n -> ShareOf(F)]
    BY DEF AuthBatch
  <1>3. \A p \in Party : Z[p] = [k \in 1..(m + n) |-> IF k <= m THEN X[p][k] ELSE Y[p][k - m]]
    <2> SUFFICES ASSUME NEW p \in Party
                 PROVE  Z[p] = [k \in 1..(m + n) |-> IF k <= m THEN X[p][k] ELSE Y[p][k - m]]
      OBVIOUS
    <2>1. PICK x, y : x = X[p] /\ y = Y[p]
      OBVIOUS
    <2>2. OfLen(x, m, ShareOf(F)) /\ OfLen(y, n, ShareOf(F))
      BY <1>2, <2>1 DEF OfLen
    <2>3. IsChain(x \o y, x, y, m, n)
      BY <2>2, ChainOf
    <2> QED BY <1>1, <2>1, <2>3 DEF JChain, IsChain
  <1>4. Z = [p \in Party |-> Z[p]]
    BY <1>1 DEF JChain
  <1>5. Z = [p \in Party |-> [k \in 1..(m + n) |-> Z[p][k]]]
    <2>1. \A p \in Party : Z[p] = [k \in 1..(m + n) |-> Z[p][k]]
      BY <1>3
    <2> QED BY <1>4, <2>1
  <1>6. /\ z \in [1..(m + n) -> F]
        /\ z = [k \in 1..(m + n) |-> IF k <= m THEN v[k] ELSE w[k - m]]
    <2>1. OfLen(v, m, F) /\ OfLen(w, n, F)
      BY DEF AuthBatch, OfLen
    <2>2. IsChain(v \o w, v, w, m, n) /\ OfLen(v \o w, m + n, F)
      BY <2>1, ChainOf
    <2> QED BY <1>1, <2>2 DEF IsChain, OfLen
  <1>7. ASSUME NEW k \in 1..(m + n) PROVE Authentic(Col(Z, k), z[k], F)
    <2>1. CASE k <= m
      <3>1. Col(Z, k) = Col(X, k)
        BY <1>3, <2>1 DEF Col
      <3>2. z[k] = v[k] /\ k \in 1..m
        BY <1>6, <2>1
      <3> QED BY <3>1, <3>2 DEF AuthBatch
    <2>2. CASE ~(k <= m)
      <3>1. Col(Z, k) = Col(Y, k - m)
        BY <1>3, <2>2 DEF Col
      <3>2. z[k] = w[k - m] /\ k - m \in 1..n
        BY <1>6, <2>2
      <3> QED BY <3>1, <3>2 DEF AuthBatch
    <2> QED BY <2>1, <2>2
  <1>8. AuthBatch(Z, z, m + n)
    BY <1>5, <1>6, <1>7, BatchShape
  <1> QED BY <1>1, <1>8

LEMMA ChainFits ==
    ASSUME NEW m \in Nat, NEW n \in Nat, NEW x, NEW y, NEW v, AuthBatch(Joined(x, y), v, m),
           NEW z, NEW t, NEW w, AuthBatch(Joined(z, t), w, n)
    PROVE  AuthBatch(Joined(x \o z, y \o t), v \o w, m + n)
  <1>1. JChain(Joined(x, y), Joined(z, t)) = Joined(x \o z, y \o t)
    BY DEF JChain, Joined
  <1> QED BY <1>1, ChainBatch

LEMMA ChainMul ==
    ASSUME NEW m \in Nat, NEW n \in Nat, NEW x \in [1..m -> F], NEW y \in [1..m -> F],
           NEW z \in [1..n -> F], NEW w \in [1..n -> F]
    PROVE  PtMul(x, y) \o PtMul(z, w) = PtMul(x \o z, y \o w)
  <1>1. PICK a, b : a = PtMul(x, y) /\ b = PtMul(z, w)
    OBVIOUS
  <1>2. \A s, t \in F : Times(s, t) \in F
    BY Closed, CarrierFacts
  <1>3. /\ a \in [1..m -> F] /\ \A k \in 1..m : a[k] = Times(x[k], y[k])
        /\ b \in [1..n -> F] /\ \A k \in 1..n : b[k] = Times(z[k], w[k])
    BY <1>1, <1>2 DEF PtMul
  <1>4. a \o b = [k \in 1..(m + n) |-> IF k <= m THEN a[k] ELSE b[k - m]]
    <2>1. OfLen(a, m, F) /\ OfLen(b, n, F)
      BY <1>3 DEF OfLen
    <2>2. IsChain(a \o b, a, b, m, n)
      BY <2>1, ChainOf
    <2> QED BY <2>2 DEF IsChain
  <1>5. PICK c, d : c = x \o z /\ d = y \o w
    OBVIOUS
  <1>6. /\ c = [k \in 1..(m + n) |-> IF k <= m THEN x[k] ELSE z[k - m]]
        /\ d = [k \in 1..(m + n) |-> IF k <= m THEN y[k] ELSE w[k - m]]
    <2>1. OfLen(x, m, F) /\ OfLen(z, n, F) /\ OfLen(y, m, F) /\ OfLen(w, n, F)
      BY DEF OfLen
    <2>2. IsChain(x \o z, x, z, m, n) /\ IsChain(y \o w, y, w, m, n)
      BY <2>1, ChainOf
    <2> QED BY <1>5, <2>2 DEF IsChain
  <1>7. ASSUME NEW k \in 1..(m + n)
        PROVE  (IF k <= m THEN a[k] ELSE b[k - m]) = Times(c[k], d[k])
    <2>1. CASE k <= m
      BY <1>3, <1>6, <2>1
    <2>2. CASE ~(k <= m)
      <3>1. k - m \in 1..n
        BY <2>2
      <3>2. c[k] = z[k - m] /\ d[k] = w[k - m]
        BY <1>6, <2>2
      <3> QED BY <1>3, <2>2, <3>1, <3>2
    <2> QED BY <2>1, <2>2
  <1>8. PtMul(c, d) = [k \in 1..(m + n) |-> Times(c[k], d[k])]
    BY <1>6 DEF PtMul
  <1>9. a \o b = PtMul(c, d)
    BY <1>4, <1>7, <1>8
  <1> QED BY <1>1, <1>5, <1>9

---------------------------------------------------------------------------
(* Steps that store, and programs that stop or do nothing                  *)

LEMMA StoreRuns ==
    ASSUME NEW P, NEW I, NEW J, NEW L, Runs(P, I, J, L), NEW op \in Stores, NEW args \in Seq(Names),
           NEW f, NEW X,
           \A p \in Party : Store(p, L[p], op, Vals(J[p], args)) = [L[p] EXCEPT ![f] = X[p]]
    PROVE  \E K, M : Runs(Cat(P, JDo(op, args, "")), I, K, M) /\ LgSet(L, M, f, X)
  <1>1. IsJoint(J) /\ Lg(J) = L
    BY RunsFacts
  <1>2. PICK M : M = [p \in Party |-> [L[p] EXCEPT ![f] = X[p]]]
    OBVIOUS
  <1>3. M = [p \in Party |-> M[p]] /\ \A p \in Party : M[p] = [L[p] EXCEPT ![f] = X[p]]
    BY <1>2
  <1>4. \A p \in Party : J[p].lg = L[p]
    BY <1>1 DEF Lg
  <1>5. \A p \in Party : M[p] = Store(p, J[p].lg, op, Vals(J[p], args))
    BY <1>3, <1>4
  <1>6. PICK K : Gives(JDo(op, args, ""), J, K, {}, M)
    BY <1>1, <1>3, <1>5, StoreGives
  <1>7. Runs(Cat(P, JDo(op, args, "")), I, K, M)
    BY <1>6, RunsThen
  <1> QED BY <1>3, <1>7 DEF LgSet

JEmpty == [p \in Party |-> <<>>]

LEMMA EmptyRuns ==
    ASSUME NEW I, IsJoint(I)
    PROVE  Runs(JEmpty, I, I, Lg(I))
  <1>1. \A R \in JProgs : Cat(JEmpty, R) = R
    <2>1. \A r \in Progs : <<>> \o r = r
      BY DEF Progs
    <2>2. \A R \in JProgs : R = [p \in Party |-> R[p]] /\ \A p \in Party : R[p] \in Progs
      BY DEF JProgs
    <2>3. \A R \in JProgs : \A p \in Party : <<>> \o R[p] = R[p]
      BY <2>1, <2>2
    <2>4. ASSUME NEW R \in JProgs PROVE Cat(JEmpty, R) = R
      <3>1. Cat(JEmpty, R) = [p \in Party |-> R[p]]
        BY <2>3 DEF Cat, JEmpty
      <3> QED BY <2>2, <3>1
    <2> QED BY <2>4
  <1>2. Exec(JEmpty, I, I)
    BY <1>1 DEF Exec
  <1>3. JEmpty \in JProgs
    BY DEF JEmpty, JProgs, Progs
  <1>4. Keeps(I, I, {})
    BY DEF Keeps
  <1>5. Gives(JEmpty, I, I, {}, Lg(I))
    BY <1>2, <1>3, <1>4 DEF Gives
  <1> QED BY <1>5, RunsFirst

JPanic == [p \in Party |-> Panic]

LEMMA PanicDead ==
    ASSUME NEW I, IsJoint(I)
    PROVE  Dead(JPanic, I)
  <1>1. "panic" \in Checks /\ <<>> \in Seq(Names) /\ ErrorOf("panic") = "panic"
    BY ArgLists DEF Checks, ErrorOf
  <1>2. ASSUME NEW p \in Party PROVE ~Passes(I[p], "panic", Vals(I[p], <<>>))
    BY DEF Passes
  <1>3. Fails(JCheck("panic", <<>>), I)
    BY <1>1, <1>2, CheckFails
  <1>4. JCheck("panic", <<>>) \in JProgs
    BY InNames, InLocals, ArgLists, DoJoint
  <1>5. JPanic = JCheck("panic", <<>>)
    BY DEF JPanic, JCheck, Panic
  <1> QED BY <1>3, <1>4, <1>5 DEF Dead

---------------------------------------------------------------------------
(* generate_shared_randomness                                              *)

LEMMA ValuesOf ==
    ASSUME NEW X, NEW v, NEW n, AuthBatch(X, v, n)
    PROVE  ValuesFit(X[0], X[1], n)
  <1>1. Joined(X[0], X[1]) = X /\ v \in [1..n -> F]
    BY JoinedIs DEF AuthBatch
  <1> QED BY <1>1 DEF ValuesFit

JSharedRandomness(n) == [p \in Party |-> generate_shared_randomness(p, n)]

LEMMA SharedRandomnessEnds ==
    ASSUME DrawsInField, KeysInField, NEW I, IsJoint(I), LgOK(Lg(I)), NEW n \in Nat
    PROVE  Ends(JSharedRandomness(n), I)
  <1>0. "vals" \in Names /\ "set_shared_randomness" \in Stores /\ <<"vals">> \in Seq(Names)
    BY InNames, ArgLists DEF Stores
  <1>1. KeysOK(Lg(I))
    BY LgParts
  <1>2. CASE n = 0
    <2>1. JSharedRandomness(n) = JEmpty
      BY <1>2 DEF JSharedRandomness, JEmpty, generate_shared_randomness
    <2> QED BY <2>1, EmptyRuns DEF Ends
  <1>3. CASE n # 0
    <2>1. PICK G1, G2 : /\ G1 = JAuthRandomness(n, "vals")
                        /\ G2 = JDo("set_shared_randomness", <<"vals">>, "")
      OBVIOUS
    <2>2. JSharedRandomness(n) = Cat(G1, G2)
      BY <1>3, <2>1 DEF JSharedRandomness, generate_shared_randomness, Cat, JAuthRandomness, JDo
    <2>3. CASE \A p \in Party : Lg(I)[p].other_pk = None
      <3>1. Dead(G1, I)
        BY <1>0, <2>1, <2>3, AuthRandomnessDead
      <3>2. G2 \in JProgs
        BY <2>1, InNames, InLocals, ArgLists, DoJoint
      <3> QED BY <2>2, <3>1, <3>2, DeadCat DEF Ends
    <2>4. CASE KeysAll(Lg(I))
      <3>1. PICK L : L = Lg(I)
        OBVIOUS
      <3>2. PICK K, X, v : /\ Gives(G1, I, K, RandRegs \cup {"vals"}, L)
                           /\ Holds(K, "vals", X) /\ AuthBatch(X, v, n)
        BY <1>0, <2>1, <2>4, <3>1, AuthRandomnessGives
      <3>3. Runs(G1, I, K, L)
        BY <3>2, RunsFirst
      <3>4. ASSUME NEW p \in Party
            PROVE  Store(p, L[p], "set_shared_randomness", Vals(K[p], <<"vals">>))
                   = [L[p] EXCEPT !["shared_randomness"] = X[p]]
        <4>1. PICK w : w = Vals(K[p], <<"vals">>)
          OBVIOUS
        <4>2. w[1] = X[p]
          BY <3>2, <4>1, Args1
        <4> QED BY <4>1, <4>2 DEF Store
      <3>5. PICK K2, M : Runs(Cat(G1, G2), I, K2, M) /\ LgSet(L, M, "shared_randomness", X)
        BY <1>0, <2>1, <3>3, <3>4, StoreRuns
      <3>6. LgOK(M)
        BY <3>1, <3>2, <3>5, ValuesOf, LgValues
      <3> QED BY <2>2, <3>5, <3>6 DEF Ends
    <2> QED BY <1>1, <2>3, <2>4 DEF KeysOK
  <1> QED BY <1>2, <1>3

---------------------------------------------------------------------------
(* beaver_mul                                                              *)

LEMMA BeaverTerms ==
    ASSUME NEW u \in F, NEW w \in F, NEW a \in F, NEW b \in F, NEW d \in F, NEW e \in F,
           d = Minus(u, a), e = Minus(w, b)
    PROVE  Plus(Plus(Plus(Times(d, b), Times(e, a)), Times(a, b)), Times(d, e)) = Times(u, w)
  <1>1. PICK x, y, z, t \in F : /\ x = Times(d, b) /\ y = Times(d, e) /\ z = Times(a, e)
                                /\ t = Times(a, b)
    BY Closed, CarrierFacts
  <1>2. Times(e, a) = z
    BY <1>1, FieldAssumption
  <1>3. Plus(Plus(x, y), Plus(z, t)) = Times(u, w)
    BY <1>1, BeaverIdentity, CarrierFacts
  <1>4. PICK m \in F : m = Plus(z, t)
    BY Closed, CarrierFacts
  <1>5. Plus(Plus(x, z), t) = Plus(x, m)
    BY <1>4, GroupAssumption, CarrierFacts
  <1>6. Plus(Plus(x, m), y) = Plus(x, Plus(m, y)) /\ Plus(m, y) = Plus(y, m)
    BY GroupAssumption, CarrierFacts
  <1>7. Plus(Plus(x, y), m) = Plus(x, Plus(y, m))
    BY GroupAssumption, CarrierFacts
  <1> QED BY <1>1, <1>2, <1>3, <1>4, <1>5, <1>6, <1>7

\* The shares that each party computes
JBeaverOf(d, e, TA, TB, TC) ==
    JAddPublic(JAdd(JAdd(JScaleBy(TB, d), JScaleBy(TA, e)), TC), PtMul(d, e))

LEMMA BeaverBatch ==
    ASSUME KeysInField, NEW n, NEW a, NEW b, NEW TA, NEW TB, NEW TC, AuthBatch(TA, a, n),
           AuthBatch(TB, b, n), AuthBatch(TC, PtMul(a, b), n),
           NEW u \in [1..n -> F], NEW w \in [1..n -> F],
           NEW d \in [1..n -> F], NEW e \in [1..n -> F], d = PtSub(u, a), e = PtSub(w, b)
    PROVE  AuthBatch(JBeaverOf(d, e, TA, TB, TC), PtMul(u, w), n)
  <1>1. a \in [1..n -> F] /\ b \in [1..n -> F]
    BY DEF AuthBatch
  <1>2. PICK X1, X2, x1, x2 : /\ X1 = JScaleBy(TB, d) /\ x1 = PtMul(d, b)
                              /\ X2 = JScaleBy(TA, e) /\ x2 = PtMul(e, a)
    OBVIOUS
  <1>3. AuthBatch(X1, x1, n) /\ AuthBatch(X2, x2, n)
    BY <1>2, ScaleByBatch
  <1>4. PICK X3, x3 : X3 = JAdd(X1, X2) /\ x3 = PtAdd(x1, x2)
    OBVIOUS
  <1>5. AuthBatch(X3, x3, n)
    BY <1>3, <1>4, AddBatch
  <1>6. PICK X4, x4, c : X4 = JAdd(X3, TC) /\ x4 = PtAdd(x3, c) /\ c = PtMul(a, b)
    OBVIOUS
  <1>7. AuthBatch(X4, x4, n)
    BY <1>5, <1>6, AddBatch
  <1>8. PICK q : q = PtMul(d, e)
    OBVIOUS
  <1>9. q \in [1..n -> F]
    <2>1. \A x, y \in F : Times(x, y) \in F
      BY Closed, CarrierFacts
    <2> QED BY <1>8, <2>1 DEF PtMul
  <1>10. AuthBatch(JAddPublic(X4, q), PtAdd(x4, q), n)
    BY <1>7, <1>9, AddPublicBatch
  <1>11. ASSUME NEW k \in 1..n PROVE Plus(x4[k], q[k]) = Times(u[k], w[k])
    <2>1. PICK uk, wk, ak, bk, dk, ek \in F :
            uk = u[k] /\ wk = w[k] /\ ak = a[k] /\ bk = b[k] /\ dk = d[k] /\ ek = e[k]
      BY <1>1
    <2>2. dk = Minus(uk, ak) /\ ek = Minus(wk, bk)
      BY <2>1 DEF PtSub
    <2>3. /\ x1[k] = Times(dk, bk) /\ x2[k] = Times(ek, ak) /\ c[k] = Times(ak, bk)
          /\ q[k] = Times(dk, ek)
      BY <1>1, <1>2, <1>6, <1>8, <2>1 DEF PtMul
    <2>4. DOMAIN x1 = 1..n /\ DOMAIN x3 = 1..n
      BY <1>3, <1>5 DEF AuthBatch
    <2>5. x4[k] = Plus(Plus(Times(dk, bk), Times(ek, ak)), Times(ak, bk))
      BY <1>4, <1>6, <2>3, <2>4 DEF PtAdd
    <2>6. Plus(x4[k], q[k]) = Times(uk, wk)
      BY <2>2, <2>3, <2>5, BeaverTerms
    <2> QED BY <2>1, <2>6
  <1>12. DOMAIN x4 = 1..n
    BY <1>7 DEF AuthBatch
  <1>13. PtAdd(x4, q) = PtMul(u, w)
    BY <1>11, <1>12 DEF PtAdd, PtMul
  <1>14. JBeaverOf(d, e, TA, TB, TC) = JAddPublic(X4, q)
    BY <1>2, <1>4, <1>6, <1>8 DEF JBeaverOf
  <1> QED BY <1>10, <1>13, <1>14

LEMMA BeaverIs ==
    ASSUME NEW d, NEW e, NEW TA, NEW TB, NEW TC
    PROVE  AreBeaver(JBeaverOf(d, e, TA, TB, TC), Both(d), Both(e), TA, TB, TC)
  BY DEF AreBeaver, JBeaverOf, Beaver, JAddPublic, JAdd, JScaleBy, Both

\* Taking n triples from pools of m of them
TakenOf(L, n, f) == [p \in Party |-> TakenTriples(L[p], n)[f]]

LEMMA TakeTriples ==
    ASSUME NEW L, NEW m \in Nat, NEW n \in Nat, n <= m, TriplesFit(L[0].triples, L[1].triples, m)
    PROVE  /\ \E a, b \in [1..n -> F] :
                 /\ AuthBatch(TakenOf(L, n, "a"), a, n) /\ AuthBatch(TakenOf(L, n, "b"), b, n)
                 /\ AuthBatch(TakenOf(L, n, "c"), PtMul(a, b), n)
           /\ TriplesFit(Leave(L[0].triples, n), Leave(L[1].triples, n), m - n)
  <1>1. PICK t, u : t = L[0].triples /\ u = L[1].triples
    OBVIOUS
  <1>2. TriplesFit(t, u, m)
    BY <1>1
  <1>3. t = [a |-> t.a, b |-> t.b, c |-> t.c] /\ u = [a |-> u.a, b |-> u.b, c |-> u.c]
    BY <1>2 DEF TriplesFit
  <1>4. DOMAIN t = {"a", "b", "c"} /\ DOMAIN u = {"a", "b", "c"}
    BY <1>3
  <1>5. \A f \in {"a", "b", "c"} : t[f] \in [1..m -> ShareOf(F)] /\ u[f] \in [1..m -> ShareOf(F)]
    <2>1. PICK x, y \in [1..m -> F] :
          /\ AuthBatch(Joined(t.a, u.a), x, m) /\ AuthBatch(Joined(t.b, u.b), y, m)
          /\ AuthBatch(Joined(t.c, u.c), PtMul(x, y), m)
      BY <1>2 DEF TriplesFit
    <2>2. /\ Joined(t.a, u.a) \in [Party -> [1..m -> ShareOf(F)]]
          /\ Joined(t.b, u.b) \in [Party -> [1..m -> ShareOf(F)]]
          /\ Joined(t.c, u.c) \in [Party -> [1..m -> ShareOf(F)]]
      BY <2>1 DEF AuthBatch
    <2>3. \A v, w : Joined(v, w)[0] = v /\ Joined(v, w)[1] = w
      BY PartyIs DEF Joined
    <2>4. \A X \in [Party -> [1..m -> ShareOf(F)]] :
             X[0] \in [1..m -> ShareOf(F)] /\ X[1] \in [1..m -> ShareOf(F)]
      BY PartyIs
    <2>5. /\ t.a \in [1..m -> ShareOf(F)] /\ t.b \in [1..m -> ShareOf(F)]
          /\ t.c \in [1..m -> ShareOf(F)] /\ u.a \in [1..m -> ShareOf(F)]
          /\ u.b \in [1..m -> ShareOf(F)] /\ u.c \in [1..m -> ShareOf(F)]
      BY <2>2, <2>3, <2>4
    <2> QED BY <2>5
  <1>6. \A f \in {"a", "b", "c"} :
           /\ Stays(t[f], n) = Slice(t[f], 0, m - n) /\ split_off(t[f], n) = Slice(t[f], m - n, n)
           /\ Stays(u[f], n) = Slice(u[f], 0, m - n) /\ split_off(u[f], n) = Slice(u[f], m - n, n)
    BY <1>5, SplitIs
  <1>7. PICK i \in Nat : i = m - n
    OBVIOUS
  <1>8. Leave(t, n) = Slices(t, 0, i) /\ Leave(u, n) = Slices(u, 0, i)
    BY <1>4, <1>6, <1>7 DEF Leave, Slices
  <1>9. TriplesFit(Slices(t, 0, i), Slices(u, 0, i), i)
    <2>1. 0 + i <= m
      BY <1>7
    <2> QED BY <1>2, <2>1, SliceTriples
  <1>10. TriplesFit(Slices(t, i, n), Slices(u, i, n), n)
    <2>1. i + n <= m
      BY <1>7
    <2> QED BY <1>2, <2>1, SliceTriples
  <1>11. PICK s, r : s = Slices(t, i, n) /\ r = Slices(u, i, n)
    OBVIOUS
  <1>12. TakenTriples(L[0], n) = s /\ TakenTriples(L[1], n) = r
    BY <1>1, <1>4, <1>6, <1>7, <1>11 DEF TakenTriples, Slices
  <1>13. \A f : TakenOf(L, n, f) = Joined(s[f], r[f])
    BY <1>12, PartyIs DEF TakenOf, Joined
  <1>14. PICK a, b \in [1..n -> F] :
          /\ AuthBatch(Joined(s.a, r.a), a, n) /\ AuthBatch(Joined(s.b, r.b), b, n)
          /\ AuthBatch(Joined(s.c, r.c), PtMul(a, b), n)
    BY <1>10, <1>11 DEF TriplesFit
  <1>15. /\ AuthBatch(TakenOf(L, n, "a"), a, n) /\ AuthBatch(TakenOf(L, n, "b"), b, n)
         /\ AuthBatch(TakenOf(L, n, "c"), PtMul(a, b), n)
    BY <1>13, <1>14
  <1> QED BY <1>1, <1>7, <1>8, <1>9, <1>15

TripleRegs == {"ta", "tb", "tc"}
OpenedRegs(r, res) == OpenRegs \cup {r, res}
BeaverRegs == OpenRegs \cup {"ta", "tb", "tc", "x_a", "y_b", "d", "e"}

JBeaver(x, y, n, res) == [p \in Party |-> beaver_mul(p, x, y, n, res)]

LEMMA NumTriples ==
    ASSUME NEW L, NEW m \in Nat, TriplesFit(L[0].triples, L[1].triples, m)
    PROVE  \A p \in Party : num_triples(L[p]) = m
  <1>1. PICK t, u : t = L[0].triples.a /\ u = L[1].triples.a
    OBVIOUS
  <1>2. PICK x : AuthBatch(Joined(t, u), x, m)
    BY <1>1 DEF TriplesFit
  <1>3. Joined(t, u) \in [Party -> [1..m -> ShareOf(F)]]
    BY <1>2 DEF AuthBatch
  <1>4. t \in [1..m -> ShareOf(F)] /\ u \in [1..m -> ShareOf(F)]
    <2>1. Joined(t, u)[0] = t /\ Joined(t, u)[1] = u
      BY PartyIs DEF Joined
    <2> QED BY <1>3, <2>1, PartyIs
  <1>5. Len(t) = m /\ Len(u) = m
    BY <1>4
  <1> QED BY <1>1, <1>5, PartyIs DEF num_triples

LEMMA BatchLen ==
    ASSUME NEW X, NEW v, NEW n \in Nat, AuthBatch(X, v, n)
    PROVE  \A p \in Party : Len(X[p]) = n
  <1>1. \A p \in Party : X[p] \in [1..n -> ShareOf(F)]
    BY DEF AuthBatch
  <1>2. \A f \in [1..n -> ShareOf(F)] : Len(f) = n
    OBVIOUS
  <1> QED BY <1>1, <1>2

\* The triples leave the pools of both parties, and the rest still fits.
LEMMA ConsumeGives ==
    ASSUME NEW J, IsJoint(J), NEW L, Lg(J) = L, LgOK(L), NEW m \in Nat, NEW n \in Nat, n <= m,
           TriplesFit(L[0].triples, L[1].triples, m),
           NEW x \in Names, NEW X, NEW u, AuthBatch(X, u, n), Holds(J, x, X)
    PROVE  \E K, M, A, B, C :
              /\ Gives(Cat(JCheck("need_triples", <<x>>), JDo("consume_triples", <<x>>, "")), J, K,
                       TripleRegs, M)
              /\ LgOK(M)
              /\ Holds(K, "ta", A) /\ Holds(K, "tb", B) /\ Holds(K, "tc", C)
              /\ \E a, b \in [1..n -> F] : /\ AuthBatch(A, a, n) /\ AuthBatch(B, b, n)
                                           /\ AuthBatch(C, PtMul(a, b), n)
  <1>1. \A p \in Party : J[p].lg = L[p]
    BY DEF Lg
  <1>2. \A p \in Party : Len(X[p]) = n
    BY BatchLen
  <1>3. Gives(JCheck("need_triples", <<x>>), J, J, {}, L)
    <2>1. "need_triples" \in Checks /\ <<x>> \in Seq(Names)
      BY ArgLists DEF Checks
    <2>2. ASSUME NEW p \in Party PROVE Passes(J[p], "need_triples", Vals(J[p], <<x>>))
      <3>1. PICK v : v = Vals(J[p], <<x>>)
        OBVIOUS
      <3>2. v[1] = X[p]
        BY <3>1, Args1
      <3>3. num_triples(J[p].lg) >= Len(v[1])
        BY <1>1, <1>2, <3>2, NumTriples
      <3> QED BY <3>1, <3>3 DEF Passes
    <2> QED BY <2>1, <2>2, CheckGives
  <1>4. PICK M, T : /\ M = [p \in Party |-> M[p]] /\ T = [p \in Party |-> T[p]]
                    /\ \A p \in Party : M[p] = consume_triples(L[p], n)
                    /\ \A p \in Party : T[p] = Leave(L[p].triples, n)
    <2>1. PICK M, T : /\ M = [p \in Party |-> consume_triples(L[p], n)]
                      /\ T = [p \in Party |-> Leave(L[p].triples, n)]
      OBVIOUS
    <2>2. M = [p \in Party |-> M[p]] /\ T = [p \in Party |-> T[p]]
      BY <2>1
    <2> QED BY <2>1, <2>2
  <1>5. \A p \in Party : M[p] = [L[p] EXCEPT !["triples"] = T[p]]
    BY <1>4 DEF consume_triples, Leave
  <1>6. TriplesFit(T[0], T[1], m - n)
    BY <1>4, PartyIs, TakeTriples
  <1>7. LgOK(M)
    <2>1. LgSet(L, M, "triples", T)
      BY <1>4, <1>5 DEF LgSet
    <2>2. PICK i \in Nat : i = m - n
      OBVIOUS
    <2> QED BY <1>6, <2>1, <2>2, LgTriples
  <1>8. PICK A, B, C : /\ A = TakenOf(L, n, "a") /\ B = TakenOf(L, n, "b")
                       /\ C = TakenOf(L, n, "c")
    OBVIOUS
  <1>9. \E a, b \in [1..n -> F] : /\ AuthBatch(A, a, n) /\ AuthBatch(B, b, n)
                                  /\ AuthBatch(C, PtMul(a, b), n)
    BY <1>8, TakeTriples
  <1>10. /\ \A p \in Party : A[p] = TakenTriples(J[p].lg, n).a
         /\ \A p \in Party : B[p] = TakenTriples(J[p].lg, n).b
         /\ \A p \in Party : C[p] = TakenTriples(J[p].lg, n).c
    BY <1>1, <1>8 DEF TakenOf
  <1>11. \A p \in Party : M[p] = consume_triples(J[p].lg, n)
    BY <1>1, <1>4
  <1> HIDE <1>8
  <1>12. M = [p \in Party |-> M[p]]
    BY <1>4
  <1>13. PICK K : /\ Gives(JDo("consume_triples", <<x>>, ""), J, K, TripleRegs, M)
                  /\ Holds(K, "ta", A) /\ Holds(K, "tb", B) /\ Holds(K, "tc", C)
    BY <1>2, <1>10, <1>11, <1>12, DoConsume DEF TripleRegs
  <1>14. Gives(Cat(JCheck("need_triples", <<x>>), JDo("consume_triples", <<x>>, "")), J, K,
               TripleRegs, M)
    <2>1. PICK G1, G2, N : /\ G1 = JCheck("need_triples", <<x>>) /\ N = {}
                           /\ G2 = JDo("consume_triples", <<x>>, "")
      OBVIOUS
    <2>2. Gives(G1, J, J, N, L) /\ Gives(G2, J, K, TripleRegs, M)
      BY <1>3, <1>13, <2>1
    <2>3. N \subseteq TripleRegs /\ TripleRegs \subseteq TripleRegs
      BY <2>1
    <2>4. Gives(Cat(G1, G2), J, K, TripleRegs, M)
      <3> HIDE <2>1
      <3> QED BY <2>2, <2>3, GivesThen
    <2> QED BY <2>1, <2>4
  <1> QED BY <1>7, <1>9, <1>13, <1>14

\* x - t opened: d = u - a, where x shares u and t shares a
LEMMA OpenDifference ==
    ASSUME DrawsInField, KeysInField, NEW J, IsJoint(J), NEW L, Lg(J) = L, NEW n \in Nat \ {0},
           NEW x \in Names, NEW t \in Names, NEW r \in Names, NEW res \in Names,
           r \notin OpenRegs, res \notin OpenRegs, r # res,
           NEW X, NEW u, AuthBatch(X, u, n), Holds(J, x, X),
           NEW T, NEW a, AuthBatch(T, a, n), Holds(J, t, T)
    PROVE  \E K : /\ Gives(Cat(JDo("sub", <<x, t>>, r), JOpenAndCheck(r, n, res)), J, K,
                           OpenedRegs(r, res), L)
                  /\ Holds(K, res, Both(PtSub(u, a)))
  <1>1. PICK Y, d : Y = JSub(X, T) /\ d = PtSub(u, a)
    OBVIOUS
  <1>2. AuthBatch(Y, d, n)
    BY <1>1, SubBatch
  <1>3. \A p \in Party : Y[p] = BatchSub(X[p], T[p])
    BY <1>1 DEF JSub
  <1> HIDE <1>1
  <1>4. PICK K1 : /\ Gives(JDo("sub", <<x, t>>, r), J, K1, {r}, L)
                  /\ Holds(K1, r, Y)
    <2>1. PICK K : K = JPut(J, r, Y)
      OBVIOUS
    <2>2. Gives(JDo("sub", <<x, t>>, r), J, K, {r}, L) /\ Holds(K, r, Y)
      BY <2>1, <1>3, DoSub
    <2> QED BY <2>2
  <1>5. IsJoint(K1) /\ Lg(K1) = L
    BY <1>4, GivesFacts
  <1>6. PICK K2 : /\ Gives(JOpenAndCheck(r, n, res), K1, K2, OpenRegs \cup {res}, L)
                  /\ Holds(K2, res, Both(d))
    BY <1>2, <1>4, <1>5, OpenAndCheckGives
  <1>7. Gives(Cat(JDo("sub", <<x, t>>, r), JOpenAndCheck(r, n, res)), J, K2,
              OpenedRegs(r, res), L)
    <2>1. {r} \subseteq OpenedRegs(r, res) /\ OpenRegs \cup {res} \subseteq OpenedRegs(r, res)
      BY DEF OpenedRegs
    <2> QED BY <1>4, <1>6, <2>1, GivesThen
  <1> QED BY <1>1, <1>6, <1>7

LEMMA BeaverGives ==
    ASSUME DrawsInField, KeysInField, NEW J, IsJoint(J), NEW L, Lg(J) = L, LgOK(L),
           NEW m \in Nat, NEW n \in Nat \ {0}, n <= m, TriplesFit(L[0].triples, L[1].triples, m),
           NEW x \in Names, NEW y \in Names, NEW res \in Names, y \notin BeaverRegs,
           x \notin BeaverRegs,
           NEW X, NEW u, AuthBatch(X, u, n), Holds(J, x, X),
           NEW Y, NEW w, AuthBatch(Y, w, n), Holds(J, y, Y)
    PROVE  \E K, M, Z : /\ Gives(JBeaver(x, y, n, res), J, K, BeaverRegs \cup {res}, M)
                        /\ LgOK(M) /\ Holds(K, res, Z) /\ AuthBatch(Z, PtMul(u, w), n)
  <1> DEFINE S == BeaverRegs \cup {res}
  <1>0. /\ "ta" \in Names /\ "tb" \in Names /\ "tc" \in Names /\ "x_a" \in Names
        /\ "y_b" \in Names /\ "d" \in Names /\ "e" \in Names
    BY InNames
  <1>1. PICK K1, M, A, B, C :
              /\ Gives(Cat(JCheck("need_triples", <<x>>), JDo("consume_triples", <<x>>, "")), J, K1,
                       TripleRegs, M)
              /\ LgOK(M)
              /\ Holds(K1, "ta", A) /\ Holds(K1, "tb", B) /\ Holds(K1, "tc", C)
              /\ \E a, b \in [1..n -> F] : /\ AuthBatch(A, a, n) /\ AuthBatch(B, b, n)
                                           /\ AuthBatch(C, PtMul(a, b), n)
    BY ConsumeGives
  <1>2. PICK a, b \in [1..n -> F] : /\ AuthBatch(A, a, n) /\ AuthBatch(B, b, n)
                                    /\ AuthBatch(C, PtMul(a, b), n)
    BY <1>1
  <1>3. x \notin TripleRegs /\ y \notin TripleRegs
    BY DEF BeaverRegs, TripleRegs
  <1>4. IsJoint(K1) /\ Lg(K1) = M /\ Holds(K1, x, X) /\ Holds(K1, y, Y)
    BY <1>1, <1>3, GivesFacts, GivesKeeps
  <1>5. PICK d, e : d = PtSub(u, a) /\ e = PtSub(w, b)
    OBVIOUS
  <1>6. /\ "x_a" \notin OpenRegs /\ "d" \notin OpenRegs /\ "y_b" \notin OpenRegs
        /\ "e" \notin OpenRegs
    BY DEF OpenRegs, RandomRegs, CommitRegs
  <1>7. PICK K2 : /\ Gives(Cat(JDo("sub", <<x, "ta">>, "x_a"), JOpenAndCheck("x_a", n, "d")), K1, K2,
                           OpenedRegs("x_a", "d"), M)
                  /\ Holds(K2, "d", Both(d))
    BY <1>0, <1>1, <1>2, <1>4, <1>5, <1>6, OpenDifference
  <1>8. /\ \A r \in {"ta", "tb", "tc"} : r \notin OpenedRegs("x_a", "d")
        /\ y \notin OpenedRegs("x_a", "d")
    BY DEF BeaverRegs, OpenedRegs, OpenRegs, RandomRegs, CommitRegs
  <1>9. /\ IsJoint(K2) /\ Lg(K2) = M /\ Holds(K2, y, Y) /\ Holds(K2, "ta", A)
        /\ Holds(K2, "tb", B) /\ Holds(K2, "tc", C)
    BY <1>1, <1>4, <1>7, <1>8, GivesFacts, GivesKeeps
  <1>10. PICK K3 : /\ Gives(Cat(JDo("sub", <<y, "tb">>, "y_b"), JOpenAndCheck("y_b", n, "e")), K2, K3,
                            OpenedRegs("y_b", "e"), M)
                   /\ Holds(K3, "e", Both(e))
    BY <1>0, <1>2, <1>5, <1>6, <1>9, OpenDifference
  <1>11. \A r \in {"ta", "tb", "tc", "d"} : r \notin OpenedRegs("y_b", "e")
    BY DEF OpenedRegs, OpenRegs, RandomRegs, CommitRegs
  <1>12. /\ IsJoint(K3) /\ Lg(K3) = M /\ Holds(K3, "d", Both(d)) /\ Holds(K3, "ta", A)
         /\ Holds(K3, "tb", B) /\ Holds(K3, "tc", C)
    BY <1>7, <1>9, <1>10, <1>11, GivesFacts, GivesKeeps
  <1>13. PICK Z : Z = JBeaverOf(d, e, A, B, C)
    OBVIOUS
  <1>14. AuthBatch(Z, PtMul(u, w), n)
    <2>1. u \in [1..n -> F] /\ w \in [1..n -> F]
      BY DEF AuthBatch
    <2>2. d \in [1..n -> F] /\ e \in [1..n -> F]
      <3>1. \A p, q \in F : Minus(p, q) \in F
        BY Closed, CarrierFacts
      <3> QED BY <1>5, <2>1, <3>1 DEF PtSub
    <2> QED BY <1>2, <1>5, <1>13, <2>1, <2>2, BeaverBatch
  <1>15. AreBeaver(Z, Both(d), Both(e), A, B, C)
    BY <1>13, BeaverIs
  <1> HIDE <1>13
  <1>16. Holds5(K3, "d", "e", "ta", "tb", "tc", Both(d), Both(e), A, B, C)
    BY <1>0, <1>10, <1>12 DEF Holds5
  <1>17. PICK K4 : /\ Gives(JDo("beaver", <<"d", "e", "ta", "tb", "tc">>, res), K3, K4, {res}, M)
                   /\ Holds(K4, res, Z)
    <2>1. PICK K : K = JPut(K3, res, Z)
      OBVIOUS
    <2>2. Gives(JDo("beaver", <<"d", "e", "ta", "tb", "tc">>, res), K3, K, {res}, M) /\ Holds(K,
                res, Z)
      BY <2>1, <1>12, <1>15, <1>16, DoBeaver
    <2> QED BY <2>2
  <1>18. PICK G1, G2, G3, G4 :
            /\ G1 = Cat(JCheck("need_triples", <<x>>), JDo("consume_triples", <<x>>, ""))
            /\ G2 = Cat(JDo("sub", <<x, "ta">>, "x_a"), JOpenAndCheck("x_a", n, "d"))
            /\ G3 = Cat(JDo("sub", <<y, "tb">>, "y_b"), JOpenAndCheck("y_b", n, "e"))
            /\ G4 = JDo("beaver", <<"d", "e", "ta", "tb", "tc">>, res)
    OBVIOUS
  <1>23. /\ TripleRegs \subseteq S /\ OpenedRegs("x_a", "d") \subseteq S
         /\ OpenedRegs("y_b", "e") \subseteq S /\ {res} \subseteq S
    BY DEF BeaverRegs, TripleRegs, OpenedRegs
  <1> HIDE DEF S
  <1>19. Gives(Cat(G1, G2), J, K2, S, M)
    BY <1>1, <1>7, <1>18, <1>23, GivesThen
  <1>20. Gives(Cat(Cat(G1, G2), G3), J, K3, S, M)
    BY <1>10, <1>18, <1>19, <1>23, GivesThen
  <1>21. Gives(Cat(Cat(Cat(G1, G2), G3), G4), J, K4, S, M)
    <2>1. PICK N : N = {res}
      OBVIOUS
    <2>2. Gives(G4, K3, K4, N, M) /\ N \subseteq S /\ S \subseteq S
      BY <1>17, <1>18, <1>23, <2>1
    <2> HIDE <2>1
    <2> QED BY <1>20, <2>2, GivesThen
  <1>22. JBeaver(x, y, n, res) = Cat(Cat(Cat(G1, G2), G3), G4)
    <2>1. PICK H1, H2, H3, H4, H5, H6 :
            /\ H1 = JCheck("need_triples", <<x>>) /\ H2 = JDo("consume_triples", <<x>>, "")
            /\ H3 = JDo("sub", <<x, "ta">>, "x_a") /\ H4 = JOpenAndCheck("x_a", n, "d")
            /\ H5 = JDo("sub", <<y, "tb">>, "y_b") /\ H6 = JOpenAndCheck("y_b", n, "e")
      OBVIOUS
    <2>2. H1 \in JProgs /\ H2 \in JProgs /\ H3 \in JProgs /\ H5 \in JProgs
      BY <1>0, <2>1, InNames, InLocals, ArgLists, DoJoint
    <2>3. H4 \in JProgs /\ H6 \in JProgs
      BY <1>0, <2>1, OpenJoint
    <2>4. Cat(Cat(H1, H2), Cat(H3, H4)) = Cat(Cat(Cat(H1, H2), H3), H4)
      BY <2>2, <2>3, CatProgs
    <2>5. PICK Q : Q = Cat(Cat(Cat(H1, H2), H3), H4)
      OBVIOUS
    <2>6. Q \in JProgs
      BY <2>2, <2>3, <2>5, CatProgs
    <2>7. Cat(Q, Cat(H5, H6)) = Cat(Cat(Q, H5), H6)
      BY <2>2, <2>3, <2>6, CatProgs
    <2>8. Cat(Cat(G1, G2), G3) = Cat(Cat(Cat(Cat(Cat(H1, H2), H3), H4), H5), H6)
      BY <1>18, <2>1, <2>4, <2>5, <2>7
    <2>9. JBeaver(x, y, n, res) = Cat(Cat(Cat(Cat(Cat(Cat(H1, H2), H3), H4), H5), H6), G4)
      BY <1>18, <2>1 DEF JBeaver, beaver_mul, Cat, JCheck, JDo, JOpenAndCheck
    <2> QED BY <2>8, <2>9
  <1> QED BY <1>1, <1>14, <1>17, <1>21, <1>22 DEF S

---------------------------------------------------------------------------
(* generate_inverse_tuples and generate_shared_bits                        *)

JOpenedNonzero(P, x, n) ==
    Cat(Cat(P, JOpenAndCheck(x, n, "opened")), JCheck("nonzero", <<"opened">>))

\* After the values o are opened both tasks go on, or both end on a zero.
NonzeroRuns(P, x, n, I, J, L, o) ==
    \E K : /\ Runs(JOpenedNonzero(P, x, n), I, K, L) /\ Keeps(J, K, OpenedRegs(x, "opened"))
           /\ Holds(K, "opened", Both(o)) /\ \A k \in 1..n : o[k] # Zero

LEMMA OpenNonzero ==
    ASSUME DrawsInField, KeysInField, NEW n \in Nat \ {0}, NEW P, NEW I, NEW J, NEW L,
           Runs(P, I, J, L), NEW x \in Names, x \notin OpenRegs, x # "opened",
           NEW Z, NEW o, AuthBatch(Z, o, n), Holds(J, x, Z)
    PROVE  Dead(JOpenedNonzero(P, x, n), I) \/ NonzeroRuns(P, x, n, I, J, L, o)
  <1>1. IsJoint(J) /\ Lg(J) = L
    BY RunsFacts
  <1>2. "opened" \in Names /\ "opened" \notin OpenRegs
    BY InNames DEF OpenRegs, RandomRegs, CommitRegs
  <1>3. PICK K : /\ Gives(JOpenAndCheck(x, n, "opened"), J, K, OpenRegs \cup {"opened"}, L)
                 /\ Holds(K, "opened", Both(o))
    BY <1>1, <1>2, OpenAndCheckGives
  <1>4. PICK Q : Q = Cat(P, JOpenAndCheck(x, n, "opened"))
    OBVIOUS
  <1>5. Runs(Q, I, K, L)
    BY <1>3, <1>4, RunsThen
  <1>6. IsJoint(K) /\ Lg(K) = L
    BY <1>3, GivesFacts
  <1>7. o \in [1..n -> F]
    BY DEF AuthBatch
  <1>8. \A p \in Party : Vals(K[p], <<"opened">>)[1] = o
    <2>1. \A p \in Party : Vals(K[p], <<"opened">>)[1] = Both(o)[p]
      BY <1>3, Args1
    <2> QED BY <2>1 DEF Both
  <1>9. \A p \in Party : Passes(K[p], "nonzero", Vals(K[p], <<"opened">>))
                         <=> \A k \in 1..n : o[k] # Zero
    <2>1. ASSUME NEW p \in Party, NEW w, w[1] = o
          PROVE  Passes(K[p], "nonzero", w) <=> \A k \in 1..n : o[k] # Zero
      <3>1. DOMAIN o = 1..n
        BY <1>7
      <3> QED BY <2>1, <3>1 DEF Passes
    <2> QED BY <1>8, <2>1
  <1>10. "nonzero" \in Checks /\ <<"opened">> \in Seq(Names) /\ ErrorOf("nonzero") = "panic"
    BY <1>2, ArgLists DEF Checks, ErrorOf
  <1>11. JCheck("nonzero", <<"opened">>) \in JProgs
    BY <1>10, InNames, InLocals, DoJoint
  <1>12. CASE \A k \in 1..n : o[k] # Zero
    <2>1. Gives(JCheck("nonzero", <<"opened">>), K, K, {}, L)
      BY <1>6, <1>9, <1>10, <1>12, CheckGives
    <2>2. Runs(Cat(Q, JCheck("nonzero", <<"opened">>)), I, K, L)
      BY <1>5, <2>1, RunsThen
    <2>3. Keeps(J, K, OpenedRegs(x, "opened"))
      BY <1>3 DEF Gives, Keeps, OpenedRegs
    <2> QED BY <1>3, <1>4, <1>12, <2>2, <2>3 DEF NonzeroRuns, JOpenedNonzero
  <1>13. CASE ~(\A k \in 1..n : o[k] # Zero)
    <2>1. Fails(JCheck("nonzero", <<"opened">>), K)
      BY <1>6, <1>9, <1>10, <1>13, CheckFails
    <2>2. Dead(JCheck("nonzero", <<"opened">>), K)
      BY <1>11, <2>1 DEF Dead
    <2>3. Dead(Cat(Q, JCheck("nonzero", <<"opened">>)), I)
      BY <1>5, <2>2, RunsDead
    <2> QED BY <1>4, <2>3 DEF JOpenedNonzero
  <1> QED BY <1>12, <1>13

\* u (w / uw) = 1
LEMMA InverseTerms ==
    ASSUME NEW u \in F, NEW w \in F, Times(u, w) # Zero
    PROVE  Times(u, Times(Inv(Times(u, w)), w)) = One
  <1>1. PICK x : x = Times(u, w)
    OBVIOUS
  <1>2. PICK i : i = Inv(x)
    OBVIOUS
  <1>3. x \in F /\ i \in F /\ Times(x, i) = One
    BY <1>1, <1>2, ScalarProducts
  <1>4. Times(i, w) = Times(w, i) /\ Times(i, w) \in F
    BY <1>3, ScalarProducts
  <1>5. Times(u, Times(w, i)) = Times(Times(u, w), i)
    BY <1>3, ScalarProducts
  <1> QED BY <1>1, <1>2, <1>3, <1>4, <1>5

\* A square root of v^2 is v or its negation, so v / sqrt(v^2) is 1 or -1, and
\* half of one more than that is a bit.
LEMMA BitTerms ==
    ASSUME NEW v \in F, Times(v, v) # Zero, NEW y, y = Inv(Sqrt(Times(v, v)))
    PROVE  /\ y \in F
           /\ Times(Inv(Two), Plus(Times(y, v), One)) \in {Zero, One}
  <1>1. PICK s : s = Sqrt(Times(v, v))
    OBVIOUS
  <1>2. s \in F /\ Times(s, s) = Times(v, v)
    BY <1>1, LowGearAssumption
  <1>3. s # Zero
    BY <1>2, ScalarProducts
  <1>4. y \in F /\ Times(s, y) = One /\ Times(y, s) = One /\ One \in F /\ Zero \in F
    BY <1>1, <1>2, <1>3, ScalarProducts
  <1>5. PICK z : z = Times(y, v)
    OBVIOUS
  <1>6. z \in F
    BY <1>4, <1>5, ScalarProducts
  <1>7. Times(z, z) = One
    <2>1. Times(z, z) = Times(y, Times(v, z))
      BY <1>4, <1>5, <1>6, ScalarProducts
    <2>2. Times(v, z) = Times(z, v)
      BY <1>6, ScalarProducts
    <2>3. Times(z, v) = Times(y, Times(v, v))
      BY <1>4, <1>5, ScalarProducts
    <2>4. Times(y, Times(s, s)) = Times(Times(y, s), s)
      BY <1>2, <1>4, ScalarProducts
    <2>5. Times(y, Times(v, v)) = s
      BY <1>2, <1>4, <2>4, ScalarProducts
    <2> QED BY <1>4, <2>1, <2>2, <2>3, <2>5
  <1>8. PICK t : t = Plus(z, One)
    OBVIOUS
  <1>9. t \in F
    BY <1>4, <1>6, <1>8, Closed, CarrierFacts
  <1>10. Two \in F /\ Two # Zero /\ Inv(Two) \in F /\ Times(Inv(Two), Two) = One
    <2>1. Two \in F
      BY <1>4, Closed, CarrierFacts DEF Two
    <2> QED BY <2>1, LowGearAssumption, ScalarProducts
  <1>11. CASE t = Zero
    <2>1. Times(Inv(Two), t) = Zero
      BY <1>9, <1>10, <1>11, ScalarProducts
    <2> QED BY <1>4, <1>5, <1>8, <2>1
  <1>12. CASE t # Zero
    <2>1. PICK w : w = Minus(z, One)
      OBVIOUS
    <2>2. w \in F
      BY <1>4, <1>6, <2>1, Closed, CarrierFacts
    <2>3. Plus(w, One) = z
      BY <1>4, <1>6, <2>1, MinusPlus, CarrierFacts
    <2>4. Times(t, w) = Zero
      <3>1. Times(z, t) = Plus(One, z)
        <4>1. Times(z, t) = Plus(Times(z, z), Times(z, One))
          BY <1>4, <1>6, <1>8, ModuleAssumption, CarrierFacts
        <4> QED BY <1>6, <1>7, <4>1, ScalarProducts
      <3>2. Plus(One, z) = t
        BY <1>4, <1>6, <1>8, GroupAssumption, CarrierFacts
      <3>3. Times(t, z) = t
        BY <1>6, <1>9, <3>1, <3>2, ScalarProducts
      <3>4. Times(t, Plus(w, One)) = Plus(Times(t, w), Times(t, One))
        BY <1>4, <1>9, <2>2, ModuleAssumption, CarrierFacts
      <3>5. PICK a : a = Times(t, w)
        OBVIOUS
      <3>6. a \in F /\ Plus(a, t) = t
        BY <1>9, <2>2, <2>3, <3>3, <3>4, <3>5, ScalarProducts
      <3>7. Plus(t, a) = Plus(t, Zero)
        BY <1>4, <1>9, <3>6, GroupAssumption, CarrierFacts
      <3>8. a = Zero
        BY <1>4, <1>9, <3>6, <3>7, Cancel, CarrierFacts
      <3> QED BY <3>5, <3>8
    <2>5. w = Zero
      BY <1>9, <1>12, <2>2, <2>4, NoTorsion, CarrierFacts
    <2>6. z = One
      BY <1>4, <2>3, <2>5, GroupAssumption, CarrierFacts
    <2>7. t = Two
      BY <1>8, <2>6 DEF Two
    <2>8. Times(Inv(Two), t) = One
      BY <1>10, <2>7
    <2> QED BY <1>4, <1>5, <1>8, <2>8
  <1> QED BY <1>4, <1>11, <1>12

JInverse(L, n) == [p \in Party |-> generate_inverse_tuples(p, L[p], n)]

\* The halves of a batch of 2n
LEMMA Halved ==
    ASSUME NEW n \in Nat, NEW X, NEW v, AuthBatch(X, v, 2 * n)
    PROVE  \E Y, W, u, w :
              /\ AuthBatch(Y, u, n) /\ AuthBatch(W, w, n)
              /\ \A p \in Party : Y[p] = SubSeq(X[p], 1, Half(X[p]))
              /\ \A p \in Party : W[p] = SubSeq(X[p], Half(X[p]) + 1, Len(X[p]))
  <1>1. PICK m \in Nat : m = 2 * n
    OBVIOUS
  <1>2. AuthBatch(X, v, m)
    BY <1>1
  <1>3. \A p \in Party : Len(X[p]) = m
    BY <1>2, BatchLen
  <1>4. m \div 2 = n /\ 0 + n <= m /\ n + n <= m /\ n + n = m /\ 0 + n = n /\ 0 + 1 = 1
    BY <1>1
  <1>5. \A p \in Party : Half(X[p]) = n
    BY <1>3, <1>4 DEF Half
  <1>6. \A p \in Party : OfLen(X[p], m, ShareOf(F))
    BY <1>2 DEF AuthBatch, OfLen
  <1>7. PICK Y, W : Y = JSlice(X, 0, n) /\ W = JSlice(X, n, n)
    OBVIOUS
  <1>8. AuthBatch(Y, Slice(v, 0, n), n) /\ AuthBatch(W, Slice(v, n, n), n)
    BY <1>2, <1>4, <1>7, SliceBatch
  <1>9. ASSUME NEW p \in Party
        PROVE  /\ Y[p] = SubSeq(X[p], 1, Half(X[p]))
               /\ W[p] = SubSeq(X[p], Half(X[p]) + 1, Len(X[p]))
    <2>1. OfLen(X[p], m, ShareOf(F))
      BY <1>6
    <2>2. IsSlice(X[p], m, 0, n, ShareOf(F)) /\ IsSlice(X[p], m, n, n, ShareOf(F))
      BY <1>4, <2>1, SliceOf
    <2>3. SubSeq(X[p], 1, n) = Slice(X[p], 0, n) /\ SubSeq(X[p], n + 1, m) = Slice(X[p], n, n)
      BY <1>4, <2>2 DEF IsSlice
    <2>4. Y[p] = Slice(X[p], 0, n) /\ W[p] = Slice(X[p], n, n)
      BY <1>7 DEF JSlice
    <2> QED BY <1>3, <1>5, <2>3, <2>4
  <1> QED BY <1>8, <1>9

\* The pairs that the opened products leave
JPairs(Y, W, o) ==
    [p \in Party |-> [lhs |-> Y[p],
                      rhs |-> BatchScaleBy(W[p], [k \in DOMAIN o |-> Inv(o[k])])]]

LEMMA PairsOf ==
    ASSUME KeysInField, NEW n \in Nat, NEW Y, NEW W, NEW u, NEW w, AuthBatch(Y, u, n),
           AuthBatch(W, w, n), NEW o, o = PtMul(u, w), \A k \in 1..n : o[k] # Zero
    PROVE  PairsFit(JPairs(Y, W, o)[0], JPairs(Y, W, o)[1], n)
  <1>1. u \in [1..n -> F] /\ w \in [1..n -> F]
    BY DEF AuthBatch
  <1>2. \A k \in 1..n : o[k] = Times(u[k], w[k]) /\ o[k] \in F
    BY <1>1, ScalarProducts DEF PtMul
  <1>3. DOMAIN o = 1..n
    BY <1>1 DEF PtMul
  <1>4. PICK c : c = [k \in 1..n |-> Inv(o[k])]
    OBVIOUS
  <1>5. c \in [1..n -> F]
    BY <1>2, <1>4, ScalarProducts
  <1>6. PICK V, z : V = JScaleBy(W, c) /\ z = PtMul(c, w)
    OBVIOUS
  <1>7. AuthBatch(V, z, n) /\ z \in [1..n -> F]
    BY <1>5, <1>6, ScaleByBatch DEF AuthBatch
  <1>8. \A k \in 1..n : Times(u[k], z[k]) = One
    <2>1. ASSUME NEW k \in 1..n PROVE Times(u[k], z[k]) = One
      <3>1. z[k] = Times(Inv(Times(u[k], w[k])), w[k])
        BY <1>2, <1>4, <1>5, <1>6 DEF PtMul
      <3>2. u[k] \in F /\ w[k] \in F /\ Times(u[k], w[k]) # Zero
        BY <1>1, <1>2
      <3> QED BY <3>1, <3>2, InverseTerms
    <2> QED BY <2>1
  <1>9. PICK t, s : t = JPairs(Y, W, o)[0] /\ s = JPairs(Y, W, o)[1]
    OBVIOUS
  <1>10. t = [lhs |-> Y[0], rhs |-> V[0]] /\ s = [lhs |-> Y[1], rhs |-> V[1]]
    BY <1>3, <1>4, <1>6, <1>9, PartyIs DEF JPairs, JScaleBy
  <1>11. Joined(Y[0], Y[1]) = Y /\ Joined(V[0], V[1]) = V
    BY <1>7, JoinedIs
  <1>12. PairsFit(t, s, n)
    BY <1>1, <1>7, <1>8, <1>10, <1>11 DEF PairsFit
  <1> QED BY <1>9, <1>12

\* generate_inverse_tuples up to the multiplication
JInverseHead(n) ==
    Cat(Cat(Cat(JAuthRandomness(2 * n, "vals"), JDo("first_half", <<"vals">>, "lhs")),
            JDo("second_half", <<"vals">>, "rhs")),
        JBeaver("lhs", "rhs", n, "product"))

LEMMA InverseHead ==
    ASSUME DrawsInField, KeysInField, NEW I, IsJoint(I), NEW L, Lg(I) = L, LgOK(L), KeysAll(L),
           NEW m \in Nat, NEW n \in Nat \ {0}, n <= m, TriplesFit(L[0].triples, L[1].triples, m)
    PROVE  \E K, M, Y, W, Z, u, w :
              /\ Runs(JInverseHead(n), I, K, M) /\ LgOK(M)
              /\ Holds(K, "lhs", Y) /\ Holds(K, "rhs", W) /\ Holds(K, "product", Z)
              /\ AuthBatch(Y, u, n) /\ AuthBatch(W, w, n) /\ AuthBatch(Z, PtMul(u, w), n)
  <1>0. /\ "vals" \in Names /\ "lhs" \in Names /\ "rhs" \in Names /\ "product" \in Names
    BY InNames
  <1>1. PICK J1, X, v : /\ Gives(JAuthRandomness(2 * n, "vals"), I, J1, RandRegs \cup {"vals"}, L)
                        /\ Holds(J1, "vals", X) /\ AuthBatch(X, v, 2 * n)
    <2>1. 2 * n \in Nat
      OBVIOUS
    <2> QED BY <1>0, <2>1, AuthRandomnessGives
  <1>2. PICK Y, W, u, w :
              /\ AuthBatch(Y, u, n) /\ AuthBatch(W, w, n)
              /\ \A p \in Party : Y[p] = SubSeq(X[p], 1, Half(X[p]))
              /\ \A p \in Party : W[p] = SubSeq(X[p], Half(X[p]) + 1, Len(X[p]))
    BY <1>1, Halved
  <1>3. IsJoint(J1) /\ Lg(J1) = L
    BY <1>1, GivesFacts
  <1>4. PICK J2 : /\ Gives(JDo("first_half", <<"vals">>, "lhs"), J1, J2, {"lhs"}, L)
                  /\ Holds(J2, "lhs", Y)
    <2>1. PICK K : K = JPut(J1, "lhs", Y)
      OBVIOUS
    <2>2. Gives(JDo("first_half", <<"vals">>, "lhs"), J1, K, {"lhs"}, L) /\ Holds(K, "lhs", Y)
      BY <2>1, <1>0, <1>1, <1>2, <1>3, DoFirstHalf
    <2> QED BY <2>2
  <1>5. IsJoint(J2) /\ Lg(J2) = L
    BY <1>4, GivesFacts
  <1>6. Holds(J2, "vals", X)
    <2>1. "vals" \notin {"lhs"}
      OBVIOUS
    <2> QED BY <1>1, <1>4, <2>1, GivesKeeps
  <1>7. PICK J3 : /\ Gives(JDo("second_half", <<"vals">>, "rhs"), J2, J3, {"rhs"}, L)
                  /\ Holds(J3, "rhs", W)
    <2>1. PICK K : K = JPut(J2, "rhs", W)
      OBVIOUS
    <2>2. Gives(JDo("second_half", <<"vals">>, "rhs"), J2, K, {"rhs"}, L) /\ Holds(K, "rhs", W)
      BY <2>1, <1>0, <1>2, <1>5, <1>6, DoSecondHalf
    <2> QED BY <2>2
  <1>8. IsJoint(J3) /\ Lg(J3) = L
    BY <1>7, GivesFacts
  <1>9. Holds(J3, "lhs", Y)
    <2>1. "lhs" \notin {"rhs"}
      OBVIOUS
    <2> QED BY <1>4, <1>7, <2>1, GivesKeeps
  <1>10. /\ "lhs" \notin BeaverRegs /\ "rhs" \notin BeaverRegs
         /\ "lhs" \notin BeaverRegs \cup {"product"} /\ "rhs" \notin BeaverRegs \cup {"product"}
    BY DEF BeaverRegs, OpenRegs, RandomRegs, CommitRegs
  <1>11. PICK K, M, Z : /\ Gives(JBeaver("lhs", "rhs", n, "product"), J3, K,
                                 BeaverRegs \cup {"product"}, M)
                        /\ LgOK(M) /\ Holds(K, "product", Z) /\ AuthBatch(Z, PtMul(u, w), n)
    BY <1>0, <1>2, <1>7, <1>8, <1>9, <1>10, BeaverGives
  <1>12. Holds(K, "lhs", Y) /\ Holds(K, "rhs", W)
    BY <1>7, <1>9, <1>10, <1>11, GivesKeeps
  <1>13. Runs(JInverseHead(n), I, K, M)
    <2>1. PICK G1, G2, G3, G4 :
              /\ G1 = JAuthRandomness(2 * n, "vals") /\ G2 = JDo("first_half", <<"vals">>, "lhs")
              /\ G3 = JDo("second_half", <<"vals">>, "rhs")
              /\ G4 = JBeaver("lhs", "rhs", n, "product")
      OBVIOUS
    <2>2. Runs(G1, I, J1, L)
      BY <1>1, <2>1, RunsFirst
    <2>3. Runs(Cat(G1, G2), I, J2, L)
      BY <1>4, <2>1, <2>2, RunsThen
    <2>4. Runs(Cat(Cat(G1, G2), G3), I, J3, L)
      BY <1>7, <2>1, <2>3, RunsThen
    <2>5. Runs(Cat(Cat(Cat(G1, G2), G3), G4), I, K, M)
      BY <1>11, <2>1, <2>4, RunsThen
    <2> QED BY <2>1, <2>5 DEF JInverseHead
  <1> QED BY <1>2, <1>11, <1>12, <1>13

LEMMA InverseDo ==
    ASSUME NEW K, NEW L, NEW Y, NEW W, NEW o, Holds(K, "lhs", Y), Holds(K, "rhs", W),
           Holds(K, "opened", Both(o)), NEW p \in Party
    PROVE  Store(p, L[p], "set_inverse_tuples", Vals(K[p], <<"lhs", "rhs", "opened">>))
           = [L[p] EXCEPT !["inverse_tuples"] = JPairs(Y, W, o)[p]]
  <1>1. PICK x : x = Vals(K[p], <<"lhs", "rhs", "opened">>)
    OBVIOUS
  <1>2. x[1] = Y[p] /\ x[2] = W[p] /\ x[3] = o
    <2>1. x[1] = Y[p] /\ x[2] = W[p] /\ x[3] = Both(o)[p]
      BY <1>1, Args3
    <2> QED BY <2>1 DEF Both
  <1>3. Store(p, L[p], "set_inverse_tuples", x) = set_inverse_tuples(L[p], x[1], x[2], x[3])
    BY DEF Store
  <1> QED BY <1>1, <1>2, <1>3 DEF set_inverse_tuples, JPairs

LEMMA InverseIs ==
    ASSUME NEW L, NEW n \in Nat \ {0}, \A p \in Party : ~(num_triples(L[p]) < n)
    PROVE  JInverse(L, n) = Cat(JOpenedNonzero(JInverseHead(n), "product", n),
                                JDo("set_inverse_tuples", <<"lhs", "rhs", "opened">>, ""))
  BY DEF JInverse, generate_inverse_tuples, Cat, JOpenedNonzero, JInverseHead, JAuthRandomness, JDo,
         JBeaver, JOpenAndCheck, JCheck

\* The calls that need triples, when there are too few and when they are asked
\* for nothing
LEMMA BeaverJoint ==
    ASSUME NEW x \in Names, NEW y \in Names, NEW n \in Nat, NEW res \in Names, res # "my_comm"
    PROVE  JBeaver(x, y, n, res) \in JProgs
  <1>1. \A p \in Party : Orderly(p, JBeaver(x, y, n, res)[p])
    BY OrderlyBeaver DEF JBeaver
  <1>2. JBeaver(x, y, n, res) = [p \in Party |-> JBeaver(x, y, n, res)[p]]
    BY DEF JBeaver
  <1> QED BY <1>1, <1>2, OrderlyJoint

LEMMA InverseEnds ==
    ASSUME DrawsInField, KeysInField, NEW I, IsJoint(I), LgOK(Lg(I)), NEW n \in Nat
    PROVE  Ends(JInverse(Lg(I), n), I)
  <1>0. /\ "vals" \in Names /\ "lhs" \in Names /\ "rhs" \in Names /\ "product" \in Names
        /\ "opened" \in Names /\ "set_inverse_tuples" \in Stores
        /\ <<"lhs", "rhs", "opened">> \in Seq(Names)
    BY InNames, ArgLists DEF Stores
  <1>1. PICK L : L = Lg(I)
    OBVIOUS
  <1>2. KeysOK(L) /\ TriplesOK(L)
    BY <1>1, LgParts
  <1>3. PICK m \in Nat : TriplesFit(L[0].triples, L[1].triples, m)
    BY <1>2 DEF TriplesOK
  <1>4. \A p \in Party : num_triples(L[p]) = m
    BY <1>3, NumTriples
  <1>5. CASE m < n
    <2>1. JInverse(L, n) = JPanic
      BY <1>4, <1>5 DEF JInverse, JPanic, generate_inverse_tuples
    <2> QED BY <1>1, <2>1, PanicDead DEF Ends
  <1>6. CASE ~(m < n) /\ n = 0
    <2>1. JInverse(L, n) = JEmpty
      BY <1>4, <1>6 DEF JInverse, JEmpty, generate_inverse_tuples
    <2> QED BY <1>1, <2>1, EmptyRuns DEF Ends
  <1>7. CASE n # 0 /\ n <= m
    <2>0. n \in Nat \ {0}
      BY <1>7
    <2>1. PICK P : P = JOpenedNonzero(JInverseHead(n), "product", n)
      OBVIOUS
    <2>2. PICK G : G = JDo("set_inverse_tuples", <<"lhs", "rhs", "opened">>, "")
      OBVIOUS
    <2>3. JInverse(L, n) = Cat(P, G)
      <3>1. \A p \in Party : ~(num_triples(L[p]) < n)
        BY <1>4, <1>7
      <3> QED BY <2>0, <2>1, <2>2, <3>1, InverseIs
    <2>4. G \in JProgs
      BY <1>0, <2>2, InNames, InLocals, DoJoint
    <2>5. CASE \A p \in Party : L[p].other_pk = None
      <3>1. 2 * n \in Nat
        OBVIOUS
      <3>2. PICK G1 : G1 = JAuthRandomness(2 * n, "vals")
        OBVIOUS
      <3>3. Dead(G1, I)
        BY <1>0, <1>1, <2>5, <3>1, <3>2, AuthRandomnessDead
      <3>4. PICK G2, G3, G4, G5, G6 :
              /\ G2 = JDo("first_half", <<"vals">>, "lhs")
              /\ G3 = JDo("second_half", <<"vals">>, "rhs")
              /\ G4 = JBeaver("lhs", "rhs", n, "product")
              /\ G5 = JOpenAndCheck("product", n, "opened")
              /\ G6 = JCheck("nonzero", <<"opened">>)
        OBVIOUS
      <3>5. G2 \in JProgs /\ G3 \in JProgs /\ G6 \in JProgs
        BY <1>0, <3>4, InNames, InLocals, ArgLists, DoJoint
      <3>6. G4 \in JProgs /\ G5 \in JProgs
        BY <1>0, <3>4, BeaverJoint, OpenJoint
      <3>7. P = Cat(Cat(Cat(Cat(Cat(G1, G2), G3), G4), G5), G6)
        BY <2>1, <3>2, <3>4 DEF JOpenedNonzero, JInverseHead
      <3>8. Dead(P, I)
        BY <3>3, <3>5, <3>6, <3>7, DeadCat
      <3> QED BY <1>1, <2>3, <2>4, <3>8, DeadCat DEF Ends
    <2>6. CASE KeysAll(L)
      <3>1. PICK K, M, Y, W, Z, u, w :
              /\ Runs(JInverseHead(n), I, K, M) /\ LgOK(M)
              /\ Holds(K, "lhs", Y) /\ Holds(K, "rhs", W) /\ Holds(K, "product", Z)
              /\ AuthBatch(Y, u, n) /\ AuthBatch(W, w, n) /\ AuthBatch(Z, PtMul(u, w), n)
        BY <1>1, <1>3, <1>7, <2>0, <2>6, InverseHead
      <3>2. PICK o : o = PtMul(u, w)
        OBVIOUS
      <3>3. "product" \notin OpenRegs
        BY DEF OpenRegs, RandomRegs, CommitRegs
      <3>4. Dead(P, I) \/ NonzeroRuns(JInverseHead(n), "product", n, I, K, M, o)
        BY <1>0, <2>0, <2>1, <3>1, <3>2, <3>3, OpenNonzero
      <3>5. CASE Dead(P, I)
        BY <1>1, <2>3, <2>4, <3>5, DeadCat DEF Ends
      <3>6. CASE NonzeroRuns(JInverseHead(n), "product", n, I, K, M, o)
        <4>1. PICK K2 :
                 /\ Runs(P, I, K2, M) /\ Keeps(K, K2, OpenedRegs("product", "opened"))
                 /\ Holds(K2, "opened", Both(o)) /\ \A k \in 1..n : o[k] # Zero
          BY <2>1, <3>6 DEF NonzeroRuns
        <4>2. "lhs" \notin OpenedRegs("product", "opened") /\ "rhs" \notin OpenedRegs("product", "opened")
          BY DEF OpenedRegs, OpenRegs, RandomRegs, CommitRegs
        <4>3. Holds(K2, "lhs", Y) /\ Holds(K2, "rhs", W)
          BY <3>1, <4>1, <4>2 DEF Keeps
        <4>4. PICK X : X = JPairs(Y, W, o)
          OBVIOUS
        <4>5. \A p \in Party :
                 Store(p, M[p], "set_inverse_tuples", Vals(K2[p], <<"lhs", "rhs", "opened">>))
                 = [M[p] EXCEPT !["inverse_tuples"] = X[p]]
          BY <4>1, <4>3, <4>4, InverseDo
        <4>6. PICK K3, N : Runs(Cat(P, G), I, K3, N) /\ LgSet(M, N, "inverse_tuples", X)
          BY <1>0, <2>2, <4>1, <4>5, StoreRuns
        <4>7. PairsFit(X[0], X[1], n)
          BY <3>1, <3>2, <4>1, <4>4, PairsOf
        <4>8. LgOK(N)
          BY <3>1, <4>6, <4>7, LgPairs
        <4> QED BY <1>1, <2>3, <4>6, <4>8 DEF Ends
      <3> QED BY <3>4, <3>5, <3>6
    <2> QED BY <1>2, <2>5, <2>6 DEF KeysOK
  <1> QED BY <1>5, <1>6, <1>7

JBits(L, n) == [p \in Party |-> generate_shared_bits(p, L[p], n)]

JSharedBits(X, o) == [p \in Party |-> SharedBits(p, X[p], o)]

LEMMA BitsOf ==
    ASSUME KeysInField, NEW n \in Nat, NEW X, NEW v, AuthBatch(X, v, n),
           NEW o, o = PtMul(v, v), \A k \in 1..n : o[k] # Zero
    PROVE  BitsFit(JSharedBits(X, o)[0], JSharedBits(X, o)[1], n)
  <1>1. v \in [1..n -> F]
    BY DEF AuthBatch
  <1>2. \A k \in 1..n : o[k] = Times(v[k], v[k])
    BY <1>1 DEF PtMul
  <1>3. DOMAIN o = 1..n
    BY <1>1 DEF PtMul
  <1>4. PICK c, e : c = [k \in 1..n |-> Inv(Sqrt(o[k]))] /\ e = set_all(One, n)
    OBVIOUS
  <1>5. \A k \in 1..n : /\ c[k] \in F
                        /\ Times(Inv(Two), Plus(Times(c[k], v[k]), One)) \in {Zero, One}
    <2>1. ASSUME NEW k \in 1..n
          PROVE  /\ c[k] \in F
                 /\ Times(Inv(Two), Plus(Times(c[k], v[k]), One)) \in {Zero, One}
      <3>1. v[k] \in F /\ Times(v[k], v[k]) # Zero /\ c[k] = Inv(Sqrt(Times(v[k], v[k])))
        BY <1>1, <1>2, <1>4
      <3> QED BY <3>1, BitTerms
    <2> QED BY <2>1
  <1>6. c \in [1..n -> F]
    BY <1>4, <1>5
  <1>7. One \in F /\ Inv(Two) \in F
    <2>1. One \in F
      BY ScalarProducts, <1>1, FieldAssumption
    <2>2. Two \in F
      BY <2>1, Closed, CarrierFacts DEF Two
    <2> QED BY <2>1, <2>2, ScalarProducts
  <1>8. e \in [1..n -> F] /\ \A k \in 1..n : e[k] = One
    BY <1>4, <1>7 DEF set_all
  <1>9. PICK X1, X2, X3, v1, v2, v3 :
            /\ X1 = JScaleBy(X, c) /\ v1 = PtMul(c, v)
            /\ X2 = JAddPublic(X1, e) /\ v2 = PtAdd(v1, e)
            /\ X3 = JScale(X2, Inv(Two)) /\ v3 = Scaled(Inv(Two), v2)
    OBVIOUS
  <1>10. AuthBatch(X1, v1, n)
    BY <1>6, <1>9, ScaleByBatch
  <1>11. AuthBatch(X2, v2, n)
    BY <1>8, <1>9, <1>10, AddPublicBatch
  <1>12. AuthBatch(X3, v3, n)
    BY <1>7, <1>9, <1>11, ScaleBatch
  <1>13. v1 \in [1..n -> F] /\ v2 \in [1..n -> F] /\ v3 \in [1..n -> F]
    BY <1>10, <1>11, <1>12 DEF AuthBatch
  <1>14. \A k \in 1..n : v3[k] \in {Zero, One}
    <2>1. ASSUME NEW k \in 1..n PROVE v3[k] \in {Zero, One}
      <3>1. v1[k] = Times(c[k], v[k])
        BY <1>6, <1>9 DEF PtMul
      <3>2. v2[k] = Plus(v1[k], One)
        BY <1>8, <1>9, <1>13 DEF PtAdd
      <3>3. v3[k] = Times(Inv(Two), v2[k])
        BY <1>9, <1>13 DEF Scaled
      <3> QED BY <1>5, <3>1, <3>2, <3>3
    <2> QED BY <2>1
  <1>15. \A p \in Party : JSharedBits(X, o)[p] = X3[p]
    <2>1. \A p \in Party : Len(X[p]) = n
      BY BatchLen
    <2> QED BY <1>3, <1>4, <1>9, <2>1
            DEF JSharedBits, SharedBits, JScale, JAddPublic, JScaleBy
  <1>16. Joined(X3[0], X3[1]) = X3
    BY <1>12, JoinedIs
  <1>17. BitsFit(X3[0], X3[1], n)
    BY <1>12, <1>13, <1>14, <1>16 DEF BitsFit
  <1> QED BY <1>15, <1>17, PartyIs

JBitsHead(n) == Cat(JAuthRandomness(n, "vals"), JBeaver("vals", "vals", n, "squares"))

LEMMA BitsHead ==
    ASSUME DrawsInField, KeysInField, NEW I, IsJoint(I), NEW L, Lg(I) = L, LgOK(L), KeysAll(L),
           NEW m \in Nat, NEW n \in Nat \ {0}, n <= m, TriplesFit(L[0].triples, L[1].triples, m)
    PROVE  \E K, M, X, Z, v :
              /\ Runs(JBitsHead(n), I, K, M) /\ LgOK(M)
              /\ Holds(K, "vals", X) /\ Holds(K, "squares", Z)
              /\ AuthBatch(X, v, n) /\ AuthBatch(Z, PtMul(v, v), n)
  <1>0. "vals" \in Names /\ "squares" \in Names
    BY InNames
  <1>1. PICK J1, X, v : /\ Gives(JAuthRandomness(n, "vals"), I, J1, RandRegs \cup {"vals"}, L)
                        /\ Holds(J1, "vals", X) /\ AuthBatch(X, v, n)
    BY <1>0, AuthRandomnessGives
  <1>2. IsJoint(J1) /\ Lg(J1) = L
    BY <1>1, GivesFacts
  <1>3. "vals" \notin BeaverRegs /\ "vals" \notin BeaverRegs \cup {"squares"}
    BY DEF BeaverRegs, OpenRegs, RandomRegs, CommitRegs
  <1>4. PICK K, M, Z : /\ Gives(JBeaver("vals", "vals", n, "squares"), J1, K,
                                BeaverRegs \cup {"squares"}, M)
                       /\ LgOK(M) /\ Holds(K, "squares", Z) /\ AuthBatch(Z, PtMul(v, v), n)
    BY <1>0, <1>1, <1>2, <1>3, BeaverGives
  <1>5. Holds(K, "vals", X)
    BY <1>1, <1>3, <1>4, GivesKeeps
  <1>6. Runs(JBitsHead(n), I, K, M)
    <2>1. Runs(JAuthRandomness(n, "vals"), I, J1, L)
      BY <1>1, RunsFirst
    <2> QED BY <1>4, <2>1, RunsThen DEF JBitsHead
  <1> QED BY <1>1, <1>4, <1>5, <1>6

LEMMA BitsDo ==
    ASSUME NEW K, NEW L, NEW X, NEW o, Holds(K, "vals", X), Holds(K, "opened", Both(o)),
           NEW p \in Party
    PROVE  Store(p, L[p], "set_shared_bits", Vals(K[p], <<"vals", "opened">>))
           = [L[p] EXCEPT !["shared_bits"] = JSharedBits(X, o)[p]]
  <1>1. PICK x : x = Vals(K[p], <<"vals", "opened">>)
    OBVIOUS
  <1>2. x[1] = X[p] /\ x[2] = o
    <2>1. x[1] = X[p] /\ x[2] = Both(o)[p]
      BY <1>1, Args2
    <2> QED BY <2>1 DEF Both
  <1>3. Store(p, L[p], "set_shared_bits", x) = [L[p] EXCEPT !["shared_bits"] = SharedBits(p, x[1], x[2])]
    BY DEF Store
  <1> QED BY <1>1, <1>2, <1>3 DEF JSharedBits

LEMMA BitsIs ==
    ASSUME NEW L, NEW n \in Nat \ {0}, \A p \in Party : ~(num_triples(L[p]) < n)
    PROVE  JBits(L, n) = Cat(JOpenedNonzero(JBitsHead(n), "squares", n),
                             JDo("set_shared_bits", <<"vals", "opened">>, ""))
  BY DEF JBits, generate_shared_bits, Cat, JOpenedNonzero, JBitsHead, JAuthRandomness, JDo,
         JBeaver, JOpenAndCheck, JCheck

LEMMA BitsEnds ==
    ASSUME DrawsInField, KeysInField, NEW I, IsJoint(I), LgOK(Lg(I)), NEW n \in Nat
    PROVE  Ends(JBits(Lg(I), n), I)
  <1>0. /\ "vals" \in Names /\ "squares" \in Names
        /\ "opened" \in Names /\ "set_shared_bits" \in Stores
        /\ <<"vals", "opened">> \in Seq(Names)
    BY InNames, ArgLists DEF Stores
  <1>1. PICK L : L = Lg(I)
    OBVIOUS
  <1>2. KeysOK(L) /\ TriplesOK(L)
    BY <1>1, LgParts
  <1>3. PICK m \in Nat : TriplesFit(L[0].triples, L[1].triples, m)
    BY <1>2 DEF TriplesOK
  <1>4. \A p \in Party : num_triples(L[p]) = m
    BY <1>3, NumTriples
  <1>5. CASE m < n
    <2>1. JBits(L, n) = JPanic
      BY <1>4, <1>5 DEF JBits, JPanic, generate_shared_bits
    <2> QED BY <1>1, <2>1, PanicDead DEF Ends
  <1>6. CASE ~(m < n) /\ n = 0
    <2>1. JBits(L, n) = JEmpty
      BY <1>4, <1>6 DEF JBits, JEmpty, generate_shared_bits
    <2> QED BY <1>1, <2>1, EmptyRuns DEF Ends
  <1>7. CASE n # 0 /\ n <= m
    <2>0. n \in Nat \ {0}
      BY <1>7
    <2>1. PICK P : P = JOpenedNonzero(JBitsHead(n), "squares", n)
      OBVIOUS
    <2>2. PICK G : G = JDo("set_shared_bits", <<"vals", "opened">>, "")
      OBVIOUS
    <2>3. JBits(L, n) = Cat(P, G)
      <3>1. \A p \in Party : ~(num_triples(L[p]) < n)
        BY <1>4, <1>7
      <3> QED BY <2>0, <2>1, <2>2, <3>1, BitsIs
    <2>4. G \in JProgs
      BY <1>0, <2>2, InNames, InLocals, DoJoint
    <2>5. CASE \A p \in Party : L[p].other_pk = None
      <3>2. PICK G1 : G1 = JAuthRandomness(n, "vals")
        OBVIOUS
      <3>3. Dead(G1, I)
        BY <1>0, <1>1, <2>5, <3>2, AuthRandomnessDead
      <3>4. PICK G4, G5, G6 :
              /\ G4 = JBeaver("vals", "vals", n, "squares")
              /\ G5 = JOpenAndCheck("squares", n, "opened")
              /\ G6 = JCheck("nonzero", <<"opened">>)
        OBVIOUS
      <3>5. G6 \in JProgs
        BY <1>0, <3>4, InNames, InLocals, ArgLists, DoJoint
      <3>6. G4 \in JProgs /\ G5 \in JProgs
        BY <1>0, <3>4, BeaverJoint, OpenJoint
      <3>7. P = Cat(Cat(Cat(G1, G4), G5), G6)
        BY <2>1, <3>2, <3>4 DEF JOpenedNonzero, JBitsHead
      <3>8. Dead(P, I)
        BY <3>3, <3>5, <3>6, <3>7, DeadCat
      <3> QED BY <1>1, <2>3, <2>4, <3>8, DeadCat DEF Ends
    <2>6. CASE KeysAll(L)
      <3>1. PICK K, M, X, Z, v :
              /\ Runs(JBitsHead(n), I, K, M) /\ LgOK(M)
              /\ Holds(K, "vals", X) /\ Holds(K, "squares", Z)
              /\ AuthBatch(X, v, n) /\ AuthBatch(Z, PtMul(v, v), n)
        BY <1>1, <1>3, <1>7, <2>0, <2>6, BitsHead
      <3>2. PICK o : o = PtMul(v, v)
        OBVIOUS
      <3>3. "squares" \notin OpenRegs
        BY DEF OpenRegs, RandomRegs, CommitRegs
      <3>4. Dead(P, I) \/ NonzeroRuns(JBitsHead(n), "squares", n, I, K, M, o)
        BY <1>0, <2>0, <2>1, <3>1, <3>2, <3>3, OpenNonzero
      <3>5. CASE Dead(P, I)
        BY <1>1, <2>3, <2>4, <3>5, DeadCat DEF Ends
      <3>6. CASE NonzeroRuns(JBitsHead(n), "squares", n, I, K, M, o)
        <4>1. PICK K2 :
                 /\ Runs(P, I, K2, M) /\ Keeps(K, K2, OpenedRegs("squares", "opened"))
                 /\ Holds(K2, "opened", Both(o)) /\ \A k \in 1..n : o[k] # Zero
          BY <2>1, <3>6 DEF NonzeroRuns
        <4>2. "vals" \notin OpenedRegs("squares", "opened")
          BY DEF OpenedRegs, OpenRegs, RandomRegs, CommitRegs
        <4>3. Holds(K2, "vals", X)
          BY <3>1, <4>1, <4>2 DEF Keeps
        <4>4. PICK Y : Y = JSharedBits(X, o)
          OBVIOUS
        <4>5. \A p \in Party :
                 Store(p, M[p], "set_shared_bits", Vals(K2[p], <<"vals", "opened">>))
                 = [M[p] EXCEPT !["shared_bits"] = Y[p]]
          <5>1. Holds(K2, "opened", Both(o))
            BY <4>1
          <5>2. \A p \in Party :
                   Store(p, M[p], "set_shared_bits", Vals(K2[p], <<"vals", "opened">>))
                   = [M[p] EXCEPT !["shared_bits"] = JSharedBits(X, o)[p]]
            BY <4>3, <5>1, BitsDo
          <5> QED BY <4>4, <5>2
        <4>6. PICK K3, N : Runs(Cat(P, G), I, K3, N) /\ LgSet(M, N, "shared_bits", Y)
          BY <1>0, <2>2, <4>1, <4>5, StoreRuns
        <4>7. BitsFit(Y[0], Y[1], n)
          BY <3>1, <3>2, <4>1, <4>4, BitsOf
        <4>8. LgOK(N)
          BY <3>1, <4>6, <4>7, LgBits
        <4> QED BY <1>1, <2>3, <4>6, <4>8 DEF Ends
      <3> QED BY <3>4, <3>5, <3>6
    <2> QED BY <1>2, <2>5, <2>6 DEF KeysOK
  <1> QED BY <1>5, <1>6, <1>7
=============================================================================
