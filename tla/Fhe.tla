-------------------------------- MODULE Fhe ---------------------------------
(***************************************************************************)
(* The slice of the BGV cryptosystem that the offline phase uses, as the   *)
(* mp-spdz-rs bindings expose it: plaintexts with Slots slots, slot-wise   *)
(* arithmetic, and ciphertexts on which the holder of the public key       *)
(* computes.  A vector of plaintexts is the sequence of all its slots, so  *)
(* its length is a multiple of Slots.  The bindings only forward to the    *)
(* C++ library; noise, proofs of knowledge and key material are external.  *)
(***************************************************************************)
EXTENDS Field

CONSTANTS
    Slots          \* BGVParams::plaintext_slots()

ASSUME SlotsAssumption == Slots \in Nat \ {0}

\* Slot-wise plaintext arithmetic
PtAdd(x, y) == [k \in DOMAIN x |-> Plus(x[k], y[k])]
PtSub(x, y) == [k \in DOMAIN x |-> Minus(x[k], y[k])]
PtMul(x, y) == [k \in DOMAIN x |-> Times(x[k], y[k])]

\* set_all: n slots that hold the same value
set_all(v, n) == [k \in 1..n |-> v]

\* PlaintextVector::from_scalars: scalars are packed into slots, and what is
\* left of the last plaintext is zero.
from_scalars(v) ==
    LET n == Slots * ((Len(v) + Slots - 1) \div Slots)
    IN  [k \in 1..n |-> IF k <= Len(v) THEN v[k] ELSE Zero]

\* A ciphertext is bound to the key pair of the party that can decrypt it.
encrypt(owner, x) == [key |-> owner, val |-> x]

CtAddPlain(ct, x) == [ct EXCEPT !.val = PtAdd(@, x)]
CtMulPlain(ct, x) == [ct EXCEPT !.val = PtMul(@, x)]

\* Under the wrong key a ciphertext decrypts to something else.
decrypt(p, ct) ==
    IF ct.key = p THEN ct.val ELSE [k \in DOMAIN ct.val |-> Plus(ct.val[k], One)]
=============================================================================
