------------------------ MODULE LowGearHonestProofs -------------------------
(***************************************************************************)
(* Honest runs of the LowGear offline phase: what LowGearProofs says of     *)
(* the generators in lock-step, carried over to every interleaving of the   *)
(* two tasks.  LinkInv is the inductive invariant: the parties' states are  *)
(* two points of one joint run, and the wires hold what the party that is   *)
(* ahead has sent.                                                          *)
(***************************************************************************)
EXTENDS LowGearProofs

---------------------------------------------------------------------------
(* generate_input_masks                                                    *)

\* Each party makes V, its shares S of them and the mask R of their MACs, and
\* sends the rest.
OwnMacs(V, R) == [p \in Party |-> [k \in DOMAIN V[p] |-> Minus(Times(key[p], V[p][k]), R[p][k])]]
TheirShares(V, S) == [p \in Party |-> PtSub(V[p], S[p])]
MaskCt(V, R) ==
    [p \in Party |-> CtAddPlain(CtMulPlain(encrypt(1 - p, set_all(key[1 - p], Slots)),
                                           from_scalars(V[p])), R[p])]
TheirMacs(V, R) == [p \in Party |-> decrypt(p, MaskCt(V, R)[1 - p])]

OwnShares(V, S, R) == JParts(S, OwnMacs(V, R))
GivenShares(V, S, R) == JParts(Flip(TheirShares(V, S)), TheirMacs(V, R))

\* k v - m and l v + m are MAC shares of v.
LEMMA MaskTerms ==
    ASSUME NEW k \in F, NEW l \in F, NEW v \in F, NEW m \in F
    PROVE  Plus(Minus(Times(k, v), m), Plus(Times(l, v), m)) = Times(Plus(k, l), v)
  <1>1. PICK x, y \in F : x = Times(k, v) /\ y = Times(l, v)
    BY Closed, CarrierFacts
  <1>2. PICK d \in F : d = Minus(x, m)
    BY Closed, CarrierFacts
  <1>3. Plus(y, m) = Plus(m, y) /\ Plus(m, y) \in F
    BY Closed, CarrierFacts, GroupAssumption
  <1>4. Plus(d, Plus(m, y)) = Plus(Plus(d, m), y)
    BY CarrierFacts, GroupAssumption
  <1>5. Plus(d, m) = x
    BY <1>2, MinusPlus, CarrierFacts
  <1>6. Plus(x, y) = Times(Plus(k, l), v)
    BY <1>1, ModuleAssumption, CarrierFacts
  <1> QED BY <1>1, <1>2, <1>3, <1>4, <1>5, <1>6

LEMMA TheirMacsAre ==
    ASSUME KeysInField, NEW n \in Nat, n <= Slots, NEW V, IsVec(V, n), NEW R, IsVec(R, Slots),
           NEW q \in Party
    PROVE  \A k \in 1..n :
              TheirMacs(V, R)[1 - q][k] = Plus(Times(key[1 - q], V[q][k]), R[q][k])
  <1>1. PICK m \in Nat : \E Y : IsPadded(Y, V, n, m)
    BY Padded
  <1>12. PICK Y : IsPadded(Y, V, n, m)
    BY <1>1
  <1>2. from_scalars(V[q]) = Y[q] /\ \A k \in 1..n : Y[q][k] = V[q][k]
    BY <1>12 DEF IsPadded
  <1>3. PICK p \in Party : p = 1 - q /\ 1 - p = q
    BY PartyIs
  <1>4. PICK A : A = set_all(key[p], Slots)
    OBVIOUS
  <1>5. DOMAIN A = 1..Slots /\ \A k \in 1..Slots : A[k] = key[p]
    BY <1>4 DEF set_all
  <1>6. CtMulPlain(encrypt(p, A), Y[q]) = [key |-> p, val |-> PtMul(A, Y[q])]
    BY DEF CtMulPlain, encrypt
  <1>7. PICK ct : ct = [key |-> p, val |-> PtMul(A, Y[q])]
    OBVIOUS
  <1>8. MaskCt(V, R)[q] = CtAddPlain(ct, R[q])
    BY <1>2, <1>3, <1>4, <1>6, <1>7 DEF MaskCt
  <1>9. CtAddPlain(ct, R[q]) = [key |-> p, val |-> PtAdd(PtMul(A, Y[q]), R[q])]
    BY <1>7 DEF CtAddPlain
  <1>10. TheirMacs(V, R)[p] = PtAdd(PtMul(A, Y[q]), R[q])
    BY <1>3, <1>8, <1>9 DEF TheirMacs, decrypt
  <1>11. ASSUME NEW k \in 1..n
         PROVE  PtAdd(PtMul(A, Y[q]), R[q])[k] = Plus(Times(key[p], V[q][k]), R[q][k])
    <2>1. k \in 1..Slots
      BY SlotsAssumption
    <2> QED BY <1>2, <1>5, <2>1 DEF PtAdd, PtMul
  <1> QED BY <1>3, <1>10, <1>11

\* For each owner q the shares of both parties are authentic.
LEMMA MasksAuthentic ==
    ASSUME KeysInField, NEW n \in Nat, n <= Slots, NEW V, IsVec(V, n), NEW S, IsVec(S, n),
           NEW R, IsVec(R, Slots), NEW q \in Party
    PROVE  MasksFit(V[q], OwnShares(V, S, R)[q], GivenShares(V, S, R)[1 - q], n)
  <1>0. \A k \in 1..n : k \in 1..Slots
    BY SlotsAssumption
  <1>1. PICK p \in Party : p = 1 - q /\ 1 - p = q
    BY PartyIs
  <1>2. \A k \in 1..n : V[q][k] \in F /\ S[q][k] \in F /\ R[q][k] \in F
    BY <1>0 DEF IsVec
  <1>3. V[q] \in [1..n -> F] /\ S[q] \in [1..n -> F]
    BY DEF IsVec
  <1>4. key[p] \in F /\ key[q] \in F /\ Plus(key[q], key[p]) = MacKey
    <2>1. key[p] \in F /\ key[q] \in F
      BY PartyIs DEF KeysInField
    <2>2. Plus(key[1], key[0]) = Plus(key[0], key[1])
      BY CarrierFacts, GroupAssumption DEF KeysInField
    <2> QED BY <1>1, <2>1, <2>2, PartyIs DEF MacKey
  <1>5. PICK s, t, a, b : /\ s = S[q] /\ t = TheirShares(V, S)[q]
                          /\ a = OwnMacs(V, R)[q] /\ b = TheirMacs(V, R)[p]
    OBVIOUS
  <1>6. t \in [1..n -> F] /\ \A k \in 1..n : Plus(s[k], t[k]) = V[q][k]
    <2>1. t = [k \in 1..n |-> Minus(V[q][k], S[q][k])]
      BY <1>3, <1>5 DEF TheirShares, PtSub
    <2>2. \A k \in 1..n : Minus(V[q][k], S[q][k]) \in F
      BY <1>2, Closed, CarrierFacts
    <2>3. \A x, y \in F : Plus(y, Minus(x, y)) = x
      BY MinusPlus, CarrierFacts
    <2> QED BY <1>2, <1>5, <2>1, <2>2, <2>3
  <1>7. \A k \in 1..n : a[k] = Minus(Times(key[q], V[q][k]), R[q][k])
    BY <1>3, <1>5 DEF OwnMacs
  <1>8. \A k \in 1..n : b[k] = Plus(Times(key[p], V[q][k]), R[q][k])
    BY <1>1, <1>5, TheirMacsAre
  <1>9. \A k \in 1..n : a[k] \in F /\ b[k] \in F
    <2>1. \A x, y, z \in F : Minus(Times(x, y), z) \in F /\ Plus(Times(x, y), z) \in F
      BY Closed, CarrierFacts
    <2> QED BY <1>2, <1>4, <1>7, <1>8, <2>1
  <1>10. \A k \in 1..n : Plus(a[k], b[k]) = Times(MacKey, V[q][k])
    <2>1. \A x, y, v, m \in F :
             Plus(Minus(Times(x, v), m), Plus(Times(y, v), m)) = Times(Plus(x, y), v)
      BY MaskTerms
    <2> QED BY <1>2, <1>4, <1>7, <1>8, <2>1
  <1>11. PICK X, M : X = Joined(s, t) /\ M = Joined(a, b)
    OBVIOUS
  <1>12. X[0] = s /\ X[1] = t /\ M[0] = a /\ M[1] = b
    BY <1>11, PartyIs DEF Joined
  <1>13. IsVec(X, n)
    BY <1>3, <1>5, <1>6, <1>11 DEF IsVec, Joined
  <1>14. MacsOn(M, X, n)
    <2>1. \A i \in Party : \A k \in 1..n : M[i][k] \in F
      BY <1>9, <1>12, PartyIs
    <2> QED BY <1>6, <1>10, <1>12, <2>1 DEF MacsOn
  <1>15. AuthBatch(JParts(X, M), PtAdd(X[0], X[1]), n)
    BY <1>13, <1>14, FromParts
  <1>16. PtAdd(X[0], X[1]) = V[q]
    BY <1>3, <1>5, <1>6, <1>12 DEF PtAdd
  <1>17. JParts(X, M) = Joined(from_parts(s, a), from_parts(t, b))
    BY <1>11 DEF JParts, Joined
  <1>18. OwnShares(V, S, R)[q] = from_parts(s, a) /\ GivenShares(V, S, R)[p] = from_parts(t, b)
    BY <1>1, <1>5 DEF OwnShares, GivenShares, JParts, Flip
  <1>19. MasksFit(V[q], from_parts(s, a), from_parts(t, b), n)
    BY <1>3, <1>15, <1>16, <1>17 DEF MasksFit
  <1> QED BY <1>1, <1>18, <1>19

\* Masks behind those that the pools hold
LEMMA ChainMasks ==
    ASSUME NEW m \in Nat, NEW n \in Nat, NEW v, NEW x, NEW y, MasksFit(v, x, y, m),
           NEW w, NEW z, NEW t, MasksFit(w, z, t, n)
    PROVE  MasksFit(v \o w, x \o z, y \o t, m + n)
  <1>1. v \in [1..m -> F] /\ w \in [1..n -> F]
    BY DEF MasksFit
  <1>2. v \o w \in [1..(m + n) -> F]
    BY <1>1, ChainIs
  <1>3. AuthBatch(Joined(x \o z, y \o t), v \o w, m + n)
    BY ChainFits DEF MasksFit
  <1> QED BY <1>2, <1>3 DEF MasksFit

LEMMA LgMasks ==
    ASSUME NEW L, LgOK(L), NEW X, NEW M, LgSet(L, M, "input_masks", X),
           \A p \in Party : IsMasks(X[p]),
           \A p \in Party : \E n \in Nat :
              MasksFit(X[p].my_masks, X[p].my_mask_shares, X[1 - p].their_masks, n)
    PROVE  LgOK(M)
  <1>1. "input_masks" \in LgFields
    BY DEF LgFields
  <1>2. \A p \in Party : M[p].input_masks = X[p]
    <2>1. \A p \in Party : IsLg(L[p])
      BY LgParts
    <2>2. \A p \in Party : M[p]["input_masks"] = X[p]
      BY <1>1, <2>1, LgSetFacts
    <2> QED BY <2>2
  <1>3. MasksOK(M)
    BY <1>2, PartyIs DEF MasksOK
  <1>4. /\ \A p \in Party : IsLg(M[p])
        /\ KeysOK(M) /\ TriplesOK(M) /\ PairsOK(M) /\ BitsOK(M) /\ ValuesOK(M)
    BY <1>1, LgOthers
  <1> QED BY <1>2, <1>3, <1>4, LgParts

\* The input masks of L with a party's own masks added, and with the shares of
\* the counterparty's
AddOwn(m, v, x) == [m EXCEPT !.my_masks = @ \o v, !.my_mask_shares = @ \o x]
AddGiven(m, y) == [m EXCEPT !.their_masks = @ \o y]
LocalMasks(L, V, Y) == [p \in Party |-> AddOwn(L[p].input_masks, V[p], Y[p])]
GivenMasks(L, Y) == [p \in Party |-> AddGiven(L[p].input_masks, Y[p])]

LEMMA StoreMasks ==
    ASSUME NEW lg, IsLg(lg), IsMasks(lg.input_masks)
    PROVE  /\ \A v, x : add_local_masks(lg, v, x) =
                        [lg EXCEPT !["input_masks"] = AddOwn(lg.input_masks, v, x)]
           /\ \A y : add_counterparty_masks(lg, y) =
                     [lg EXCEPT !["input_masks"] = AddGiven(lg.input_masks, y)]
  <1>1. DOMAIN lg = LgFields /\ DOMAIN lg.input_masks = MaskFields
    BY DEF IsLg, IsMasks
  <1>2. "input_masks" \in DOMAIN lg
    BY <1>1 DEF LgFields
  <1>3. /\ "my_masks" \in DOMAIN lg.input_masks /\ "my_mask_shares" \in DOMAIN lg.input_masks
        /\ "their_masks" \in DOMAIN lg.input_masks
    BY <1>1 DEF MaskFields
  <1>4. \A y : add_counterparty_masks(lg, y) =
              [lg EXCEPT !["input_masks"] = AddGiven(lg.input_masks, y)]
    BY <1>2, <1>3 DEF add_counterparty_masks, AddGiven
  <1>5. \A v, x : add_local_masks(lg, v, x) =
                 [lg EXCEPT !["input_masks"] = AddOwn(lg.input_masks, v, x)]
    BY <1>2, <1>3 DEF add_local_masks, AddOwn
  <1> QED BY <1>4, <1>5

\* A step that sets field f of the LowGears
LEMMA StoreSets ==
    ASSUME NEW J, IsJoint(J), NEW L, Lg(J) = L, NEW op \in Stores, NEW args \in Seq(Names),
           NEW f, NEW X,
           \A p \in Party : Store(p, L[p], op, Vals(J[p], args)) = [L[p] EXCEPT ![f] = X[p]]
    PROVE  \E K, M, N : /\ Gives(JDo(op, args, ""), J, K, N, M) /\ LgSet(L, M, f, X) /\ N = {}
  <1>2. PICK M : M = [p \in Party |-> [L[p] EXCEPT ![f] = X[p]]]
    OBVIOUS
  <1>3. M = [p \in Party |-> M[p]] /\ \A p \in Party : M[p] = [L[p] EXCEPT ![f] = X[p]]
    BY <1>2
  <1>4. \A p \in Party : J[p].lg = L[p]
    BY DEF Lg
  <1>5. \A p \in Party : M[p] = Store(p, J[p].lg, op, Vals(J[p], args))
    BY <1>3, <1>4
  <1>6. PICK K : Gives(JDo(op, args, ""), J, K, {}, M)
    BY <1>3, <1>5, StoreGives
  <1> QED BY <1>3, <1>6 DEF LgSet

LEMMA DoOwnMacs ==
    ASSUME NEW J, IsJoint(J), NEW a \in Names, NEW b \in Names, NEW res \in Names,
           NEW A, Holds(J, a, A), NEW B, Holds(J, b, B), NEW X, X = OwnMacs(A, B),
           NEW K, K = JPut(J, res, X)
    PROVE  Gives(JDo("mask_macs", <<a, b>>, res), J, K, {res}, Lg(J)) /\ Holds(K, res, X)
  <1>1. "mask_macs" \in PureOps
    BY InPure
  <1>2. \A p \in Party : X[p] = Result(p, J[p], "mask_macs", Vals(J[p], <<a, b>>))
    <2>1. ASSUME NEW p \in Party
          PROVE  X[p] = Result(p, J[p], "mask_macs", Vals(J[p], <<a, b>>))
      <3>1. PICK w : w = Vals(J[p], <<a, b>>)
        OBVIOUS
      <3>2. w[1] = A[p] /\ w[2] = B[p]
        BY <3>1, Args2
      <3>3. Result(p, J[p], "mask_macs", w) = X[p]
        BY <3>2 DEF Result, OwnMacs
      <3> QED BY <3>1, <3>3
    <2> QED BY <2>1
  <1>3. <<a, b>> \in Seq(Names)
    BY ArgLists
  <1> QED BY <1>1, <1>2, <1>3, PureGives

JMasksHead(n) ==
    Cat(Cat(Cat(Cat(Cat(Cat(JDraw(n, "my_values"), JDraw(n, "my_share")), JDraw(Slots, "mac_mask")),
                    JDo("mask_macs", <<"my_values", "mac_mask">>, "my_mac_shares")),
                JDo("from_parts", <<"my_share", "my_mac_shares">>, "my_values_shares")),
            JDo("add_local_masks", <<"my_values", "my_values_shares">>, "")),
        JDo("difference", <<"my_values", "my_share">>, "their_share"))

\* What the first half of generate_input_masks leaves
MasksMade(J, L, M, n, V, S, R) ==
    /\ IsVec(V, n) /\ IsVec(S, n) /\ IsVec(R, Slots)
    /\ LgSet(L, M, "input_masks", LocalMasks(L, V, OwnShares(V, S, R)))
    /\ Holds(J, "my_values", V) /\ Holds(J, "mac_mask", R)
    /\ Holds(J, "their_share", TheirShares(V, S))

LEMMA MasksHead ==
    ASSUME DrawsInField, NEW I, IsJoint(I), NEW L, Lg(I) = L,
           \A p \in Party : IsLg(L[p]) /\ IsMasks(L[p].input_masks), NEW n \in Nat
    PROVE  \E J, M, V, S, R : Runs(JMasksHead(n), I, J, M) /\ MasksMade(J, L, M, n, V, S, R)
  <1>0. /\ "my_values" \in Names /\ "my_share" \in Names /\ "mac_mask" \in Names
        /\ "my_mac_shares" \in Names /\ "my_values_shares" \in Names /\ "their_share" \in Names
        /\ Slots \in Nat /\ "add_local_masks" \in Stores
    <2>1. /\ "my_values" \in Names /\ "my_share" \in Names /\ "mac_mask" \in Names
          /\ "my_mac_shares" \in Names /\ "my_values_shares" \in Names /\ "their_share" \in Names
      BY InNames
    <2> QED BY <2>1, SlotsAssumption DEF Stores
  <1>1. PICK J1, V : /\ Gives(JDraw(n, "my_values"), I, J1, {"my_values"}, L)
                     /\ Holds(J1, "my_values", V) /\ V \in [Party -> [1..n -> F]]
    BY <1>0, DrawGives
  <1>2. IsJoint(J1) /\ Lg(J1) = L
    BY <1>1, GivesFacts
  <1>3. PICK J2, S : /\ Gives(JDraw(n, "my_share"), J1, J2, {"my_share"}, L)
                     /\ Holds(J2, "my_share", S) /\ S \in [Party -> [1..n -> F]]
    <2>1. \E K, X : /\ Gives(JDraw(n, "my_share"), J1, K, {"my_share"}, Lg(J1))
                    /\ Holds(K, "my_share", X) /\ X \in [Party -> [1..n -> F]]
      BY <1>0, <1>2, DrawGives
    <2> QED BY <1>2, <2>1
  <1>4. IsJoint(J2) /\ Lg(J2) = L /\ Holds(J2, "my_values", V)
    <2>1. "my_values" \notin {"my_share"}
      OBVIOUS
    <2> QED BY <1>1, <1>3, <2>1, GivesFacts, GivesKeeps
  <1>5. PICK J3, R : /\ Gives(JDraw(Slots, "mac_mask"), J2, J3, {"mac_mask"}, L)
                     /\ Holds(J3, "mac_mask", R) /\ R \in [Party -> [1..Slots -> F]]
    <2>1. \E K, X : /\ Gives(JDraw(Slots, "mac_mask"), J2, K, {"mac_mask"}, Lg(J2))
                    /\ Holds(K, "mac_mask", X) /\ X \in [Party -> [1..Slots -> F]]
      BY <1>0, <1>4, DrawGives
    <2> QED BY <1>4, <2>1
  <1>6. IsJoint(J3) /\ Lg(J3) = L /\ Holds(J3, "my_values", V) /\ Holds(J3, "my_share", S)
    <2>1. "my_values" \notin {"mac_mask"} /\ "my_share" \notin {"mac_mask"}
      OBVIOUS
    <2> QED BY <1>3, <1>4, <1>5, <2>1, GivesFacts, GivesKeeps
  <1>7. IsVec(V, n) /\ IsVec(S, n) /\ IsVec(R, Slots)
    BY <1>1, <1>3, <1>5 DEF IsVec
  <1>8. PICK M1, Y, T : M1 = OwnMacs(V, R) /\ Y = OwnShares(V, S, R) /\ T = TheirShares(V, S)
    OBVIOUS
  <1>9. /\ M1 = OwnMacs(V, R)
        /\ \A p \in Party : Y[p] = from_parts(S[p], M1[p])
        /\ \A p \in Party : T[p] = PtSub(V[p], S[p])
    BY <1>8 DEF OwnMacs, OwnShares, TheirShares, JParts
  <1> HIDE <1>8
  <1>10. PICK J4 : /\ Gives(JDo("mask_macs", <<"my_values", "mac_mask">>, "my_mac_shares"), J3,
                            J4, {"my_mac_shares"}, L)
                   /\ Holds(J4, "my_mac_shares", M1)
    <2>1. PICK K : K = JPut(J3, "my_mac_shares", M1)
      OBVIOUS
    <2>2. Gives(JDo("mask_macs", <<"my_values", "mac_mask">>, "my_mac_shares"), J3, K,
                {"my_mac_shares"}, L) /\ Holds(K, "my_mac_shares", M1)
      <3>1. M1 = OwnMacs(V, R) /\ IsJoint(J3) /\ Holds(J3, "my_values", V)
            /\ Holds(J3, "mac_mask", R)
        BY <1>5, <1>6, <1>9
      <3>2. Gives(JDo("mask_macs", <<"my_values", "mac_mask">>, "my_mac_shares"), J3, K,
                  {"my_mac_shares"}, Lg(J3)) /\ Holds(K, "my_mac_shares", M1)
        BY <2>1, <3>1, <1>0, DoOwnMacs
      <3> QED BY <3>2, <1>6
    <2> QED BY <2>2
  <1>11. /\ IsJoint(J4) /\ Lg(J4) = L /\ Holds(J4, "my_values", V) /\ Holds(J4, "my_share", S)
         /\ Holds(J4, "mac_mask", R)
    <2>1. \A x \in {"my_values", "my_share", "mac_mask"} : x \notin {"my_mac_shares"}
      OBVIOUS
    <2> QED BY <1>5, <1>6, <1>10, <2>1, GivesFacts, GivesKeeps
  <1>12. PICK J5 : /\ Gives(JDo("from_parts", <<"my_share", "my_mac_shares">>,
                            "my_values_shares"), J4, J5, {"my_values_shares"}, L)
                   /\ Holds(J5, "my_values_shares", Y)
    <2>1. PICK K : K = JPut(J4, "my_values_shares", Y)
      OBVIOUS
    <2>2. Gives(JDo("from_parts", <<"my_share", "my_mac_shares">>, "my_values_shares"), J4, K,
                {"my_values_shares"}, L) /\ Holds(K, "my_values_shares", Y)
      BY <2>1, <1>0, <1>9, <1>10, <1>11, DoFromParts
    <2> QED BY <2>2
  <1>13. /\ IsJoint(J5) /\ Lg(J5) = L /\ Holds(J5, "my_values", V) /\ Holds(J5, "my_share", S)
         /\ Holds(J5, "mac_mask", R)
    <2>1. \A x \in {"my_values", "my_share", "mac_mask"} : x \notin {"my_values_shares"}
      OBVIOUS
    <2> QED BY <1>11, <1>12, <2>1, GivesFacts, GivesKeeps
  <1>14. PICK X : X = LocalMasks(L, V, Y)
    OBVIOUS
  <1>15. \A p \in Party :
            Store(p, L[p], "add_local_masks", Vals(J5[p], <<"my_values", "my_values_shares">>))
            = [L[p] EXCEPT !["input_masks"] = X[p]]
    <2>1. ASSUME NEW p \in Party
          PROVE  Store(p, L[p], "add_local_masks", Vals(J5[p], <<"my_values", "my_values_shares">>))
                 = [L[p] EXCEPT !["input_masks"] = X[p]]
      <3>1. PICK w : w = Vals(J5[p], <<"my_values", "my_values_shares">>)
        OBVIOUS
      <3>2. w[1] = V[p] /\ w[2] = Y[p]
        BY <1>12, <1>13, <3>1, Args2
      <3>3. Store(p, L[p], "add_local_masks", w) = add_local_masks(L[p], w[1], w[2])
        BY DEF Store
      <3>4. add_local_masks(L[p], V[p], Y[p]) = [L[p] EXCEPT !["input_masks"] = X[p]]
        BY <1>14, StoreMasks DEF LocalMasks
      <3> QED BY <3>1, <3>2, <3>3, <3>4
    <2> QED BY <2>1
  <1> HIDE <1>14
  <1>16. <<"my_values", "my_values_shares">> \in Seq(Names)
    BY <1>0, ArgLists
  <1>17. PICK J6, M, N :
            /\ Gives(JDo("add_local_masks", <<"my_values", "my_values_shares">>, ""), J5, J6, N, M)
            /\ LgSet(L, M, "input_masks", X) /\ N = {}
    BY <1>0, <1>13, <1>15, <1>16, StoreSets
  <1>18. /\ IsJoint(J6) /\ Lg(J6) = M /\ Holds(J6, "my_values", V) /\ Holds(J6, "my_share", S)
         /\ Holds(J6, "mac_mask", R)
    <2>1. \A x \in {"my_values", "my_share", "mac_mask"} : x \notin N
      BY <1>17
    <2> QED BY <1>13, <1>17, <2>1, GivesFacts, GivesKeeps
  <1>19. PICK J7 : /\ Gives(JDo("difference", <<"my_values", "my_share">>, "their_share"), J6,
                            J7, {"their_share"}, M)
                   /\ Holds(J7, "their_share", T)
    <2>1. PICK K : K = JPut(J6, "their_share", T)
      OBVIOUS
    <2>2. Gives(JDo("difference", <<"my_values", "my_share">>, "their_share"), J6, K,
                {"their_share"}, M) /\ Holds(K, "their_share", T)
      BY <2>1, <1>0, <1>9, <1>18, DoDifference
    <2> QED BY <2>2
  <1>20. Holds(J7, "my_values", V) /\ Holds(J7, "mac_mask", R)
    <2>1. \A x \in {"my_values", "mac_mask"} : x \notin {"their_share"}
      OBVIOUS
    <2> QED BY <1>18, <1>19, <2>1, GivesKeeps
  <1>21. MasksMade(J7, L, M, n, V, S, R)
    BY <1>7, <1>8, <1>14, <1>17, <1>19, <1>20 DEF MasksMade
  <1>22. Runs(JMasksHead(n), I, J7, M)
    <2>1. PICK G1, G2, G3, G4, G5, G6, G7 :
             /\ G1 = JDraw(n, "my_values") /\ G2 = JDraw(n, "my_share")
             /\ G3 = JDraw(Slots, "mac_mask")
             /\ G4 = JDo("mask_macs", <<"my_values", "mac_mask">>, "my_mac_shares")
             /\ G5 = JDo("from_parts", <<"my_share", "my_mac_shares">>, "my_values_shares")
             /\ G6 = JDo("add_local_masks", <<"my_values", "my_values_shares">>, "")
             /\ G7 = JDo("difference", <<"my_values", "my_share">>, "their_share")
      OBVIOUS
    <2>2. Runs(G1, I, J1, L)
      BY <1>1, <2>1, RunsFirst
    <2>3. Runs(Cat(G1, G2), I, J2, L)
      BY <1>3, <2>1, <2>2, RunsThen
    <2>4. Runs(Cat(Cat(G1, G2), G3), I, J3, L)
      BY <1>5, <2>1, <2>3, RunsThen
    <2>5. Runs(Cat(Cat(Cat(G1, G2), G3), G4), I, J4, L)
      BY <1>10, <2>1, <2>4, RunsThen
    <2>6. Runs(Cat(Cat(Cat(Cat(G1, G2), G3), G4), G5), I, J5, L)
      BY <1>12, <2>1, <2>5, RunsThen
    <2>7. Runs(Cat(Cat(Cat(Cat(Cat(G1, G2), G3), G4), G5), G6), I, J6, M)
      BY <1>17, <2>1, <2>6, RunsThen
    <2>8. Runs(Cat(Cat(Cat(Cat(Cat(Cat(G1, G2), G3), G4), G5), G6), G7), I, J7, M)
      BY <1>19, <2>1, <2>7, RunsThen
    <2> QED BY <2>1, <2>8 DEF JMasksHead
  <1> QED BY <1>21, <1>22

LEMMA DoMaskCt ==
    ASSUME NEW J, IsJoint(J), KeysAll(Lg(J)), NEW a \in Names, NEW b \in Names, NEW res \in Names,
           NEW A, Holds(J, a, A), NEW B, Holds(J, b, B), NEW X, X = MaskCt(A, B),
           NEW K, K = JPut(J, res, X)
    PROVE  Gives(JDo("masked_mac", <<a, b>>, res), J, K, {res}, Lg(J)) /\ Holds(K, res, X)
  <1>1. "masked_mac" \in PureOps
    BY InPure
  <1>2. ASSUME NEW p \in Party
        PROVE  X[p] = Result(p, J[p], "masked_mac", Vals(J[p], <<a, b>>))
    <2>1. PICK w : w = Vals(J[p], <<a, b>>)
      OBVIOUS
    <2>2. w[1] = A[p] /\ w[2] = B[p]
      BY <2>1, Args2
    <2>3. J[p].lg.other_mac_enc[1] = encrypt(1 - p, set_all(key[1 - p], Slots))
      <3>1. J[p].lg.other_mac_enc = Some(encrypt(1 - p, set_all(key[1 - p], Slots)))
        BY DEF KeysAll, KeysSet, Lg
      <3> QED BY <3>1 DEF Some
    <2>4. Result(p, J[p], "masked_mac", w) =
          CtAddPlain(CtMulPlain(J[p].lg.other_mac_enc[1], from_scalars(w[1])), w[2])
      BY DEF Result
    <2>5. X[p] = CtAddPlain(CtMulPlain(encrypt(1 - p, set_all(key[1 - p], Slots)),
                                       from_scalars(A[p])), B[p])
      BY DEF MaskCt
    <2> QED BY <2>1, <2>2, <2>3, <2>4, <2>5
  <1>3. <<a, b>> \in Seq(Names)
    BY ArgLists
  <1> QED BY <1>1, <1>2, <1>3, PureGives

JMasksMid(P) == Cat(Cat(P, JCheck("need_setup", <<>>)), JCheck("fits_slots", <<"my_values">>))
JMasksTail(P) ==
    Cat(Cat(Cat(Cat(Cat(Cat(P, JDo("masked_mac", <<"my_values", "mac_mask">>, "their_mac")),
                        JX("ScalarBatch", "their_share", "my_shares")),
                    JX("Bytes", "their_mac", "counterparty_macs")),
                JDo("decrypt", <<"counterparty_macs">>, "my_macs")),
            JDo("from_parts", <<"my_shares", "my_macs">>, "counterparty_shares")),
        JDo("add_counterparty_masks", <<"counterparty_shares">>, ""))
JMasks(n) == [p \in Party |-> generate_input_masks(p, n)]

LEMMA MasksIs ==
    ASSUME NEW n \in Nat, n # 0, ~(n > Slots)
    PROVE  JMasks(n) = JMasksTail(JMasksMid(JMasksHead(n)))
  BY DEF JMasks, generate_input_masks, exchange_message, Cat, JMasksTail, JMasksMid, JMasksHead, JDraw,
         JDo, JCheck, JX

\* The counterparty's masks arrive and are stored.
LEMMA MasksTail ==
    ASSUME NEW P, NEW I, NEW J, NEW L, NEW M, Runs(P, I, J, M), KeysAll(M),
           \A p \in Party : IsLg(M[p]) /\ IsMasks(M[p].input_masks),
           NEW n \in Nat, NEW V, NEW S, NEW R, MasksMade(J, L, M, n, V, S, R)
    PROVE  \E K, N : /\ Runs(JMasksTail(P), I, K, N)
                     /\ LgSet(M, N, "input_masks", GivenMasks(M, GivenShares(V, S, R)))
  <1>0. /\ "my_values" \in Names /\ "mac_mask" \in Names /\ "their_mac" \in Names
        /\ "their_share" \in Names /\ "my_shares" \in Names /\ "counterparty_macs" \in Names
        /\ "my_macs" \in Names /\ "counterparty_shares" \in Names
        /\ "ScalarBatch" \in Names /\ "Bytes" \in Names
    BY InNames
  <1>1. IsJoint(J) /\ Lg(J) = M
    BY RunsFacts
  <1>2. PICK C, T : C = MaskCt(V, R) /\ T = TheirShares(V, S)
    OBVIOUS
  <1>3. Holds(J, "my_values", V) /\ Holds(J, "mac_mask", R) /\ Holds(J, "their_share", T)
    BY <1>2 DEF MasksMade
  <1>4. KeysAll(Lg(J))
    BY <1>1
  <1>5. PICK J1 : /\ Gives(JDo("masked_mac", <<"my_values", "mac_mask">>, "their_mac"), J, J1,
                           {"their_mac"}, M)
                  /\ Holds(J1, "their_mac", C)
    <2>1. PICK K : K = JPut(J, "their_mac", C)
      OBVIOUS
    <2>2. /\ Gives(JDo("masked_mac", <<"my_values", "mac_mask">>, "their_mac"), J, K,
                   {"their_mac"}, Lg(J))
          /\ Holds(K, "their_mac", C)
      BY <1>0, <1>1, <1>2, <1>3, <1>4, <2>1, DoMaskCt
    <2> QED BY <1>1, <2>2
  <1>6. IsJoint(J1) /\ Lg(J1) = M /\ Holds(J1, "their_share", T)
    <2>1. "their_share" \notin {"their_mac"}
      OBVIOUS
    <2> QED BY <1>3, <1>5, <2>1, GivesFacts, GivesKeeps
  <1>7. PICK J2 : /\ Gives(JX("ScalarBatch", "their_share", "my_shares"), J1, J2, {"my_shares"},
                           M)
                  /\ Holds(J2, "my_shares", Flip(T))
    <2>1. PICK K : K = JPut(J1, "my_shares", Flip(T))
      OBVIOUS
    <2>2. Gives(JX("ScalarBatch", "their_share", "my_shares"), J1, K, {"my_shares"},
                M) /\ Holds(K, "my_shares", Flip(T))
      BY <2>1, <1>0, <1>6, ExchangeGives
    <2> QED BY <2>2
  <1>8. IsJoint(J2) /\ Lg(J2) = M /\ Holds(J2, "their_mac", C)
    <2>1. "their_mac" \notin {"my_shares"}
      OBVIOUS
    <2> QED BY <1>5, <1>7, <2>1, GivesFacts, GivesKeeps
  <1>9. PICK J3 : /\ Gives(JX("Bytes", "their_mac", "counterparty_macs"), J2, J3,
                           {"counterparty_macs"}, M)
                  /\ Holds(J3, "counterparty_macs", Flip(C))
    <2>1. PICK K : K = JPut(J2, "counterparty_macs", Flip(C))
      OBVIOUS
    <2>2. Gives(JX("Bytes", "their_mac", "counterparty_macs"), J2, K, {"counterparty_macs"},
                M) /\ Holds(K, "counterparty_macs", Flip(C))
      BY <2>1, <1>0, <1>8, ExchangeGives
    <2> QED BY <2>2
  <1>10. PICK U, D, Y, FC : /\ U = Flip(T) /\ FC = Flip(C) /\ D = TheirMacs(V, R)
                            /\ Y = GivenShares(V, S, R)
    OBVIOUS
  <1>11. \A p \in Party : D[p] = decrypt(p, FC[p])
    BY <1>2, <1>10 DEF TheirMacs, Flip
  <1>12. \A p \in Party : Y[p] = from_parts(U[p], D[p])
    BY <1>2, <1>10 DEF GivenShares, JParts
  <1>13. /\ IsJoint(J3) /\ Lg(J3) = M /\ Holds(J3, "my_shares", U)
         /\ Holds(J3, "counterparty_macs", FC)
    <2>1. "my_shares" \notin {"counterparty_macs"}
      OBVIOUS
    <2> QED BY <1>7, <1>9, <1>10, <2>1, GivesFacts, GivesKeeps
  <1> HIDE <1>10
  <1>14. PICK J4 : /\ Gives(JDo("decrypt", <<"counterparty_macs">>, "my_macs"), J3, J4,
                            {"my_macs"}, M)
                   /\ Holds(J4, "my_macs", D)
    <2>1. PICK K : K = JPut(J3, "my_macs", D)
      OBVIOUS
    <2>2. Gives(JDo("decrypt", <<"counterparty_macs">>, "my_macs"), J3, K, {"my_macs"},
                M) /\ Holds(K, "my_macs", D)
      BY <2>1, <1>0, <1>11, <1>13, DoDecrypt
    <2> QED BY <2>2
  <1>15. IsJoint(J4) /\ Lg(J4) = M /\ Holds(J4, "my_shares", U)
    <2>1. "my_shares" \notin {"my_macs"}
      OBVIOUS
    <2> QED BY <1>13, <1>14, <2>1, GivesFacts, GivesKeeps
  <1>16. PICK J5 : /\ Gives(JDo("from_parts", <<"my_shares", "my_macs">>,
                            "counterparty_shares"), J4, J5, {"counterparty_shares"}, M)
                   /\ Holds(J5, "counterparty_shares", Y)
    <2>1. PICK K : K = JPut(J4, "counterparty_shares", Y)
      OBVIOUS
    <2>2. Gives(JDo("from_parts", <<"my_shares", "my_macs">>, "counterparty_shares"), J4, K,
                {"counterparty_shares"}, M) /\ Holds(K, "counterparty_shares", Y)
      BY <2>1, <1>0, <1>12, <1>14, <1>15, DoFromParts
    <2> QED BY <2>2
  <1>17. IsJoint(J5) /\ Lg(J5) = M
    BY <1>16, GivesFacts
  <1>18. PICK X : X = GivenMasks(M, Y)
    OBVIOUS
  <1>19. \A p \in Party :
            Store(p, M[p], "add_counterparty_masks", Vals(J5[p], <<"counterparty_shares">>))
            = [M[p] EXCEPT !["input_masks"] = X[p]]
    <2>1. ASSUME NEW p \in Party
          PROVE  Store(p, M[p], "add_counterparty_masks", Vals(J5[p], <<"counterparty_shares">>))
                 = [M[p] EXCEPT !["input_masks"] = X[p]]
      <3>1. PICK w : w = Vals(J5[p], <<"counterparty_shares">>)
        OBVIOUS
      <3>2. w[1] = Y[p]
        BY <1>16, <3>1, Args1
      <3>3. Store(p, M[p], "add_counterparty_masks", w) = add_counterparty_masks(M[p], w[1])
        BY DEF Store
      <3>4. add_counterparty_masks(M[p], Y[p]) = [M[p] EXCEPT !["input_masks"] = X[p]]
        BY <1>18, StoreMasks DEF GivenMasks
      <3> QED BY <3>1, <3>2, <3>3, <3>4
    <2> QED BY <2>1
  <1> HIDE <1>18
  <1>20. <<"counterparty_shares">> \in Seq(Names) /\ "add_counterparty_masks" \in Stores
    BY <1>0, ArgLists DEF Stores
  <1>21. PICK K, N, Q :
            /\ Gives(JDo("add_counterparty_masks", <<"counterparty_shares">>, ""), J5, K, Q, N)
            /\ LgSet(M, N, "input_masks", X) /\ Q = {}
    BY <1>17, <1>19, <1>20, StoreSets
  <1>22. Runs(JMasksTail(P), I, K, N)
    <2>1. PICK G1, G2, G3, G4, G5, G6 :
             /\ G1 = JDo("masked_mac", <<"my_values", "mac_mask">>, "their_mac")
             /\ G2 = JX("ScalarBatch", "their_share", "my_shares")
             /\ G3 = JX("Bytes", "their_mac", "counterparty_macs")
             /\ G4 = JDo("decrypt", <<"counterparty_macs">>, "my_macs")
             /\ G5 = JDo("from_parts", <<"my_shares", "my_macs">>, "counterparty_shares")
             /\ G6 = JDo("add_counterparty_masks", <<"counterparty_shares">>, "")
      OBVIOUS
    <2>2. Runs(Cat(P, G1), I, J1, M)
      BY <1>5, <2>1, RunsThen
    <2>3. Runs(Cat(Cat(P, G1), G2), I, J2, M)
      BY <1>7, <2>1, <2>2, RunsThen
    <2>4. Runs(Cat(Cat(Cat(P, G1), G2), G3), I, J3, M)
      BY <1>9, <2>1, <2>3, RunsThen
    <2>5. Runs(Cat(Cat(Cat(Cat(P, G1), G2), G3), G4), I, J4, M)
      BY <1>14, <2>1, <2>4, RunsThen
    <2>6. Runs(Cat(Cat(Cat(Cat(Cat(P, G1), G2), G3), G4), G5), I, J5, M)
      BY <1>16, <2>1, <2>5, RunsThen
    <2>7. Runs(Cat(Cat(Cat(Cat(Cat(Cat(P, G1), G2), G3), G4), G5), G6), I, K, N)
      BY <1>21, <2>1, <2>6, RunsThen
    <2> QED BY <2>1, <2>7 DEF JMasksTail
  <1> QED BY <1>10, <1>18, <1>21, <1>22

LEMMA MasksMid ==
    ASSUME NEW P, NEW I, NEW J, NEW M, Runs(P, I, J, M), NEW n \in Nat, NEW V, IsVec(V, n),
           Holds(J, "my_values", V)
    PROVE  /\ (\A p \in Party : M[p].other_pk = None) => Dead(JMasksMid(P), I)
           /\ KeysAll(M) /\ ~(n < Slots) => Dead(JMasksMid(P), I)
           /\ KeysAll(M) /\ n < Slots => Runs(JMasksMid(P), I, J, M)
  <1>0. "my_values" \in Names
    BY InNames
  <1>1. IsJoint(J) /\ Lg(J) = M
    BY RunsFacts
  <1>2. PICK G1, G2 : G1 = JCheck("need_setup", <<>>) /\ G2 = JCheck("fits_slots", <<"my_values">>)
    OBVIOUS
  <1>3. JMasksMid(P) = Cat(Cat(P, G1), G2)
    BY <1>2 DEF JMasksMid
  <1>4. G1 \in JProgs /\ G2 \in JProgs
    BY <1>0, <1>2, InNames, InLocals, ArgLists, DoJoint
  <1>5. ASSUME \A p \in Party : M[p].other_pk = None PROVE Dead(JMasksMid(P), I)
    <2>1. \A p \in Party : J[p].lg.other_pk = None
      BY <1>1, <1>5 DEF Lg
    <2>2. Dead(G1, J)
      BY <1>1, <1>2, <2>1, SetupFails
    <2>3. Dead(Cat(P, G1), I)
      BY <2>2, RunsDead
    <2> QED BY <1>3, <1>4, <2>3, DeadCat
  <1>6. KeysAll(M) => Runs(Cat(P, G1), I, J, M)
    <2>1. ASSUME KeysAll(M) PROVE Runs(Cat(P, G1), I, J, M)
      <3>1. KeysAll(Lg(J))
        BY <1>1, <2>1
      <3>2. Gives(G1, J, J, {}, Lg(J))
        BY <1>1, <1>2, <3>1, SetupPasses
      <3>3. Runs(Cat(P, G1), I, J, Lg(J))
        BY <1>1, <3>2, RunsThen
      <3> QED BY <1>1, <3>3
    <2> QED BY <2>1
  <1>7. "fits_slots" \in Checks /\ <<"my_values">> \in Seq(Names) /\ ErrorOf("fits_slots") = "panic"
    BY <1>0, ArgLists DEF Checks, ErrorOf
  <1>8. \A p \in Party : Passes(J[p], "fits_slots", Vals(J[p], <<"my_values">>)) <=> n < Slots
    <2>1. ASSUME NEW p \in Party
          PROVE  Passes(J[p], "fits_slots", Vals(J[p], <<"my_values">>)) <=> n < Slots
      <3>1. PICK w : w = Vals(J[p], <<"my_values">>)
        OBVIOUS
      <3>2. w[1] = V[p]
        BY <3>1, Args1
      <3>3. \A f \in [1..n -> F] : Len(f) = n
        OBVIOUS
      <3>4. Len(w[1]) = n
        BY <3>2, <3>3 DEF IsVec
      <3>5. Passes(J[p], "fits_slots", w) <=> Len(w[1]) < Slots
        BY DEF Passes
      <3> QED BY <3>1, <3>4, <3>5
    <2> QED BY <2>1
  <1>9. ASSUME KeysAll(M), ~(n < Slots) PROVE Dead(JMasksMid(P), I)
    <2>1. Fails(G2, J)
      BY <1>1, <1>2, <1>7, <1>8, <1>9, CheckFails
    <2>2. Dead(G2, J)
      BY <1>4, <2>1 DEF Dead
    <2> QED BY <1>3, <1>6, <1>9, <2>2, RunsDead
  <1>10. ASSUME KeysAll(M), n < Slots PROVE Runs(JMasksMid(P), I, J, M)
    <2>1. Gives(G2, J, J, {}, Lg(J))
      BY <1>1, <1>2, <1>7, <1>8, <1>10, CheckGives
    <2>2. Runs(Cat(Cat(P, G1), G2), I, J, Lg(J))
      BY <1>6, <1>10, <2>1, RunsThen
    <2> QED BY <1>1, <1>3, <2>2
  <1> QED BY <1>5, <1>9, <1>10

LEMMA TailDead ==
    ASSUME NEW P, NEW I, Dead(P, I)
    PROVE  Dead(JMasksTail(P), I)
  <1>0. /\ "my_values" \in Names /\ "mac_mask" \in Names /\ "their_mac" \in Names
        /\ "their_share" \in Names /\ "my_shares" \in Names /\ "counterparty_macs" \in Names
        /\ "my_macs" \in Names /\ "counterparty_shares" \in Names
        /\ "ScalarBatch" \in Names /\ "Bytes" \in Names /\ "" \in Names
    BY InNames
  <1>1. PICK G1, G2, G3, G4, G5, G6 :
             /\ G1 = JDo("masked_mac", <<"my_values", "mac_mask">>, "their_mac")
             /\ G2 = JX("ScalarBatch", "their_share", "my_shares")
             /\ G3 = JX("Bytes", "their_mac", "counterparty_macs")
             /\ G4 = JDo("decrypt", <<"counterparty_macs">>, "my_macs")
             /\ G5 = JDo("from_parts", <<"my_shares", "my_macs">>, "counterparty_shares")
             /\ G6 = JDo("add_counterparty_masks", <<"counterparty_shares">>, "")
    OBVIOUS
  <1>2. G1 \in JProgs /\ G4 \in JProgs /\ G5 \in JProgs /\ G6 \in JProgs
    BY <1>0, <1>1, InLocals, ArgLists, DoJoint
  <1>3. G2 \in JProgs /\ G3 \in JProgs
    BY <1>0, <1>1, ExchangeJoint
  <1>4. JMasksTail(P) = Cat(Cat(Cat(Cat(Cat(Cat(P, G1), G2), G3), G4), G5), G6)
    BY <1>1 DEF JMasksTail
  <1> QED BY <1>2, <1>3, <1>4, DeadCat

\* Of two values stored in a field the second stays.
LEMMA LgSetTwice ==
    ASSUME NEW L, \A p \in Party : IsLg(L[p]), NEW f \in LgFields, NEW X, NEW Y, NEW M, NEW N,
           LgSet(L, M, f, X), LgSet(M, N, f, Y)
    PROVE  LgSet(L, N, f, Y)
  <1>1. ASSUME NEW p \in Party PROVE N[p] = [L[p] EXCEPT ![f] = Y[p]]
    <2>1. M[p] = [L[p] EXCEPT ![f] = X[p]] /\ N[p] = [M[p] EXCEPT ![f] = Y[p]]
      BY DEF LgSet
    <2>2. DOMAIN L[p] = LgFields
      BY DEF IsLg
    <2> QED BY <2>1, <2>2
  <1> QED BY <1>1 DEF LgSet

HasAdded(m, v, x, y, z) ==
    /\ IsMasks(z) /\ z.my_masks = m.my_masks \o v /\ z.my_mask_shares = m.my_mask_shares \o x
    /\ z.their_masks = m.their_masks \o y

LEMMA MaskParts ==
    ASSUME NEW m, IsMasks(m), NEW v, NEW x, NEW y, NEW w, w = AddOwn(m, v, x),
           NEW z, z = AddGiven(w, y)
    PROVE  IsMasks(w) /\ HasAdded(m, v, x, y, z)
  BY DEF IsMasks, MaskFields, AddOwn, AddGiven, HasAdded

LEMMA MasksEnds ==
    ASSUME DrawsInField, KeysInField, NEW I, IsJoint(I), LgOK(Lg(I)), NEW n \in Nat
    PROVE  Ends(JMasks(n), I)
  <1>1. PICK L : L = Lg(I)
    OBVIOUS
  <1>2. KeysOK(L) /\ MasksOK(L) /\ \A p \in Party : IsLg(L[p]) /\ IsMasks(L[p].input_masks)
    BY <1>1, LgParts
  <1>3. CASE n > Slots
    <2>1. JMasks(n) = JPanic
      BY <1>3 DEF JMasks, JPanic, generate_input_masks
    <2> QED BY <2>1, PanicDead DEF Ends
  <1>4. CASE ~(n > Slots) /\ n = 0
    <2>1. JMasks(n) = JEmpty
      BY <1>4 DEF JMasks, JEmpty, generate_input_masks
    <2> QED BY <2>1, EmptyRuns DEF Ends
  <1>5. CASE ~(n > Slots) /\ n # 0
    <2>1. PICK J, M, V, S, R : Runs(JMasksHead(n), I, J, M) /\ MasksMade(J, L, M, n, V, S, R)
      BY <1>1, <1>2, MasksHead
    <2>2. PICK P, Q : P = JMasksHead(n) /\ Q = JMasksMid(P)
      OBVIOUS
    <2>3. JMasks(n) = JMasksTail(Q)
      BY <1>5, <2>2, MasksIs
    <2>4. PICK X, Y, Z : /\ Y = OwnShares(V, S, R) /\ X = LocalMasks(L, V, Y)
                         /\ Z = GivenShares(V, S, R)
      OBVIOUS
    <2>5. /\ IsVec(V, n) /\ IsVec(S, n) /\ IsVec(R, Slots)
          /\ LgSet(L, M, "input_masks", X) /\ Holds(J, "my_values", V)
      BY <2>1, <2>4 DEF MasksMade
    <2>6. "input_masks" \in LgFields
      BY DEF LgFields
    <2>7. /\ \A p \in Party : IsLg(M[p]) /\ M[p]["input_masks"] = X[p]
          /\ \A p \in Party : \A g \in LgFields : g # "input_masks" => M[p][g] = L[p][g]
      BY <1>2, <2>5, <2>6, LgSetFacts
    <2>8. \A p \in Party : M[p].other_pk = L[p].other_pk /\ M[p].other_mac_enc = L[p].other_mac_enc
      <3>1. "other_pk" \in LgFields /\ "other_mac_enc" \in LgFields
        BY DEF LgFields
      <3> QED BY <2>7, <3>1
    <2>9. \A p \in Party : X[p] = AddOwn(L[p].input_masks, V[p], Y[p])
      BY <2>4 DEF LocalMasks
    <2>10. \A p \in Party : IsMasks(M[p].input_masks)
      <3>1. \A p \in Party : IsMasks(X[p])
        <4>1. ASSUME NEW p \in Party PROVE IsMasks(X[p])
          <5>1. PICK m, v, x, w, z : /\ m = L[p].input_masks /\ v = V[p] /\ x = Y[p]
                                     /\ w = AddOwn(m, v, x) /\ z = AddGiven(w, x)
            OBVIOUS
          <5>2. IsMasks(m)
            BY <1>2, <5>1
          <5>3. IsMasks(w)
            BY <5>1, <5>2, MaskParts
          <5> QED BY <2>9, <5>1, <5>3
        <4> QED BY <4>1
      <3> QED BY <2>7, <3>1
    <2>11. CASE \A p \in Party : L[p].other_pk = None
      <3>1. \A p \in Party : M[p].other_pk = None
        BY <2>8, <2>11
      <3>2. Dead(Q, I)
        BY <2>1, <2>2, <2>5, <3>1, MasksMid
      <3> QED BY <2>3, <3>2, TailDead DEF Ends
    <2>12. CASE KeysAll(L)
      <3>1. KeysAll(M)
        BY <2>8, <2>12 DEF KeysAll, KeysSet
      <3>2. CASE ~(n < Slots)
        <4>1. Dead(Q, I)
          BY <2>1, <2>2, <2>5, <3>1, <3>2, MasksMid
        <4> QED BY <2>3, <4>1, TailDead DEF Ends
      <3>3. CASE n < Slots
        <4>1. Runs(Q, I, J, M)
          BY <2>1, <2>2, <2>5, <3>1, <3>3, MasksMid
        <4>2. PICK K, N : /\ Runs(JMasksTail(Q), I, K, N)
                          /\ LgSet(M, N, "input_masks", GivenMasks(M, Z))
          BY <2>1, <2>4, <2>7, <2>10, <3>1, <4>1, MasksTail
        <4>3. PICK W : W = GivenMasks(M, Z)
          OBVIOUS
        <4>4. LgSet(L, N, "input_masks", W)
          BY <1>2, <2>5, <2>6, <4>2, <4>3, LgSetTwice
        <4>5. \A p \in Party : W[p] = AddGiven(X[p], Z[p])
          BY <2>7, <4>3 DEF GivenMasks
        <4>6. \A p \in Party :
                 /\ IsMasks(W[p])
                 /\ W[p].my_masks = L[p].input_masks.my_masks \o V[p]
                 /\ W[p].my_mask_shares = L[p].input_masks.my_mask_shares \o Y[p]
                 /\ W[p].their_masks = L[p].input_masks.their_masks \o Z[p]
          <5>1. ASSUME NEW p \in Party
                PROVE  /\ IsMasks(W[p])
                       /\ W[p].my_masks = L[p].input_masks.my_masks \o V[p]
                       /\ W[p].my_mask_shares = L[p].input_masks.my_mask_shares \o Y[p]
                       /\ W[p].their_masks = L[p].input_masks.their_masks \o Z[p]
            <6>1. PICK m, v, x, y, w, z :
                     /\ m = L[p].input_masks /\ v = V[p] /\ x = Y[p] /\ y = Z[p]
                     /\ w = AddOwn(m, v, x) /\ z = AddGiven(w, y)
              OBVIOUS
            <6>2. IsMasks(m)
              BY <1>2, <6>1
            <6>3. HasAdded(m, v, x, y, z)
              BY <6>1, <6>2, MaskParts
            <6>4. W[p] = z
              BY <2>9, <4>5, <6>1
            <6> QED BY <6>1, <6>3, <6>4 DEF HasAdded
          <5> QED BY <5>1
        <4>7. ASSUME NEW q \in Party
              PROVE  \E i \in Nat :
                        MasksFit(W[q].my_masks, W[q].my_mask_shares, W[1 - q].their_masks, i)
          <5>1. PICK m \in Nat :
                   MasksFit(L[q].input_masks.my_masks, L[q].input_masks.my_mask_shares,
                            L[1 - q].input_masks.their_masks, m)
            BY <1>2 DEF MasksOK
          <5>2. n <= Slots
            BY <3>3, SlotsAssumption
          <5>3. MasksFit(V[q], Y[q], Z[1 - q], n)
            BY <2>4, <2>5, <5>2, MasksAuthentic
          <5>4. PICK a, b, c, d, e, f :
                   /\ a = L[q].input_masks.my_masks /\ b = L[q].input_masks.my_mask_shares
                   /\ c = L[1 - q].input_masks.their_masks /\ d = V[q] /\ e = Y[q] /\ f = Z[1 - q]
            OBVIOUS
          <5>5. MasksFit(a \o d, b \o e, c \o f, m + n)
            BY <5>1, <5>3, <5>4, ChainMasks
          <5>6. /\ W[q].my_masks = a \o d /\ W[q].my_mask_shares = b \o e
                /\ W[1 - q].their_masks = c \o f
            BY <4>6, <5>4, PartyIs
          <5>7. m + n \in Nat
            OBVIOUS
          <5> QED BY <5>5, <5>6, <5>7
        <4>8. LgOK(N)
          BY <1>1, <4>4, <4>6, <4>7, LgMasks
        <4> QED BY <2>3, <4>2, <4>8 DEF Ends
      <3> QED BY <3>2, <3>3
    <2> QED BY <1>2, <2>11, <2>12 DEF KeysOK
  <1> QED BY <1>3, <1>4, <1>5, SlotsAssumption

---------------------------------------------------------------------------
(* run_key_exchange                                                        *)

JKeyExchange == [p \in Party |-> run_key_exchange(p)]

\* What each party learns
PkOf == [p \in Party |-> [owner |-> p]]
MacEncOf == [p \in Party |-> encrypt(p, set_all(key[p], Slots))]
TheirPk == [p \in Party |-> Some(1 - p)]
TheirMacEnc == [p \in Party |-> Some(encrypt(1 - p, set_all(key[1 - p], Slots)))]

LEMMA LgKeys ==
    ASSUME NEW L, LgOK(L), NEW M1, LgSet(L, M1, "other_mac_enc", TheirMacEnc),
           NEW M, LgSet(M1, M, "other_pk", TheirPk)
    PROVE  LgOK(M)
  <1>1. "other_pk" \in LgFields /\ "other_mac_enc" \in LgFields
    BY DEF LgFields
  <1>2. \A p \in Party : IsLg(L[p])
    BY LgParts
  <1>3. \A p \in Party : /\ IsLg(M1[p]) /\ M1[p]["other_mac_enc"] = TheirMacEnc[p]
                         /\ M1[p]["other_pk"] = L[p]["other_pk"]
    BY <1>1, <1>2, LgSetFacts
  <1>4. \A p \in Party : /\ M[p]["other_pk"] = TheirPk[p]
                         /\ M[p]["other_mac_enc"] = M1[p]["other_mac_enc"]
    <2>1. \A p \in Party : IsLg(M1[p])
      BY <1>3
    <2> QED BY <1>1, <2>1, LgSetFacts
  <1>5. \A p \in Party : M1[p].other_mac_enc = TheirMacEnc[p] /\ M1[p].other_pk = L[p].other_pk
    BY <1>3
  <1>6. \A p \in Party : M[p].other_mac_enc = TheirMacEnc[p] /\ M[p].other_pk = TheirPk[p]
    BY <1>4, <1>5
  <1>7. KeysOK(M1)
    <2>1. KeysOK(L)
      BY LgParts
    <2> QED BY <1>5, <2>1 DEF KeysOK, KeysAll, KeysSet, TheirMacEnc
  <1>8. /\ \A p \in Party : IsLg(M1[p]) /\ IsMasks(M1[p].input_masks)
        /\ MasksOK(M1) /\ TriplesOK(M1) /\ PairsOK(M1) /\ BitsOK(M1) /\ ValuesOK(M1)
    BY <1>1, LgOthers
  <1>9. LgOK(M1)
    BY <1>7, <1>8, LgParts
  <1>10. /\ \A p \in Party : IsLg(M[p]) /\ IsMasks(M[p].input_masks)
         /\ MasksOK(M) /\ TriplesOK(M) /\ PairsOK(M) /\ BitsOK(M) /\ ValuesOK(M)
    BY <1>1, <1>9, LgOthers
  <1>11. KeysOK(M)
    BY <1>6 DEF KeysOK, KeysAll, KeysSet, TheirMacEnc, TheirPk
  <1> QED BY <1>10, <1>11, LgParts

LEMMA KeyExchangeEnds ==
    ASSUME NEW I, IsJoint(I), LgOK(Lg(I))
    PROVE  Ends(JKeyExchange, I)
  <1>0. /\ "my_pk" \in Names /\ "their_pk" \in Names /\ "mac_pt" \in Names /\ "mac_pok" \in Names
        /\ "their_mac_pok" \in Names /\ "Bytes" \in Names
    BY InNames
  <1>1. PICK L : L = Lg(I)
    OBVIOUS
  <1>2. PICK X, E, S : /\ X = PkOf /\ E = MacEncOf
                       /\ S = [p \in Party |-> set_all(key[p], Slots)]
    OBVIOUS
  <1>3. /\ \A p \in Party : X[p] = [owner |-> p]
        /\ \A p \in Party : E[p] = encrypt(p, S[p])
        /\ \A p \in Party : S[p] = set_all(key[p], Slots)
    BY <1>2 DEF PkOf, MacEncOf
  <1> HIDE <1>2
  <1>4. PICK J1 : /\ Gives(JDo("public_key", <<>>, "my_pk"), I, J1, {"my_pk"}, L)
                  /\ Holds(J1, "my_pk", X)
    <2>1. PICK K : K = JPut(I, "my_pk", X)
      OBVIOUS
    <2>2. Gives(JDo("public_key", <<>>, "my_pk"), I, K, {"my_pk"}, L) /\ Holds(K, "my_pk", X)
      BY <2>1, <1>0, <1>1, <1>3, DoPublicKey
    <2> QED BY <2>2
  <1>5. IsJoint(J1) /\ Lg(J1) = L
    BY <1>4, GivesFacts
  <1>6. PICK J2 : /\ Gives(JX("Bytes", "my_pk", "their_pk"), J1, J2, {"their_pk"}, L)
                  /\ Holds(J2, "their_pk", Flip(X))
    <2>1. PICK K : K = JPut(J1, "their_pk", Flip(X))
      OBVIOUS
    <2>2. Gives(JX("Bytes", "my_pk", "their_pk"), J1, K, {"their_pk"}, L) /\ Holds(K,
                "their_pk", Flip(X))
      BY <2>1, <1>0, <1>4, <1>5, ExchangeGives
    <2> QED BY <2>2
  <1>7. IsJoint(J2) /\ Lg(J2) = L
    BY <1>6, GivesFacts
  <1>8. PICK J3 : /\ Gives(JDo("mac_plaintext", <<>>, "mac_pt"), J2, J3, {"mac_pt"}, L)
                  /\ Holds(J3, "mac_pt", S)
    <2>1. PICK K : K = JPut(J2, "mac_pt", S)
      OBVIOUS
    <2>2. Gives(JDo("mac_plaintext", <<>>, "mac_pt"), J2, K, {"mac_pt"}, L) /\ Holds(K,
                "mac_pt", S)
      BY <2>1, <1>0, <1>3, <1>7, DoMacPlaintext
    <2> QED BY <2>2
  <1>9. IsJoint(J3) /\ Lg(J3) = L /\ Holds(J3, "their_pk", Flip(X))
    <2>1. "their_pk" \notin {"mac_pt"}
      OBVIOUS
    <2> QED BY <1>6, <1>8, <2>1, GivesFacts, GivesKeeps
  <1>10. PICK J4 : /\ Gives(JDo("encrypt", <<"mac_pt">>, "mac_pok"), J3, J4, {"mac_pok"}, L)
                   /\ Holds(J4, "mac_pok", E)
    <2>1. PICK K : K = JPut(J3, "mac_pok", E)
      OBVIOUS
    <2>2. Gives(JDo("encrypt", <<"mac_pt">>, "mac_pok"), J3, K, {"mac_pok"}, L) /\ Holds(K,
                "mac_pok", E)
      BY <2>1, <1>0, <1>3, <1>8, <1>9, DoEncrypt
    <2> QED BY <2>2
  <1>11. IsJoint(J4) /\ Lg(J4) = L /\ Holds(J4, "their_pk", Flip(X))
    <2>1. "their_pk" \notin {"mac_pok"}
      OBVIOUS
    <2> QED BY <1>9, <1>10, <2>1, GivesFacts, GivesKeeps
  <1>12. PICK J5 : /\ Gives(JX("Bytes", "mac_pok", "their_mac_pok"), J4, J5, {"their_mac_pok"}, L)
                   /\ Holds(J5, "their_mac_pok", Flip(E))
    <2>1. PICK K : K = JPut(J4, "their_mac_pok", Flip(E))
      OBVIOUS
    <2>2. Gives(JX("Bytes", "mac_pok", "their_mac_pok"), J4, K, {"their_mac_pok"},
                L) /\ Holds(K, "their_mac_pok", Flip(E))
      BY <2>1, <1>0, <1>10, <1>11, ExchangeGives
    <2> QED BY <2>2
  <1>13. IsJoint(J5) /\ Lg(J5) = L /\ Holds(J5, "their_pk", Flip(X))
    <2>1. "their_pk" \notin {"their_mac_pok"}
      OBVIOUS
    <2> QED BY <1>11, <1>12, <2>1, GivesFacts, GivesKeeps
  <1>14. \A p \in Party : IsLg(L[p])
    BY <1>1, LgParts
  <1>15. PICK M1 : M1 = [p \in Party |-> [L[p] EXCEPT !["other_mac_enc"] = TheirMacEnc[p]]]
    OBVIOUS
  <1>16. PICK M : M = [p \in Party |-> [M1[p] EXCEPT !["other_pk"] = TheirPk[p]]]
    OBVIOUS
  <1>17. LgOK(M)
    <2>1. LgSet(L, M1, "other_mac_enc", TheirMacEnc)
      BY <1>15 DEF LgSet
    <2>2. LgSet(M1, M, "other_pk", TheirPk)
      BY <1>16 DEF LgSet
    <2> QED BY <1>1, <2>1, <2>2, LgKeys
  <1>18. ASSUME NEW p \in Party
         PROVE  M[p] = Store(p, J5[p].lg, "set_keys", Vals(J5[p], <<"their_pk", "their_mac_pok">>))
    <2>1. PICK w : w = Vals(J5[p], <<"their_pk", "their_mac_pok">>)
      OBVIOUS
    <2>2. w[1] = Flip(X)[p] /\ w[2] = Flip(E)[p]
      BY <1>12, <1>13, <2>1, Args2
    <2>3. PICK a, b : a = Some(w[1].owner) /\ b = Some(w[2])
      OBVIOUS
    <2>4. a = TheirPk[p] /\ b = TheirMacEnc[p]
      <3>1. w[1] = [owner |-> 1 - p] /\ w[2] = encrypt(1 - p, set_all(key[1 - p], Slots))
        BY <1>3, <2>2, PartyIs DEF Flip
      <3>2. w[1].owner = 1 - p
        BY <3>1
      <3> QED BY <2>3, <3>1, <3>2 DEF TheirPk, TheirMacEnc
    <2>5. J5[p].lg = L[p]
      BY <1>13 DEF Lg
    <2>6. Store(p, L[p], "set_keys", w) = [L[p] EXCEPT !.other_pk = a, !.other_mac_enc = b]
      BY <2>3 DEF Store
    <2>7. [L[p] EXCEPT !.other_pk = a, !.other_mac_enc = b] = M[p]
      <3>1. PICK lg : lg = L[p]
        OBVIOUS
      <3>2. IsLg(lg)
        BY <1>14, <3>1
      <3>3. M[p] = [[lg EXCEPT !["other_mac_enc"] = b] EXCEPT !["other_pk"] = a]
        BY <1>15, <1>16, <2>4, <3>1
      <3>4. [lg EXCEPT !.other_pk = a, !.other_mac_enc = b] = M[p]
        BY <3>2, <3>3 DEF IsLg
      <3> QED BY <3>1, <3>4
    <2> QED BY <2>1, <2>5, <2>6, <2>7
  <1>19. "set_keys" \in Stores /\ <<"their_pk", "their_mac_pok">> \in Seq(Names)
    BY <1>0, ArgLists DEF Stores
  <1>20. M = [p \in Party |-> M[p]]
    BY <1>16
  <1>21. PICK J6 : Gives(JDo("set_keys", <<"their_pk", "their_mac_pok">>, ""), J5, J6, {}, M)
    BY <1>13, <1>18, <1>19, <1>20, StoreGives
  <1>22. Runs(JKeyExchange, I, J6, M)
    <2>1. PICK G1, G2, G3, G4, G5, G6 :
             /\ G1 = JDo("public_key", <<>>, "my_pk") /\ G2 = JX("Bytes", "my_pk", "their_pk")
             /\ G3 = JDo("mac_plaintext", <<>>, "mac_pt")
             /\ G4 = JDo("encrypt", <<"mac_pt">>, "mac_pok")
             /\ G5 = JX("Bytes", "mac_pok", "their_mac_pok")
             /\ G6 = JDo("set_keys", <<"their_pk", "their_mac_pok">>, "")
      OBVIOUS
    <2>2. Runs(G1, I, J1, L)
      BY <1>4, <2>1, RunsFirst
    <2>3. Runs(Cat(G1, G2), I, J2, L)
      BY <1>6, <2>1, <2>2, RunsThen
    <2>4. Runs(Cat(Cat(G1, G2), G3), I, J3, L)
      BY <1>8, <2>1, <2>3, RunsThen
    <2>5. Runs(Cat(Cat(Cat(G1, G2), G3), G4), I, J4, L)
      BY <1>10, <2>1, <2>4, RunsThen
    <2>6. Runs(Cat(Cat(Cat(Cat(G1, G2), G3), G4), G5), I, J5, L)
      BY <1>12, <2>1, <2>5, RunsThen
    <2>7. Runs(Cat(Cat(Cat(Cat(Cat(G1, G2), G3), G4), G5), G6), I, J6, M)
      BY <1>21, <2>1, <2>6, RunsThen
    <2>8. JKeyExchange = Cat(Cat(Cat(Cat(Cat(G1, G2), G3), G4), G5), G6)
      BY <2>1 DEF JKeyExchange, run_key_exchange, exchange_message, Cat, JDo, JX
    <2> QED BY <2>7, <2>8
  <1> QED BY <1>17, <1>22 DEF Ends
---------------------------------------------------------------------------
(* The calls                                                               *)

\* The joint program of a generator
JProgram(J, call) == [p \in Party |-> Program(p, J[p].lg, call)]

LEMMA ProgramEnds ==
    ASSUME DrawsInField, KeysInField, NEW J, IsJoint(J), LgOK(Lg(J)),
           NEW call \in Calls, call.op \in Generators
    PROVE  Ends(JProgram(J, call), J)
  <1>1. call.op \notin {"run_key_exchange", "generate_triples"} => call.n \in Nat
    BY DEF Calls, Generators
  <1>2. CASE call.op = "run_key_exchange"
    <2>1. JProgram(J, call) = JKeyExchange
      BY <1>2 DEF JProgram, JKeyExchange, Program
    <2> QED BY <2>1, KeyExchangeEnds
  <1>3. CASE call.op = "generate_triples"
    <2>1. JProgram(J, call) = JTriples
      BY <1>3 DEF JProgram, JTriples, Program
    <2> QED BY <2>1, TriplesEnds
  <1>4. CASE call.op = "generate_inverse_tuples"
    <2>1. JProgram(J, call) = JInverse(Lg(J), call.n)
      BY <1>4 DEF JProgram, JInverse, Program, Lg
    <2> QED BY <1>1, <1>4, <2>1, InverseEnds
  <1>5. CASE call.op = "generate_shared_bits"
    <2>1. JProgram(J, call) = JBits(Lg(J), call.n)
      BY <1>5 DEF JProgram, JBits, Program, Lg
    <2> QED BY <1>1, <1>5, <2>1, BitsEnds
  <1>6. CASE call.op = "generate_shared_randomness"
    <2>1. JProgram(J, call) = JSharedRandomness(call.n)
      BY <1>6 DEF JProgram, JSharedRandomness, Program
    <2> QED BY <1>1, <1>6, <2>1, SharedRandomnessEnds
  <1>7. CASE call.op = "generate_input_masks"
    <2>1. JProgram(J, call) = JMasks(call.n)
      BY <1>7 DEF JProgram, JMasks, Program
    <2> QED BY <1>1, <1>7, <2>1, MasksEnds
  <1> QED BY <1>2, <1>3, <1>4, <1>5, <1>6, <1>7 DEF Generators

LEMMA CatEmpty ==
    ASSUME NEW G \in JProgs
    PROVE  JEmpty \in JProgs /\ Cat(G, JEmpty) = G
  <1>1. \A g \in Progs : g \o <<>> = g
    BY DEF Progs
  <1>2. G = [p \in Party |-> G[p]] /\ \A p \in Party : G[p] \in Progs
    BY DEF JProgs
  <1>3. JEmpty \in JProgs
    BY DEF JEmpty, JProgs, Progs
  <1>4. \A p \in Party : Cat(G, JEmpty)[p] = G[p]
    BY <1>1, <1>2 DEF Cat, JEmpty
  <1> QED BY <1>2, <1>3, <1>4 DEF Cat

\* Where a program that ends leaves the parties
LEMMA EndsSafe ==
    ASSUME NEW J, IsJoint(J), PrepOK(Prep(J)), J[0].calls \in Seq(Calls), NEW G, Ends(G, J)
    PROVE  Safe(With(J, G)) /\ G \in JProgs
  <1>1. CASE Dead(G, J)
    <2>1. G \in JProgs /\ Fails(G, J)
      BY <1>1 DEF Dead
    <2>2. Safe(With(J, Cat(G, JEmpty)))
      BY <2>1, CatEmpty DEF Fails
    <2> QED BY <2>1, <2>2, CatEmpty
  <1>2. ASSUME NEW K, NEW M, Runs(G, J, K, M), LgOK(M)
        PROVE  Safe(With(J, G)) /\ G \in JProgs
    <2>1. PICK S : Gives(G, J, K, S, M)
      BY <1>2 DEF Runs
    <2>2. /\ G \in JProgs /\ IsJoint(K) /\ Exec(G, J, K) /\ Lg(K) = M
          /\ \A p \in Party : K[p].prep = J[p].prep /\ K[p].calls = J[p].calls
      BY <2>1 DEF Gives
    <2>3. PICK A : A = With(K, JEmpty)
      OBVIOUS
    <2>4. IsJoint(A) /\ \A p \in Party : A[p] = SetProg(K[p], JEmpty[p]) /\ A[p].prog = JEmpty[p]
      BY <2>2, <2>3, WithJoint
    <2>5. \A p \in Party : IsState(K[p])
      BY <2>2 DEF IsJoint
    <2>6. \A p \in Party : A[p].lg = K[p].lg /\ A[p].prep = J[p].prep /\ A[p].calls = J[p].calls
      BY <2>2, <2>4, <2>5, SetProgFacts
    <2>7. Lg(A) = Lg(K) /\ Prep(A) = Prep(J)
      BY <2>6 DEF Lg, Prep
    <2>8. Between(A)
      BY <1>2, <2>2, <2>4, <2>6, <2>7, PartyIs DEF Between, JEmpty
    <2>9. Safe(With(J, Cat(G, JEmpty)))
      BY <2>2, <2>3, <2>8, SafeEnd, CatEmpty DEF Exec
    <2> QED BY <2>2, <2>9, CatEmpty
  <1> QED BY <1>1, <1>2 DEF Ends
\* Values that fit are what the online phase expects.
LEMMA BatchValid ==
    ASSUME NEW n \in Nat, NEW x, NEW y, NEW v, AuthBatch(Joined(x, y), v, n)
    PROVE  /\ AllValid(x, y) /\ x \in [1..n -> ShareOf(F)] /\ y \in [1..n -> ShareOf(F)]
           /\ v \in [1..n -> F] /\ DOMAIN x = 1..n /\ Len(x) = n /\ Len(y) = n
           /\ \A k \in 1..n : Reconstruct(x[k], y[k]) = v[k]
  <1>1. PICK X : X = Joined(x, y)
    OBVIOUS
  <1>2. X[0] = x /\ X[1] = y
    BY <1>1, PartyIs DEF Joined
  <1>3. x \in [1..n -> ShareOf(F)] /\ y \in [1..n -> ShareOf(F)] /\ v \in [1..n -> F]
    BY <1>1, <1>2, PartyIs DEF AuthBatch
  <1>4. Len(x) = n /\ Len(y) = n /\ DOMAIN x = 1..n
    BY <1>3
  <1>5. ASSUME NEW k \in 1..n PROVE Reconstruct(x[k], y[k]) = v[k] /\ Valid(x[k], y[k])
    <2>1. PICK C : C = Col(X, k)
      OBVIOUS
    <2>2. Authentic(C, v[k], F)
      BY <1>1, <2>1 DEF AuthBatch
    <2>3. C[0] = x[k] /\ C[1] = y[k]
      BY <1>2, <2>1, PartyIs DEF Col
    <2> QED BY <2>2, <2>3 DEF Authentic, Open, Reconstruct, Valid
  <1> QED BY <1>3, <1>4, <1>5 DEF AllValid

LEMMA TriplesValid ==
    ASSUME NEW n \in Nat, NEW t, NEW u, TriplesFit(t, u, n)
    PROVE  ValidTriples(t, u)
  <1>1. t = [a |-> t.a, b |-> t.b, c |-> t.c]
    BY DEF TriplesFit
  <1>2. PICK x, y \in [1..n -> F] :
          /\ AuthBatch(Joined(t.a, u.a), x, n) /\ AuthBatch(Joined(t.b, u.b), y, n)
          /\ AuthBatch(Joined(t.c, u.c), PtMul(x, y), n)
    BY DEF TriplesFit
  <1>3. /\ AllValid(t.a, u.a) /\ AllValid(t.b, u.b) /\ AllValid(t.c, u.c) /\ DOMAIN t.a = 1..n
        /\ \A k \in 1..n : /\ Reconstruct(t.a[k], u.a[k]) = x[k]
                           /\ Reconstruct(t.b[k], u.b[k]) = y[k]
                           /\ Reconstruct(t.c[k], u.c[k]) = PtMul(x, y)[k]
    BY <1>2, BatchValid
  <1>4. \A k \in 1..n : PtMul(x, y)[k] = Times(x[k], y[k])
    BY DEF PtMul
  <1>5. DOMAIN t = {"a", "b", "c"}
    BY <1>1
  <1> QED BY <1>3, <1>4, <1>5 DEF ValidTriples

LEMMA PairsValid ==
    ASSUME NEW n \in Nat, NEW t, NEW u, PairsFit(t, u, n)
    PROVE  ValidPairs(t, u)
  <1>1. t = [lhs |-> t.lhs, rhs |-> t.rhs]
    BY DEF PairsFit
  <1>2. PICK x, y \in [1..n -> F] :
          /\ AuthBatch(Joined(t.lhs, u.lhs), x, n) /\ AuthBatch(Joined(t.rhs, u.rhs), y, n)
          /\ \A k \in 1..n : Times(x[k], y[k]) = One
    BY DEF PairsFit
  <1>3. /\ AllValid(t.lhs, u.lhs) /\ AllValid(t.rhs, u.rhs) /\ DOMAIN t.lhs = 1..n
        /\ \A k \in 1..n : /\ Reconstruct(t.lhs[k], u.lhs[k]) = x[k]
                           /\ Reconstruct(t.rhs[k], u.rhs[k]) = y[k]
    BY <1>2, BatchValid
  <1>5. DOMAIN t = {"lhs", "rhs"}
    BY <1>1
  <1> QED BY <1>2, <1>3, <1>5 DEF ValidPairs

LEMMA BitsValid ==
    ASSUME NEW n \in Nat, NEW x, NEW y, BitsFit(x, y, n)
    PROVE  ValidBits(x, y)
  <1>1. PICK v \in [1..n -> F] :
          AuthBatch(Joined(x, y), v, n) /\ \A k \in 1..n : v[k] \in {Zero, One}
    BY DEF BitsFit
  <1>2. AllValid(x, y) /\ DOMAIN x = 1..n /\ \A k \in 1..n : Reconstruct(x[k], y[k]) = v[k]
    BY <1>1, BatchValid
  <1> QED BY <1>1, <1>2 DEF ValidBits

LEMMA ValuesValid ==
    ASSUME NEW n \in Nat, NEW x, NEW y, ValuesFit(x, y, n)
    PROVE  AllValid(x, y)
  BY BatchValid DEF ValuesFit

LEMMA MasksValid ==
    ASSUME NEW n \in Nat, NEW m, NEW x, NEW y, MasksFit(m, x, y, n)
    PROVE  ValidMasks(m, x, y)
  <1>1. AuthBatch(Joined(x, y), m, n) /\ m \in [1..n -> F]
    BY DEF MasksFit
  <1>2. /\ AllValid(x, y) /\ DOMAIN x = 1..n /\ Len(x) = n
        /\ \A k \in 1..n : Reconstruct(x[k], y[k]) = m[k]
    BY <1>1, BatchValid
  <1>3. Len(m) = n
    BY <1>1
  <1> QED BY <1>2, <1>3 DEF ValidMasks

\* A record of pools of length m
IsPool(t, m) ==
    /\ t = [f \in DOMAIN t |-> t[f]] /\ DOMAIN t # {}
    /\ \A f \in DOMAIN t : \E S : OfLen(t[f], m, S)

LEMMA PoolSize ==
    ASSUME NEW m \in Nat, NEW t, IsPool(t, m)
    PROVE  SizeOf(t) = m
  <1>1. PICK f : f = CHOOSE g \in DOMAIN t : TRUE
    OBVIOUS
  <1>2. f \in DOMAIN t
    BY <1>1 DEF IsPool
  <1>3. PICK S : OfLen(t[f], m, S)
    BY <1>2 DEF IsPool
  <1>4. Len(t[f]) = m
    BY <1>3 DEF OfLen
  <1> QED BY <1>1, <1>4 DEF SizeOf

LEMMA PoolSplit ==
    ASSUME NEW m \in Nat, NEW t, IsPool(t, m), NEW n \in Nat, n <= m
    PROVE  Leave(t, n) = Slices(t, 0, m - n) /\ Take(t, n) = Slices(t, m - n, n)
  <1>1. ASSUME NEW f \in DOMAIN t
        PROVE  Stays(t[f], n) = Slice(t[f], 0, m - n) /\ split_off(t[f], n) = Slice(t[f], m - n, n)
    <2>1. PICK S : OfLen(t[f], m, S)
      BY DEF IsPool
    <2>2. PICK g : g = t[f]
      OBVIOUS
    <2>3. g \in [1..m -> S]
      BY <2>1, <2>2 DEF OfLen
    <2> QED BY <2>2, <2>3, SplitIs
  <1> QED BY <1>1 DEF Leave, Take, Slices

LEMMA TriplesPool ==
    ASSUME NEW n \in Nat, NEW t, NEW u, TriplesFit(t, u, n)
    PROVE  IsPool(t, n) /\ IsPool(u, n)
  <1>1. t = [a |-> t.a, b |-> t.b, c |-> t.c] /\ u = [a |-> u.a, b |-> u.b, c |-> u.c]
    BY DEF TriplesFit
  <1>2. PICK x, y \in [1..n -> F] :
          /\ AuthBatch(Joined(t.a, u.a), x, n) /\ AuthBatch(Joined(t.b, u.b), y, n)
          /\ AuthBatch(Joined(t.c, u.c), PtMul(x, y), n)
    BY DEF TriplesFit
  <1>3. \A h \in {t.a, t.b, t.c, u.a, u.b, u.c} : OfLen(h, n, ShareOf(F))
    BY <1>2, BatchValid DEF OfLen
  <1>4. DOMAIN t = {"a", "b", "c"} /\ DOMAIN u = {"a", "b", "c"}
    BY <1>1
  <1>5. t = [f \in DOMAIN t |-> t[f]] /\ u = [f \in DOMAIN u |-> u[f]]
    BY <1>1
  <1> QED BY <1>3, <1>4, <1>5 DEF IsPool

LEMMA PairsPool ==
    ASSUME NEW n \in Nat, NEW t, NEW u, PairsFit(t, u, n)
    PROVE  IsPool(t, n) /\ IsPool(u, n)
  <1>1. t = [lhs |-> t.lhs, rhs |-> t.rhs] /\ u = [lhs |-> u.lhs, rhs |-> u.rhs]
    BY DEF PairsFit
  <1>2. PICK x, y \in [1..n -> F] :
          /\ AuthBatch(Joined(t.lhs, u.lhs), x, n) /\ AuthBatch(Joined(t.rhs, u.rhs), y, n)
    BY DEF PairsFit
  <1>3. \A h \in {t.lhs, t.rhs, u.lhs, u.rhs} : OfLen(h, n, ShareOf(F))
    BY <1>2, BatchValid DEF OfLen
  <1>4. DOMAIN t = {"lhs", "rhs"} /\ DOMAIN u = {"lhs", "rhs"}
    BY <1>1
  <1>5. t = [f \in DOMAIN t |-> t[f]] /\ u = [f \in DOMAIN u |-> u[f]]
    BY <1>1
  <1> QED BY <1>3, <1>4, <1>5 DEF IsPool
LEMMA BitsPool ==
    ASSUME NEW n \in Nat, NEW x, NEW y, BitsFit(x, y, n),
           NEW t, t = [bit |-> x], NEW u, u = [bit |-> y]
    PROVE  IsPool(t, n) /\ IsPool(u, n)
  <1>1. PICK v : AuthBatch(Joined(x, y), v, n)
    BY DEF BitsFit
  <1>2. OfLen(x, n, ShareOf(F)) /\ OfLen(y, n, ShareOf(F))
    BY <1>1, BatchValid DEF OfLen
  <1>3. DOMAIN t = {"bit"} /\ DOMAIN u = {"bit"} /\ t["bit"] = x /\ u["bit"] = y
    OBVIOUS
  <1> QED BY <1>2, <1>3 DEF IsPool

LEMMA ValuesPool ==
    ASSUME NEW n \in Nat, NEW x, NEW y, ValuesFit(x, y, n),
           NEW t, t = [val |-> x], NEW u, u = [val |-> y]
    PROVE  IsPool(t, n) /\ IsPool(u, n)
  <1>1. PICK v : AuthBatch(Joined(x, y), v, n)
    BY DEF ValuesFit
  <1>2. OfLen(x, n, ShareOf(F)) /\ OfLen(y, n, ShareOf(F))
    BY <1>1, BatchValid DEF OfLen
  <1>3. DOMAIN t = {"val"} /\ DOMAIN u = {"val"} /\ t["val"] = x /\ u["val"] = y
    OBVIOUS
  <1> QED BY <1>2, <1>3 DEF IsPool

LEMMA MasksPool ==
    ASSUME NEW n \in Nat, NEW m, NEW x, NEW y, MasksFit(m, x, y, n),
           NEW t, t = [mask |-> m, share |-> x], NEW u, u = [share |-> y]
    PROVE  IsPool(t, n) /\ IsPool(u, n)
  <1>1. AuthBatch(Joined(x, y), m, n) /\ m \in [1..n -> F]
    BY DEF MasksFit
  <1>2. OfLen(x, n, ShareOf(F)) /\ OfLen(y, n, ShareOf(F)) /\ OfLen(m, n, F)
    BY <1>1, BatchValid DEF OfLen
  <1>3. /\ DOMAIN t = {"mask", "share"} /\ DOMAIN u = {"share"}
        /\ t["mask"] = m /\ t["share"] = x /\ u["share"] = y
    OBVIOUS
  <1>4. t = [f \in DOMAIN t |-> t[f]] /\ u = [f \in DOMAIN u |-> u[f]]
    OBVIOUS
  <1> QED BY <1>2, <1>3, <1>4 DEF IsPool

\* What the store holds, by its fields
PrepFields == {"triplets", "inverse_pairs", "bits", "values", "local", "theirs"}
IsPrep(x) == DOMAIN x = PrepFields /\ x = [f \in PrepFields |-> x[f]]

PoolsAt(x) ==
    /\ x.bits = [bit |-> x.bits.bit] /\ x.values = [val |-> x.values.val]
    /\ x.local = [mask |-> x.local.mask, share |-> x.local.share]
    /\ x.theirs = [share |-> x.theirs.share]

PrepTriples(P) == \E n \in Nat : TriplesFit(P[0].triplets, P[1].triplets, n)
PrepPairs(P) == \E n \in Nat : PairsFit(P[0].inverse_pairs, P[1].inverse_pairs, n)
PrepBits(P) == \E n \in Nat : BitsFit(P[0].bits.bit, P[1].bits.bit, n)
PrepValues(P) == \E n \in Nat : ValuesFit(P[0].values.val, P[1].values.val, n)
PrepMasks(P, p) == \E n \in Nat :
    MasksFit(P[p].local.mask, P[p].local.share, P[1 - p].theirs.share, n)

LEMMA IsPrepRecord ==
    ASSUME NEW x
    PROVE  IsPrep(x) <=> x = [triplets |-> x.triplets, inverse_pairs |-> x.inverse_pairs,
                              bits |-> x.bits, values |-> x.values,
                              local |-> x.local, theirs |-> x.theirs]
  <1>1. ASSUME IsPrep(x)
        PROVE  x = [triplets |-> x.triplets, inverse_pairs |-> x.inverse_pairs,
                    bits |-> x.bits, values |-> x.values,
                    local |-> x.local, theirs |-> x.theirs]
    BY <1>1 DEF IsPrep, PrepFields
  <1>2. ASSUME x = [triplets |-> x.triplets, inverse_pairs |-> x.inverse_pairs,
                    bits |-> x.bits, values |-> x.values,
                    local |-> x.local, theirs |-> x.theirs]
        PROVE  IsPrep(x)
    BY <1>2 DEF IsPrep, PrepFields
  <1> QED BY <1>1, <1>2

LEMMA PrepParts ==
    ASSUME NEW P
    PROVE  PrepOK(P) <=> /\ \A p \in Party : IsPrep(P[p]) /\ PoolsAt(P[p]) /\ PrepMasks(P, p)
                         /\ PrepTriples(P) /\ PrepPairs(P) /\ PrepBits(P) /\ PrepValues(P)
  <1>1. ASSUME NEW p \in Party
        PROVE  IsPrep(P[p]) <=>
                 P[p] = [triplets |-> P[p].triplets, inverse_pairs |-> P[p].inverse_pairs,
                         bits |-> P[p].bits, values |-> P[p].values,
                         local |-> P[p].local, theirs |-> P[p].theirs]
    BY IsPrepRecord
  <1> QED BY <1>1 DEF PrepOK, PoolsAt, PrepMasks, PrepTriples, PrepPairs, PrepBits, PrepValues

\* One pool of a store replaced
LEMMA PrepExcept ==
    ASSUME NEW x, IsPrep(x), NEW f \in PrepFields, NEW w, NEW y, y = [x EXCEPT ![f] = w]
    PROVE  IsPrep(y) /\ y[f] = w /\ \A g \in PrepFields : g # f => y[g] = x[g]
  BY DEF IsPrep

\* Two stores that agree but for pool f
Others(x, y, f) == \A g \in PrepFields : g # f => y[g] = x[g]

LEMMA PrepTriplesSet ==
    ASSUME NEW P, PrepOK(P), NEW Q, \A p \in Party : IsPrep(Q[p]), NEW f \in PrepFields,
           \A p \in Party : Others(P[p], Q[p], f),
           (f = "triplets" /\ PrepTriples(Q)) \/ (f = "inverse_pairs" /\ PrepPairs(Q))
    PROVE  PrepOK(Q)
  <1>1. /\ \A p \in Party : IsPrep(P[p]) /\ PoolsAt(P[p]) /\ PrepMasks(P, p)
        /\ PrepTriples(P) /\ PrepPairs(P) /\ PrepBits(P) /\ PrepValues(P)
    BY PrepParts
  <1>2. \A p \in Party : /\ Q[p].bits = P[p].bits /\ Q[p].values = P[p].values
                         /\ Q[p].local = P[p].local /\ Q[p].theirs = P[p].theirs
    BY DEF PrepFields, Others
  <1>3. ASSUME NEW p \in Party PROVE PoolsAt(Q[p]) /\ PrepMasks(Q, p)
    <2>1. PoolsAt(P[p]) /\ PrepMasks(P, p)
      BY <1>1
    <2>2. PoolsAt(Q[p])
      BY <1>2, <2>1 DEF PoolsAt
    <2>3. PrepMasks(Q, p)
      BY <1>2, <2>1, PartyIs DEF PrepMasks
    <2> QED BY <2>2, <2>3
  <1>4. PrepBits(Q) /\ PrepValues(Q)
    BY <1>1, <1>2, PartyIs DEF PrepBits, PrepValues
  <1>5. PrepTriples(Q)
    <2>1. CASE f = "triplets"
      BY <2>1
    <2>2. CASE f # "triplets"
      <3>1. \A p \in Party : Q[p].triplets = P[p].triplets
        BY <2>2 DEF PrepFields, Others
      <3> QED BY <1>1, <3>1, PartyIs DEF PrepTriples
    <2> QED BY <2>1, <2>2
  <1>6. PrepPairs(Q)
    <2>1. CASE f = "inverse_pairs"
      BY <2>1
    <2>2. CASE f # "inverse_pairs"
      <3>1. \A p \in Party : Q[p].inverse_pairs = P[p].inverse_pairs
        BY <2>2 DEF PrepFields, Others
      <3> QED BY <1>1, <3>1, PartyIs DEF PrepPairs
    <2> QED BY <2>1, <2>2
  <1> QED BY <1>1, <1>3, <1>4, <1>5, <1>6, PrepParts
LEMMA PrepBitsSet ==
    ASSUME NEW P, PrepOK(P), NEW Q, \A p \in Party : IsPrep(Q[p]),
           \A p \in Party : Others(P[p], Q[p], "bits"),
           \A p \in Party : Q[p].bits = [bit |-> Q[p].bits.bit], PrepBits(Q)
    PROVE  PrepOK(Q)
  <1>1. /\ \A p \in Party : IsPrep(P[p]) /\ PoolsAt(P[p]) /\ PrepMasks(P, p)
        /\ PrepTriples(P) /\ PrepPairs(P) /\ PrepBits(P) /\ PrepValues(P)
    BY PrepParts
  <1>2. \A p \in Party : /\ Q[p].triplets = P[p].triplets /\ Q[p].values = P[p].values
                         /\ Q[p].inverse_pairs = P[p].inverse_pairs
                         /\ Q[p].local = P[p].local /\ Q[p].theirs = P[p].theirs
    BY DEF PrepFields, Others
  <1>3. ASSUME NEW p \in Party PROVE PoolsAt(Q[p]) /\ PrepMasks(Q, p)
    <2>1. PoolsAt(P[p]) /\ PrepMasks(P, p)
      BY <1>1
    <2>2. PoolsAt(Q[p])
      BY <1>2, <2>1 DEF PoolsAt
    <2>3. PrepMasks(Q, p)
      BY <1>2, <2>1, PartyIs DEF PrepMasks
    <2> QED BY <2>2, <2>3
  <1>4. PrepTriples(Q) /\ PrepPairs(Q) /\ PrepValues(Q)
    BY <1>1, <1>2, PartyIs DEF PrepTriples, PrepPairs, PrepValues
  <1> QED BY <1>3, <1>4, PrepParts

LEMMA PrepValuesSet ==
    ASSUME NEW P, PrepOK(P), NEW Q, \A p \in Party : IsPrep(Q[p]),
           \A p \in Party : Others(P[p], Q[p], "values"),
           \A p \in Party : Q[p].values = [val |-> Q[p].values.val], PrepValues(Q)
    PROVE  PrepOK(Q)
  <1>1. /\ \A p \in Party : IsPrep(P[p]) /\ PoolsAt(P[p]) /\ PrepMasks(P, p)
        /\ PrepTriples(P) /\ PrepPairs(P) /\ PrepBits(P) /\ PrepValues(P)
    BY PrepParts
  <1>2. \A p \in Party : /\ Q[p].triplets = P[p].triplets /\ Q[p].bits = P[p].bits
                         /\ Q[p].inverse_pairs = P[p].inverse_pairs
                         /\ Q[p].local = P[p].local /\ Q[p].theirs = P[p].theirs
    BY DEF PrepFields, Others
  <1>3. ASSUME NEW p \in Party PROVE PoolsAt(Q[p]) /\ PrepMasks(Q, p)
    <2>1. PoolsAt(P[p]) /\ PrepMasks(P, p)
      BY <1>1
    <2>2. PoolsAt(Q[p])
      BY <1>2, <2>1 DEF PoolsAt
    <2>3. PrepMasks(Q, p)
      BY <1>2, <2>1, PartyIs DEF PrepMasks
    <2> QED BY <2>2, <2>3
  <1>4. PrepTriples(Q) /\ PrepPairs(Q) /\ PrepBits(Q)
    BY <1>1, <1>2, PartyIs DEF PrepTriples, PrepPairs, PrepBits
  <1> QED BY <1>3, <1>4, PrepParts

\* The masks of owner q leave its own pool and the other's.
LEMMA PrepMasksSet ==
    ASSUME NEW P, PrepOK(P), NEW Q, \A p \in Party : IsPrep(Q[p]), NEW q \in Party,
           Others(P[q], Q[q], "local"), Others(P[1 - q], Q[1 - q], "theirs"),
           Q[q].local = [mask |-> Q[q].local.mask, share |-> Q[q].local.share],
           Q[1 - q].theirs = [share |-> Q[1 - q].theirs.share], PrepMasks(Q, q)
    PROVE  PrepOK(Q)
  <1>1. /\ \A p \in Party : IsPrep(P[p]) /\ PoolsAt(P[p]) /\ PrepMasks(P, p)
        /\ PrepTriples(P) /\ PrepPairs(P) /\ PrepBits(P) /\ PrepValues(P)
    BY PrepParts
  <1>2. PICK r \in Party : r = 1 - q /\ 1 - r = q /\ \A p \in Party : p = q \/ p = r
    BY PartyIs
  <1>3. /\ Q[q].triplets = P[q].triplets /\ Q[q].bits = P[q].bits
        /\ Q[q].inverse_pairs = P[q].inverse_pairs /\ Q[q].values = P[q].values
        /\ Q[q].theirs = P[q].theirs
    BY DEF PrepFields, Others
  <1>4. /\ Q[r].triplets = P[r].triplets /\ Q[r].bits = P[r].bits
        /\ Q[r].inverse_pairs = P[r].inverse_pairs /\ Q[r].values = P[r].values
        /\ Q[r].local = P[r].local
    BY <1>2 DEF PrepFields, Others
  <1>5. PoolsAt(Q[q])
    <2>1. PoolsAt(P[q])
      BY <1>1
    <2> QED BY <1>3, <2>1 DEF PoolsAt
  <1>6. PoolsAt(Q[r])
    <2>1. PoolsAt(P[r])
      BY <1>1
    <2>2. Q[r].theirs = [share |-> Q[r].theirs.share]
      BY <1>2
    <2> QED BY <1>4, <2>1, <2>2 DEF PoolsAt
  <1>7. PrepMasks(Q, r)
    <2>1. PrepMasks(P, r)
      BY <1>1
    <2> QED BY <1>2, <1>3, <1>4, <2>1 DEF PrepMasks
  <1>8. \A p \in Party : /\ Q[p].triplets = P[p].triplets /\ Q[p].values = P[p].values
                         /\ Q[p].inverse_pairs = P[p].inverse_pairs /\ Q[p].bits = P[p].bits
    BY <1>2, <1>3, <1>4
  <1>9. PrepTriples(Q) /\ PrepPairs(Q) /\ PrepBits(Q) /\ PrepValues(Q)
    BY <1>1, <1>8, PartyIs DEF PrepTriples, PrepPairs, PrepBits, PrepValues
  <1>10. \A p \in Party : PoolsAt(Q[p]) /\ PrepMasks(Q, p)
    BY <1>2, <1>5, <1>6, <1>7
  <1> QED BY <1>9, <1>10, PrepParts

\* What a request does at one party
HandsOut(s, p, req, m, t) ==
    LET f == PoolOf(p, req)
    IN  /\ IsState(t) /\ t.prog = s.prog /\ t.lg = s.lg /\ t.calls = s.calls
        /\ t.drawn = s.drawn /\ t.status = s.status
        /\ t.prep = [s.prep EXCEPT ![f] = Slices(s.prep[f], 0, m - req.n)]
        /\ t.handed = Append(s.handed, [req |-> req, got |-> Slices(s.prep[f], m - req.n, req.n)])

LEMMA NextIs ==
    ASSUME NEW p, NEW s, IsState(s), NEW req, req.n \in Nat, NEW m \in Nat,
           IsPool(s.prep[PoolOf(p, req)], m)
    PROVE  /\ m < req.n => next(s, p, req) = Fail(s, "panic")
           /\ m >= req.n => HandsOut(s, p, req, m, next(s, p, req))
  <1>1. PICK f, n : f = PoolOf(p, req) /\ n = req.n
    OBVIOUS
  <1>2. PICK pools : pools = s.prep[f]
    OBVIOUS
  <1>3. SizeOf(pools) = m
    BY <1>1, <1>2, PoolSize
  <1>4. CASE m < n
    <2>1. next(s, p, req) = Fail(s, "panic")
      BY <1>1, <1>2, <1>3, <1>4 DEF next
    <2> QED BY <1>1, <1>4, <2>1
  <1>5. CASE m >= n
    <2>1. Leave(pools, n) = Slices(pools, 0, m - n) /\ Take(pools, n) = Slices(pools, m - n, n)
      BY <1>1, <1>2, <1>5, PoolSplit
    <2>2. PICK x, h, w : /\ x = [s.prep EXCEPT ![f] = Slices(pools, 0, m - n)]
                         /\ h = Append(s.handed, [req |-> req, got |-> Slices(pools, m - n, n)])
                         /\ w = IF f = "triplets" THEN s.used \o Log("online", Slices(pools, m - n, n))
                                ELSE s.used
      OBVIOUS
    <2>3. ~(SizeOf(pools) < n)
      BY <1>1, <1>3, <1>5
    <2>4. next(s, p, req) = [s EXCEPT !.prep[f] = Slices(pools, 0, m - n), !.handed = h, !.used = w]
      BY <1>1, <1>2, <2>1, <2>2, <2>3 DEF next
    <2>5. PICK a : a = [s EXCEPT !.prep = x]
      OBVIOUS
    <2>6. [s EXCEPT !.prep[f] = Slices(pools, 0, m - n)] = a
      BY <2>2, <2>5
    <2>7. /\ IsState(a) /\ a.prog = s.prog /\ a.lg = s.lg /\ a.calls = s.calls /\ a.used = s.used
          /\ a.drawn = s.drawn /\ a.status = s.status /\ a.prep = x /\ a.handed = s.handed
      BY <2>5 DEF IsState, Fields
    <2>8. PICK b : b = [a EXCEPT !.handed = h]
      OBVIOUS
    <2>9. /\ IsState(b) /\ b.prog = s.prog /\ b.lg = s.lg /\ b.calls = s.calls
          /\ b.drawn = s.drawn /\ b.status = s.status /\ b.prep = x /\ b.handed = h
      BY <2>7, <2>8 DEF IsState, Fields
    <2>10. PICK c : c = [b EXCEPT !.used = w]
      OBVIOUS
    <2>11. /\ IsState(c) /\ c.prog = s.prog /\ c.lg = s.lg /\ c.calls = s.calls
           /\ c.drawn = s.drawn /\ c.status = s.status /\ c.prep = x /\ c.handed = h
      BY <2>9, <2>10 DEF IsState, Fields
    <2>12. next(s, p, req) = c
      BY <2>4, <2>6, <2>8, <2>10
    <2>13. HandsOut(s, p, req, m, c)
      BY <1>1, <1>2, <2>2, <2>11 DEF HandsOut
    <2> QED BY <1>1, <1>5, <2>12, <2>13
  <1> QED BY <1>1, <1>4, <1>5
LEMMA FitsMore ==
    ASSUME NEW x, NEW y, FitsAll(x, y), NEW h, NEW g, FitsOne(h, g)
    PROVE  FitsAll(Append(x, h), Append(y, g))
  <1>1. PICK S : x \in Seq(S)
    BY DEF FitsAll, IsList
  <1>2. PICK T : y \in Seq(T)
    BY DEF FitsAll, IsList
  <1>3. PICK n \in Nat : n = Len(x)
    BY <1>1
  <1>13. n = Len(y)
    BY <1>3 DEF FitsAll
  <1>4. PICK U : U = S \cup {h}
    OBVIOUS
  <1>5. PICK V : V = T \cup {g}
    OBVIOUS
  <1>6. x \in Seq(U) /\ h \in U /\ y \in Seq(V) /\ g \in V
    BY <1>1, <1>2, <1>4, <1>5
  <1>7. PICK a, b : a = Append(x, h) /\ b = Append(y, g)
    OBVIOUS
  <1>8. /\ a \in Seq(U) /\ Len(a) = n + 1 /\ DOMAIN a = 1..(n + 1)
        /\ a[n + 1] = h /\ \A k \in 1..n : a[k] = x[k]
    BY <1>3, <1>6, <1>7
  <1>9. /\ b \in Seq(V) /\ Len(b) = n + 1
        /\ b[n + 1] = g /\ \A k \in 1..n : b[k] = y[k]
    BY <1>6, <1>7, <1>13
  <1>10. DOMAIN x = 1..n
    BY <1>1, <1>3
  <1>11. ASSUME NEW k \in 1..(n + 1) PROVE FitsOne(a[k], b[k])
    <2>1. CASE k = n + 1
      BY <1>8, <1>9, <2>1
    <2>2. CASE k # n + 1
      <3>1. k \in 1..n
        BY <2>2
      <3>2. FitsOne(x[k], y[k])
        BY <1>10, <3>1 DEF FitsAll
      <3> QED BY <1>8, <1>9, <3>1, <3>2
    <2> QED BY <2>1, <2>2
  <1>12. IsList(a) /\ IsList(b)
    BY <1>8, <1>9 DEF IsList
  <1> QED BY <1>7, <1>8, <1>9, <1>11, <1>12 DEF FitsAll

\* Both parties stop with the same error.
LEMMA FailBoth ==
    ASSUME NEW J, IsJoint(J), NEW e \in {"panic", "NotSetup"}, NEW K,
           K = [p \in Party |-> Fail(J[p], e)]
    PROVE  EndedBoth(K)
  <1>1. ASSUME NEW p \in Party
        PROVE  /\ IsState(K[p]) /\ K[p].prog = <<>> /\ K[p].calls = J[p].calls
               /\ K[p].status = e /\ K[p].handed = J[p].handed
    <2>1. IsState(J[p]) /\ K[p] = Fail(J[p], e)
      BY DEF IsJoint
    <2> QED BY <2>1 DEF Fail, IsState, Fields
  <1>2. K = [p \in Party |-> K[p]]
    OBVIOUS
  <1> QED BY <1>1, <1>2, PartyIs DEF EndedBoth, IsJoint

JNext(J, req) == [p \in Party |-> next(J[p], p, req)]

\* The pools a request draws from hold m values at both parties.
Stocked(J, req, m) == \A p \in Party : IsPool(J[p].prep[PoolOf(p, req)], m)

Left(J, req, m) == [p \in Party |->
    [J[p].prep EXCEPT ![PoolOf(p, req)] = Slices(J[p].prep[PoolOf(p, req)], 0, m - req.n)]]

Got(J, req, m) == [p \in Party |->
    [req |-> req, got |-> Slices(J[p].prep[PoolOf(p, req)], m - req.n, req.n)]]

LEMMA NextEnds ==
    ASSUME NEW J, Between(J), NEW req \in Requests, NEW m \in Nat, Stocked(J, req, m),
           m >= req.n => PrepOK(Left(J, req, m)) /\ FitsOne(Got(J, req, m)[0], Got(J, req, m)[1])
    PROVE  Between(JNext(J, req)) \/ EndedBoth(JNext(J, req))
  <1>1. PICK K : K = JNext(J, req)
    OBVIOUS
  <1>2. req.n \in Nat
    BY DEF Requests
  <1>3. \A p \in Party : IsState(J[p]) /\ J[p].status = "running" /\ J[p].drawn \in Nat
    BY DEF Between, IsJoint
  <1>4. ASSUME NEW p \in Party
        PROVE  /\ m < req.n => K[p] = Fail(J[p], "panic")
               /\ m >= req.n => HandsOut(J[p], p, req, m, K[p])
    <2>1. K[p] = next(J[p], p, req)
      BY <1>1 DEF JNext
    <2> QED BY <1>2, <1>3, <2>1, NextIs DEF Stocked
  <1>5. CASE m < req.n
    <2>1. K = [p \in Party |-> Fail(J[p], "panic")]
      BY <1>1, <1>4, <1>5 DEF JNext
    <2>2. EndedBoth(K)
      BY <2>1, FailBoth DEF Between
    <2> QED BY <1>1, <2>2
  <1>6. CASE m >= req.n
    <2>1. PICK P, H : P = Left(J, req, m) /\ H = Got(J, req, m)
      OBVIOUS
    <2>2. ASSUME NEW p \in Party
          PROVE  /\ IsState(K[p]) /\ K[p].prog = <<>> /\ K[p].lg = J[p].lg
                 /\ K[p].calls = J[p].calls /\ K[p].drawn \in Nat /\ K[p].status = "running"
                 /\ K[p].prep = P[p] /\ K[p].handed = Append(J[p].handed, H[p])
      <3>1. HandsOut(J[p], p, req, m, K[p])
        BY <1>4, <1>6
      <3>2. J[p].prog = <<>>
        BY DEF Between
      <3>3. P[p] = [J[p].prep EXCEPT ![PoolOf(p, req)] =
                       Slices(J[p].prep[PoolOf(p, req)], 0, m - req.n)]
        BY <2>1 DEF Left
      <3>4. H[p] = [req |-> req, got |-> Slices(J[p].prep[PoolOf(p, req)], m - req.n, req.n)]
        BY <2>1 DEF Got
      <3> QED BY <1>3, <3>1, <3>2, <3>3, <3>4 DEF HandsOut
    <2>3. FitsAll(J[0].handed, J[1].handed) /\ FitsOne(H[0], H[1]) /\ PrepOK(P)
      BY <1>6, <2>1 DEF Between, IsJoint
    <2>4. FitsAll(K[0].handed, K[1].handed)
      <3>1. K[0].handed = Append(J[0].handed, H[0]) /\ K[1].handed = Append(J[1].handed, H[1])
        BY <2>2, PartyIs
      <3> QED BY <2>3, <3>1, FitsMore
    <2>5. K = [p \in Party |-> K[p]]
      BY <1>1 DEF JNext
    <2>6. IsJoint(K)
      BY <2>2, <2>4, <2>5, PartyIs DEF IsJoint, Between
    <2>7. Lg(K) = Lg(J) /\ Prep(K) = P
      BY <2>1, <2>2 DEF Lg, Prep, Left
    <2>8. Between(K)
      BY <2>2, <2>3, <2>6, <2>7, PartyIs DEF Between
    <2> QED BY <1>1, <2>8
  <1> QED BY <1>2, <1>5, <1>6
\* Party p takes req from pool f, of m values: Q is what is left, h what it gets.
DrawsFrom(P, req, m, p, f, Q, H) ==
    /\ IsPrep(Q[p]) /\ Q[p][f] = Slices(P[p][f], 0, m - req.n)
    /\ Others(P[p], Q[p], f)
    /\ H[p] = [req |-> req, got |-> Slices(P[p][f], m - req.n, req.n)]

LEMMA LeftFacts ==
    ASSUME NEW J, PrepOK(Prep(J)), NEW req, NEW m, NEW p \in Party, NEW f \in PrepFields,
           f = PoolOf(p, req)
    PROVE  /\ DrawsFrom(Prep(J), req, m, p, f, Left(J, req, m), Got(J, req, m))
           /\ J[p].prep[PoolOf(p, req)] = Prep(J)[p][f]
  <1>0. PICK Q : Q = Left(J, req, m)
    OBVIOUS
  <1>1. PICK x : x = J[p].prep
    OBVIOUS
  <1>2. Prep(J)[p] = x
    BY <1>1 DEF Prep
  <1>3. IsPrep(x)
    BY <1>2, PrepParts
  <1>4. Q[p] = [x EXCEPT ![f] = Slices(x[f], 0, m - req.n)]
    BY <1>0, <1>1 DEF Left
  <1>5. /\ IsPrep(Q[p]) /\ Q[p][f] = Slices(x[f], 0, m - req.n)
        /\ \A g \in PrepFields : g # f => Q[p][g] = x[g]
    BY <1>3, <1>4, PrepExcept
  <1>6. Got(J, req, m)[p] = [req |-> req, got |-> Slices(x[f], m - req.n, req.n)]
    BY <1>1 DEF Got
  <1>7. Others(x, Q[p], f)
    BY <1>5 DEF Others
  <1> QED BY <1>0, <1>1, <1>2, <1>5, <1>6, <1>7 DEF DrawsFrom

LEMMA NextTriples ==
    ASSUME NEW J, Between(J), NEW req \in Requests, req.pool = "triplets"
    PROVE  Between(JNext(J, req)) \/ EndedBoth(JNext(J, req))
  <1>1. PICK P : P = Prep(J)
    OBVIOUS
  <1>2. PrepOK(P) /\ req.n \in Nat
    BY <1>1 DEF Between, Requests
  <1>3. PICK m \in Nat : TriplesFit(P[0].triplets, P[1].triplets, m)
    BY <1>2, PrepParts DEF PrepTriples
  <1>4. \A p \in Party : PoolOf(p, req) = "triplets" /\ "triplets" \in PrepFields
    BY DEF PoolOf, PrepFields
  <1>5. PICK Q, H : Q = Left(J, req, m) /\ H = Got(J, req, m)
    OBVIOUS
  <1>6. ASSUME NEW p \in Party
        PROVE  /\ IsPrep(Q[p]) /\ Q[p].triplets = Slices(P[p].triplets, 0, m - req.n)
               /\ Others(P[p], Q[p], "triplets")
               /\ H[p].req = req /\ H[p].got = Slices(P[p].triplets, m - req.n, req.n)
               /\ J[p].prep[PoolOf(p, req)] = P[p].triplets
    <2>1. PICK f \in PrepFields : f = "triplets" /\ f = PoolOf(p, req)
      BY <1>4
    <2>2. DrawsFrom(P, req, m, p, f, Q, H) /\ J[p].prep[PoolOf(p, req)] = P[p][f]
      BY <1>1, <1>2, <1>5, <2>1, LeftFacts
    <2> QED BY <2>1, <2>2 DEF DrawsFrom
  <1>7. Stocked(J, req, m)
    BY <1>3, <1>6, TriplesPool, PartyIs DEF Stocked
  <1>8. ASSUME m >= req.n PROVE PrepOK(Q) /\ FitsOne(H[0], H[1])
    <2>1. PICK i \in Nat : i = m - req.n /\ 0 + i <= m /\ i + req.n <= m
      BY <1>2, <1>8
    <2>2. /\ TriplesFit(Slices(P[0].triplets, 0, i), Slices(P[1].triplets, 0, i), i)
          /\ TriplesFit(Slices(P[0].triplets, i, req.n), Slices(P[1].triplets, i, req.n), req.n)
      BY <1>2, <1>3, <2>1, SliceTriples
    <2>3. PrepTriples(Q)
      BY <1>6, <2>1, <2>2, PartyIs DEF PrepTriples
    <2>4. PrepOK(Q)
      <3>1. PICK f \in PrepFields : f = "triplets"
        BY <1>4, PartyIs
      <3>2. \A p \in Party : IsPrep(Q[p]) /\ Others(P[p], Q[p], f)
        BY <1>6, <3>1
      <3>3. (f = "triplets" /\ PrepTriples(Q)) \/ (f = "inverse_pairs" /\ PrepPairs(Q))
        BY <2>3, <3>1
      <3> HIDE <3>1
      <3> QED BY <1>2, <3>2, <3>3, PrepTriplesSet
    <2>5. ValidTriples(H[0].got, H[1].got)
      BY <1>2, <1>6, <2>1, <2>2, PartyIs, TriplesValid
    <2>6. H[0].req = req /\ H[1].req = req
      BY <1>6, PartyIs
    <2> QED BY <2>4, <2>5, <2>6 DEF FitsOne
  <1> QED BY <1>5, <1>7, <1>8, NextEnds

LEMMA NextPairs ==
    ASSUME NEW J, Between(J), NEW req \in Requests, req.pool = "inverse_pairs"
    PROVE  Between(JNext(J, req)) \/ EndedBoth(JNext(J, req))
  <1>1. PICK P : P = Prep(J)
    OBVIOUS
  <1>2. PrepOK(P) /\ req.n \in Nat
    BY <1>1 DEF Between, Requests
  <1>3. PICK m \in Nat : PairsFit(P[0].inverse_pairs, P[1].inverse_pairs, m)
    BY <1>2, PrepParts DEF PrepPairs
  <1>4. \A p \in Party : PoolOf(p, req) = "inverse_pairs" /\ "inverse_pairs" \in PrepFields
    BY DEF PoolOf, PrepFields
  <1>5. PICK Q, H : Q = Left(J, req, m) /\ H = Got(J, req, m)
    OBVIOUS
  <1>6. ASSUME NEW p \in Party
        PROVE  /\ IsPrep(Q[p]) /\ Q[p].inverse_pairs = Slices(P[p].inverse_pairs, 0, m - req.n)
               /\ Others(P[p], Q[p], "inverse_pairs")
               /\ H[p].req = req /\ H[p].got = Slices(P[p].inverse_pairs, m - req.n, req.n)
               /\ J[p].prep[PoolOf(p, req)] = P[p].inverse_pairs
    <2>1. PICK f \in PrepFields : f = "inverse_pairs" /\ f = PoolOf(p, req)
      BY <1>4
    <2>2. DrawsFrom(P, req, m, p, f, Q, H) /\ J[p].prep[PoolOf(p, req)] = P[p][f]
      BY <1>1, <1>2, <1>5, <2>1, LeftFacts
    <2> QED BY <2>1, <2>2 DEF DrawsFrom
  <1>7. Stocked(J, req, m)
    BY <1>3, <1>6, PairsPool, PartyIs DEF Stocked
  <1>8. ASSUME m >= req.n PROVE PrepOK(Q) /\ FitsOne(H[0], H[1])
    <2>1. PICK i \in Nat : i = m - req.n /\ 0 + i <= m /\ i + req.n <= m
      BY <1>2, <1>8
    <2>2. /\ PairsFit(Slices(P[0].inverse_pairs, 0, i), Slices(P[1].inverse_pairs, 0, i), i)
          /\ PairsFit(Slices(P[0].inverse_pairs, i, req.n),
                      Slices(P[1].inverse_pairs, i, req.n), req.n)
      BY <1>2, <1>3, <2>1, SlicePairs
    <2>3. PrepPairs(Q)
      BY <1>6, <2>1, <2>2, PartyIs DEF PrepPairs
    <2>4. PrepOK(Q)
      <3>1. PICK f \in PrepFields : f = "inverse_pairs"
        BY <1>4, PartyIs
      <3>2. \A p \in Party : IsPrep(Q[p]) /\ Others(P[p], Q[p], f)
        BY <1>6, <3>1
      <3>3. (f = "triplets" /\ PrepTriples(Q)) \/ (f = "inverse_pairs" /\ PrepPairs(Q))
        BY <2>3, <3>1
      <3> HIDE <3>1
      <3> QED BY <1>2, <3>2, <3>3, PrepTriplesSet
    <2>5. ValidPairs(H[0].got, H[1].got)
      BY <1>2, <1>6, <2>1, <2>2, PartyIs, PairsValid
    <2>6. H[0].req = req /\ H[1].req = req
      BY <1>6, PartyIs
    <2> QED BY <2>4, <2>5, <2>6 DEF FitsOne
  <1> QED BY <1>5, <1>7, <1>8, NextEnds

LEMMA NextBits ==
    ASSUME NEW J, Between(J), NEW req \in Requests, req.pool = "bits"
    PROVE  Between(JNext(J, req)) \/ EndedBoth(JNext(J, req))
  <1>1. PICK P : P = Prep(J)
    OBVIOUS
  <1>2. PrepOK(P) /\ req.n \in Nat
    BY <1>1 DEF Between, Requests
  <1>3. PICK m \in Nat : BitsFit(P[0].bits.bit, P[1].bits.bit, m)
    BY <1>2, PrepParts DEF PrepBits
  <1>4. \A p \in Party : PoolOf(p, req) = "bits" /\ "bits" \in PrepFields
    BY DEF PoolOf, PrepFields
  <1>5. PICK Q, H : Q = Left(J, req, m) /\ H = Got(J, req, m)
    OBVIOUS
  <1>6. ASSUME NEW p \in Party
        PROVE  /\ IsPrep(Q[p]) /\ Q[p].bits = Slices(P[p].bits, 0, m - req.n)
               /\ Others(P[p], Q[p], "bits")
               /\ H[p].req = req /\ H[p].got = Slices(P[p].bits, m - req.n, req.n)
               /\ J[p].prep[PoolOf(p, req)] = P[p].bits
    <2>1. PICK f \in PrepFields : f = "bits" /\ f = PoolOf(p, req)
      BY <1>4
    <2>2. DrawsFrom(P, req, m, p, f, Q, H) /\ J[p].prep[PoolOf(p, req)] = P[p][f]
      BY <1>1, <1>2, <1>5, <2>1, LeftFacts
    <2> QED BY <2>1, <2>2 DEF DrawsFrom
  <1>7. ASSUME NEW p \in Party
        PROVE  /\ P[p].bits = [bit |-> P[p].bits.bit]
               /\ \A i, q : Slices(P[p].bits, i, q) = [bit |-> Slice(P[p].bits.bit, i, q)]
    <2>1. PICK b, x : b = P[p].bits /\ x = P[p].bits.bit
      OBVIOUS
    <2>2. b = [bit |-> x]
      BY <1>2, <2>1, PrepParts DEF PoolsAt
    <2>3. \A i, q : Slices(b, i, q) = [bit |-> Slice(x, i, q)]
      BY <2>2 DEF Slices
    <2> QED BY <2>1, <2>2, <2>3
  <1>9. ASSUME NEW p \in Party, NEW i, NEW q
        PROVE  /\ Slices(P[p].bits, i, q).bit = Slice(P[p].bits.bit, i, q)
               /\ Slices(P[p].bits, i, q) = [bit |-> Slices(P[p].bits, i, q).bit]
    <2>1. PICK y, z : y = Slices(P[p].bits, i, q) /\ z = Slice(P[p].bits.bit, i, q)
      OBVIOUS
    <2>2. y = [bit |-> z]
      BY <1>7, <2>1
    <2>3. y.bit = z
      BY <2>2
    <2> QED BY <2>1, <2>2, <2>3
  <1>11. \A p \in Party : \A i, q : Slices(P[p].bits, i, q).bit = Slice(P[p].bits.bit, i, q)
    BY <1>9
  <1>10. Stocked(J, req, m)
    <2>1. IsPool(P[0].bits, m) /\ IsPool(P[1].bits, m)
      BY <1>3, <1>7, BitsPool, PartyIs
    <2> QED BY <1>6, <2>1, PartyIs DEF Stocked
  <1>8. ASSUME m >= req.n PROVE PrepOK(Q) /\ FitsOne(H[0], H[1])
    <2>1. PICK i \in Nat : i = m - req.n /\ 0 + i <= m /\ i + req.n <= m
      BY <1>2, <1>8
    <2>2. /\ BitsFit(Slice(P[0].bits.bit, 0, i), Slice(P[1].bits.bit, 0, i), i)
          /\ BitsFit(Slice(P[0].bits.bit, i, req.n), Slice(P[1].bits.bit, i, req.n), req.n)
      BY <1>2, <1>3, <2>1, SliceBits
    <2>3. \A p \in Party : Q[p].bits.bit = Slice(P[p].bits.bit, 0, i)
      BY <1>6, <1>11, <2>1
    <2>4. PrepBits(Q)
      BY <2>1, <2>2, <2>3, PartyIs DEF PrepBits
    <2>5. PrepOK(Q)
      <3>1. \A p \in Party : IsPrep(Q[p]) /\ Others(P[p], Q[p], "bits")
        BY <1>6
      <3>2. ASSUME NEW p \in Party PROVE Q[p].bits = [bit |-> Q[p].bits.bit]
        <4>1. PICK y : y = Slices(P[p].bits, 0, m - req.n)
          OBVIOUS
        <4>2. y = [bit |-> y.bit]
          BY <1>9, <4>1
        <4>3. Q[p].bits = y
          BY <1>6, <4>1
        <4> QED BY <4>2, <4>3
      <3> QED BY <1>2, <2>4, <3>1, <3>2, PrepBitsSet
    <2>6. \A p \in Party : H[p].req = req /\ H[p].got.bit = Slice(P[p].bits.bit, i, req.n)
      BY <1>6, <1>11, <2>1
    <2>7. ValidBits(H[0].got.bit, H[1].got.bit)
      BY <1>2, <2>2, <2>6, PartyIs, BitsValid
    <2>8. H[0].req = req /\ H[1].req = req
      BY <2>6, PartyIs
    <2> QED BY <2>5, <2>7, <2>8 DEF FitsOne
  <1> QED BY <1>5, <1>8, <1>10, NextEnds

LEMMA NextValues ==
    ASSUME NEW J, Between(J), NEW req \in Requests, req.pool = "values"
    PROVE  Between(JNext(J, req)) \/ EndedBoth(JNext(J, req))
  <1>1. PICK P : P = Prep(J)
    OBVIOUS
  <1>2. PrepOK(P) /\ req.n \in Nat
    BY <1>1 DEF Between, Requests
  <1>3. PICK m \in Nat : ValuesFit(P[0].values.val, P[1].values.val, m)
    BY <1>2, PrepParts DEF PrepValues
  <1>4. \A p \in Party : PoolOf(p, req) = "values" /\ "values" \in PrepFields
    BY DEF PoolOf, PrepFields
  <1>5. PICK Q, H : Q = Left(J, req, m) /\ H = Got(J, req, m)
    OBVIOUS
  <1>6. ASSUME NEW p \in Party
        PROVE  /\ IsPrep(Q[p]) /\ Q[p].values = Slices(P[p].values, 0, m - req.n)
               /\ Others(P[p], Q[p], "values")
               /\ H[p].req = req /\ H[p].got = Slices(P[p].values, m - req.n, req.n)
               /\ J[p].prep[PoolOf(p, req)] = P[p].values
    <2>1. PICK f \in PrepFields : f = "values" /\ f = PoolOf(p, req)
      BY <1>4
    <2>2. DrawsFrom(P, req, m, p, f, Q, H) /\ J[p].prep[PoolOf(p, req)] = P[p][f]
      BY <1>1, <1>2, <1>5, <2>1, LeftFacts
    <2> QED BY <2>1, <2>2 DEF DrawsFrom
  <1>7. ASSUME NEW p \in Party
        PROVE  /\ P[p].values = [val |-> P[p].values.val]
               /\ \A i, q : Slices(P[p].values, i, q) = [val |-> Slice(P[p].values.val, i, q)]
    <2>1. PICK b, x : b = P[p].values /\ x = P[p].values.val
      OBVIOUS
    <2>2. b = [val |-> x]
      BY <1>2, <2>1, PrepParts DEF PoolsAt
    <2>3. \A i, q : Slices(b, i, q) = [val |-> Slice(x, i, q)]
      BY <2>2 DEF Slices
    <2> QED BY <2>1, <2>2, <2>3
  <1>9. ASSUME NEW p \in Party, NEW i, NEW q
        PROVE  /\ Slices(P[p].values, i, q).val = Slice(P[p].values.val, i, q)
               /\ Slices(P[p].values, i, q) = [val |-> Slices(P[p].values, i, q).val]
    <2>1. PICK y, z : y = Slices(P[p].values, i, q) /\ z = Slice(P[p].values.val, i, q)
      OBVIOUS
    <2>2. y = [val |-> z]
      BY <1>7, <2>1
    <2>3. y.val = z
      BY <2>2
    <2> QED BY <2>1, <2>2, <2>3
  <1>11. \A p \in Party : \A i, q : Slices(P[p].values, i, q).val = Slice(P[p].values.val, i, q)
    BY <1>9
  <1>10. Stocked(J, req, m)
    <2>1. IsPool(P[0].values, m) /\ IsPool(P[1].values, m)
      BY <1>3, <1>7, ValuesPool, PartyIs
    <2> QED BY <1>6, <2>1, PartyIs DEF Stocked
  <1>8. ASSUME m >= req.n PROVE PrepOK(Q) /\ FitsOne(H[0], H[1])
    <2>1. PICK i \in Nat : i = m - req.n /\ 0 + i <= m /\ i + req.n <= m
      BY <1>2, <1>8
    <2>2. /\ ValuesFit(Slice(P[0].values.val, 0, i), Slice(P[1].values.val, 0, i), i)
          /\ ValuesFit(Slice(P[0].values.val, i, req.n), Slice(P[1].values.val, i, req.n), req.n)
      BY <1>2, <1>3, <2>1, SliceValues
    <2>3. \A p \in Party : Q[p].values.val = Slice(P[p].values.val, 0, i)
      BY <1>6, <1>11, <2>1
    <2>4. PrepValues(Q)
      BY <2>1, <2>2, <2>3, PartyIs DEF PrepValues
    <2>5. PrepOK(Q)
      <3>1. \A p \in Party : IsPrep(Q[p]) /\ Others(P[p], Q[p], "values")
        BY <1>6
      <3>2. ASSUME NEW p \in Party PROVE Q[p].values = [val |-> Q[p].values.val]
        <4>1. PICK y : y = Slices(P[p].values, 0, m - req.n)
          OBVIOUS
        <4>2. y = [val |-> y.val]
          BY <1>9, <4>1
        <4>3. Q[p].values = y
          BY <1>6, <4>1
        <4> QED BY <4>2, <4>3
      <3> QED BY <1>2, <2>4, <3>1, <3>2, PrepValuesSet
    <2>6. \A p \in Party : H[p].req = req /\ H[p].got.val = Slice(P[p].values.val, i, req.n)
      BY <1>6, <1>11, <2>1
    <2>7. AllValid(H[0].got.val, H[1].got.val)
      BY <1>2, <2>2, <2>6, PartyIs, ValuesValid
    <2>8. H[0].req = req /\ H[1].req = req
      BY <2>6, PartyIs
    <2> QED BY <2>5, <2>7, <2>8 DEF FitsOne
  <1> QED BY <1>5, <1>8, <1>10, NextEnds
LEMMA NextMasks ==
    ASSUME NEW J, Between(J), NEW req \in Requests, req.pool = "mask"
    PROVE  Between(JNext(J, req)) \/ EndedBoth(JNext(J, req))
  <1>1. PICK P : P = Prep(J)
    OBVIOUS
  <1>2. PrepOK(P) /\ req.n \in Nat
    BY <1>1 DEF Between, Requests
  <1>3. PICK q \in Party, r \in Party : /\ q = req.owner /\ r = 1 - q /\ q # r
                                        /\ \A p \in Party : p = q \/ p = r
    <2>1. req.owner \in Party
      BY DEF Requests
    <2> QED BY <2>1, PartyIs
  <1>4. PrepMasks(P, q) /\ PoolsAt(P[q]) /\ PoolsAt(P[r])
    BY <1>2, PrepParts
  <1>5. PICK mk, x, y : mk = P[q].local.mask /\ x = P[q].local.share /\ y = P[r].theirs.share
    OBVIOUS
  <1>6. PICK m \in Nat : MasksFit(mk, x, y, m)
    BY <1>3, <1>4, <1>5 DEF PrepMasks
  <1>7. PICK t, u : t = P[q].local /\ u = P[r].theirs
    OBVIOUS
  <1>8. t = [mask |-> mk, share |-> x]
    BY <1>4, <1>5, <1>7 DEF PoolsAt
  <1>9. u = [share |-> y]
    BY <1>4, <1>5, <1>7 DEF PoolsAt
  <1>10. PICK Q, H : Q = Left(J, req, m) /\ H = Got(J, req, m)
    OBVIOUS
  <1>11. /\ IsPrep(Q[q]) /\ Q[q].local = Slices(t, 0, m - req.n) /\ Others(P[q], Q[q], "local")
         /\ H[q].req = req /\ H[q].got = Slices(t, m - req.n, req.n)
         /\ J[q].prep[PoolOf(q, req)] = t
    <2>1. PICK f \in PrepFields : f = "local" /\ f = PoolOf(q, req)
      BY <1>3 DEF PoolOf, PrepFields
    <2>2. DrawsFrom(P, req, m, q, f, Q, H) /\ J[q].prep[PoolOf(q, req)] = P[q][f]
      BY <1>1, <1>2, <1>10, <2>1, LeftFacts
    <2> QED BY <1>7, <2>1, <2>2 DEF DrawsFrom
  <1>12. /\ IsPrep(Q[r]) /\ Q[r].theirs = Slices(u, 0, m - req.n) /\ Others(P[r], Q[r], "theirs")
         /\ H[r].req = req /\ H[r].got = Slices(u, m - req.n, req.n)
         /\ J[r].prep[PoolOf(r, req)] = u
    <2>1. PICK f \in PrepFields : f = "theirs" /\ f = PoolOf(r, req)
      BY <1>3 DEF PoolOf, PrepFields
    <2>2. DrawsFrom(P, req, m, r, f, Q, H) /\ J[r].prep[PoolOf(r, req)] = P[r][f]
      BY <1>1, <1>2, <1>10, <2>1, LeftFacts
    <2> QED BY <1>7, <2>1, <2>2 DEF DrawsFrom
  <1>13. Stocked(J, req, m)
    <2>1. IsPool(t, m) /\ IsPool(u, m)
      BY <1>6, <1>8, <1>9, MasksPool
    <2>2. IsPool(J[q].prep[PoolOf(q, req)], m)
      BY <1>11, <2>1
    <2>3. IsPool(J[r].prep[PoolOf(r, req)], m)
      BY <1>12, <2>1
    <2>4. \A p \in Party : p = q \/ p = r
      BY <1>3
    <2> QED BY <2>2, <2>3, <2>4 DEF Stocked
  <1>14. ASSUME NEW i, NEW k
         PROVE  /\ Slices(t, i, k) = [mask |-> Slice(mk, i, k), share |-> Slice(x, i, k)]
                /\ Slices(u, i, k) = [share |-> Slice(y, i, k)]
    <2>1. Slices(t, i, k) = [mask |-> Slice(mk, i, k), share |-> Slice(x, i, k)]
      BY <1>8 DEF Slices
    <2>2. Slices(u, i, k) = [share |-> Slice(y, i, k)]
      BY <1>9 DEF Slices
    <2> QED BY <2>1, <2>2
  <1>15. ASSUME m >= req.n PROVE PrepOK(Q) /\ FitsOne(H[0], H[1])
    <2>1. PICK i \in Nat : i = m - req.n /\ 0 + i <= m /\ i + req.n <= m
      BY <1>2, <1>15
    <2>2. /\ MasksFit(Slice(mk, 0, i), Slice(x, 0, i), Slice(y, 0, i), i)
          /\ MasksFit(Slice(mk, i, req.n), Slice(x, i, req.n), Slice(y, i, req.n), req.n)
      BY <1>2, <1>6, <2>1, SliceMasks
    <2>3. Q[q].local = [mask |-> Slice(mk, 0, i), share |-> Slice(x, 0, i)]
      BY <1>11, <1>14, <2>1
    <2>4. Q[r].theirs = [share |-> Slice(y, 0, i)]
      BY <1>12, <1>14, <2>1
    <2>5. /\ Q[q].local.mask = Slice(mk, 0, i) /\ Q[q].local.share = Slice(x, 0, i)
          /\ Q[q].local = [mask |-> Q[q].local.mask, share |-> Q[q].local.share]
      BY <2>3
    <2>6. Q[r].theirs.share = Slice(y, 0, i) /\ Q[r].theirs = [share |-> Q[r].theirs.share]
      BY <2>4
    <2>7. PrepMasks(Q, q)
      BY <1>3, <2>1, <2>2, <2>5, <2>6 DEF PrepMasks
    <2>8. \A p \in Party : IsPrep(Q[p])
      BY <1>3, <1>11, <1>12
    <2>9. PrepOK(Q)
      <3>1. /\ Others(P[1 - q], Q[1 - q], "theirs")
            /\ Q[1 - q].theirs = [share |-> Q[1 - q].theirs.share]
        BY <1>3, <1>12, <2>6
      <3>2. /\ Others(P[q], Q[q], "local")
            /\ Q[q].local = [mask |-> Q[q].local.mask, share |-> Q[q].local.share]
        BY <1>11, <2>5
      <3> QED BY <1>2, <2>7, <2>8, <3>1, <3>2, PrepMasksSet
    <2>10. H[q].got.mask = Slice(mk, i, req.n) /\ H[q].got.share = Slice(x, i, req.n)
      <3>1. H[q].got = [mask |-> Slice(mk, i, req.n), share |-> Slice(x, i, req.n)]
        BY <1>11, <1>14, <2>1
      <3> QED BY <3>1
    <2>11. H[r].got.share = Slice(y, i, req.n)
      <3>1. H[r].got = [share |-> Slice(y, i, req.n)]
        BY <1>12, <1>14, <2>1
      <3> QED BY <3>1
    <2>12. ValidMasks(H[q].got.mask, H[q].got.share, H[r].got.share)
      BY <1>2, <2>2, <2>10, <2>11, MasksValid
    <2>13. H[0].req = req /\ H[1].req = req
      BY <1>3, <1>11, <1>12, PartyIs
    <2>14. CASE q = 0
      <3>1. r = 1
        BY <1>3, <2>14
      <3>2. req.owner = 0
        BY <1>3, <2>14
      <3> QED BY <2>9, <2>12, <2>13, <2>14, <3>1, <3>2 DEF FitsOne
    <2>15. CASE q = 1
      <3>1. r = 0
        BY <1>3, <2>15
      <3>2. req.owner = 1
        BY <1>3, <2>15
      <3> QED BY <2>9, <2>12, <2>13, <2>15, <3>1, <3>2 DEF FitsOne
    <2> QED BY <2>14, <2>15, PartyIs
  <1> QED BY <1>10, <1>13, <1>15, NextEnds

\* A request yields values that fit, or stops both parties.
LEMMA NextCall ==
    ASSUME NEW J, Between(J), NEW req \in Requests
    PROVE  Between(JNext(J, req)) \/ EndedBoth(JNext(J, req))
  <1>1. req.pool \in {"triplets", "inverse_pairs", "bits", "values", "mask"}
    BY DEF Requests
  <1> QED BY <1>1, NextTriples, NextPairs, NextBits, NextValues, NextMasks
\* A call that sets one field of both states leaves the parties between calls.
LEMMA SetLgBetween ==
    ASSUME NEW J, Between(J), NEW L, LgOK(L), NEW K,
           K = [p \in Party |-> [J[p] EXCEPT !.lg = L[p]]], L = [p \in Party |-> L[p]]
    PROVE  Between(K)
  <1>1. \A p \in Party : IsState(J[p]) /\ J[p].status = "running" /\ J[p].drawn \in Nat
    BY DEF Between, IsJoint
  <1>2. ASSUME NEW p \in Party
        PROVE  /\ IsState(K[p]) /\ K[p].lg = L[p] /\ K[p].prep = J[p].prep
               /\ K[p].handed = J[p].handed /\ K[p].calls = J[p].calls /\ K[p].drawn = J[p].drawn
               /\ K[p].status = J[p].status /\ K[p].prog = J[p].prog
    <2>1. PICK s, t, l : s = J[p] /\ t = K[p] /\ l = L[p]
      OBVIOUS
    <2>2. t = [s EXCEPT !.lg = l] /\ IsState(s)
      BY <1>1, <2>1
    <2> QED BY <2>1, <2>2 DEF IsState, Fields
  <1>3. K = [p \in Party |-> K[p]]
    OBVIOUS
  <1>4. IsJoint(K)
    BY <1>1, <1>2, <1>3, PartyIs DEF IsJoint, Between
  <1>5. Lg(K) = L /\ Prep(K) = Prep(J)
    BY <1>2 DEF Lg, Prep
  <1> QED BY <1>2, <1>4, <1>5, PartyIs DEF Between

LEMMA SetPrepBetween ==
    ASSUME NEW J, Between(J), NEW P, PrepOK(P), NEW U, NEW K,
           K = [p \in Party |-> SetStore(J[p], P[p], U[p])],
           P = [p \in Party |-> P[p]]
    PROVE  Between(K)
  <1>1. \A p \in Party : IsState(J[p]) /\ J[p].status = "running" /\ J[p].drawn \in Nat
    BY DEF Between, IsJoint
  <1>2. ASSUME NEW p \in Party
        PROVE  /\ IsState(K[p]) /\ K[p].lg = J[p].lg /\ K[p].prep = P[p]
               /\ K[p].handed = J[p].handed /\ K[p].calls = J[p].calls /\ K[p].drawn = J[p].drawn
               /\ K[p].status = J[p].status /\ K[p].prog = J[p].prog
    <2>1. PICK s, t, l, w : s = J[p] /\ t = K[p] /\ l = P[p] /\ w = U[p]
      OBVIOUS
    <2>2. t = SetStore(s, l, w) /\ IsState(s)
      BY <1>1, <2>1
    <2>3. /\ IsState(t) /\ t.lg = s.lg /\ t.prep = l /\ t.handed = s.handed /\ t.calls = s.calls
          /\ t.drawn = s.drawn /\ t.status = s.status /\ t.prog = s.prog
      <3> HIDE <2>1
      <3> QED BY <2>2, CopyFacts
    <2> QED BY <2>1, <2>3
  <1>3. K = [p \in Party |-> K[p]]
    OBVIOUS
  <1>4. IsJoint(K)
    BY <1>1, <1>2, <1>3, PartyIs DEF IsJoint, Between
  <1>5. Lg(K) = Lg(J) /\ Prep(K) = P
    BY <1>2 DEF Lg, Prep
  <1> QED BY <1>2, <1>4, <1>5, PartyIs DEF Between

LEMMA SetCallsBetween ==
    ASSUME NEW J, Between(J), NEW c \in Seq(Calls), NEW K,
           K = [p \in Party |-> [J[p] EXCEPT !.calls = c]]
    PROVE  Between(K)
  <1>1. \A p \in Party : IsState(J[p]) /\ J[p].status = "running" /\ J[p].drawn \in Nat
    BY DEF Between, IsJoint
  <1>2. ASSUME NEW p \in Party
        PROVE  /\ IsState(K[p]) /\ K[p].lg = J[p].lg /\ K[p].prep = J[p].prep
               /\ K[p].handed = J[p].handed /\ K[p].calls = c /\ K[p].drawn = J[p].drawn
               /\ K[p].status = J[p].status /\ K[p].prog = J[p].prog
    <2>1. PICK s, t : s = J[p] /\ t = K[p]
      OBVIOUS
    <2>2. t = [s EXCEPT !.calls = c] /\ IsState(s)
      BY <1>1, <2>1
    <2> QED BY <2>1, <2>2 DEF IsState, Fields
  <1>3. K = [p \in Party |-> K[p]]
    OBVIOUS
  <1>4. IsJoint(K)
    BY <1>1, <1>2, <1>3, PartyIs DEF IsJoint, Between
  <1>5. Lg(K) = Lg(J) /\ Prep(K) = Prep(J)
    BY <1>2 DEF Lg, Prep
  <1> QED BY <1>2, <1>4, <1>5, PartyIs DEF Between

\* A LowGear before the first call, and one made from the setup parameters
LEMMA EmptyBatch ==
    AuthBatch(Joined(<<>>, <<>>), <<>>, 0)
  <1>1. <<>> \in [1..0 -> ShareOf(F)] /\ <<>> \in [1..0 -> F]
    OBVIOUS
  <1>2. Joined(<<>>, <<>>) \in [Party -> [1..0 -> ShareOf(F)]]
    BY <1>1 DEF Joined
  <1> QED BY <1>1, <1>2 DEF AuthBatch

LEMMA NoneFit ==
    /\ TriplesFit(NoTriples, NoTriples, 0) /\ PairsFit(NoPairs, NoPairs, 0)
    /\ BitsFit(NoBatch, NoBatch, 0) /\ ValuesFit(NoBatch, NoBatch, 0)
    /\ MasksFit(NoMasks.my_masks, NoMasks.my_mask_shares, NoMasks.their_masks, 0)
    /\ IsMasks(NoMasks)
  <1>1. AuthBatch(Joined(<<>>, <<>>), <<>>, 0)
    BY EmptyBatch
  <1>2. <<>> \in [1..0 -> F] /\ \A k \in 1..0 : FALSE
    OBVIOUS
  <1>3. PtMul(<<>>, <<>>) = <<>>
    BY DEF PtMul
  <1>4. TriplesFit(NoTriples, NoTriples, 0)
    <2>1. NoTriples.a = <<>> /\ NoTriples.b = <<>> /\ NoTriples.c = <<>>
      BY DEF NoTriples, NoBatch
    <2>2. NoTriples = [a |-> NoTriples.a, b |-> NoTriples.b, c |-> NoTriples.c]
      BY DEF NoTriples
    <2> QED BY <1>1, <1>2, <1>3, <2>1, <2>2 DEF TriplesFit
  <1>5. PairsFit(NoPairs, NoPairs, 0)
    <2>1. NoPairs.lhs = <<>> /\ NoPairs.rhs = <<>>
      BY DEF NoPairs, NoBatch
    <2>2. NoPairs = [lhs |-> NoPairs.lhs, rhs |-> NoPairs.rhs]
      BY DEF NoPairs
    <2> QED BY <1>1, <1>2, <2>1, <2>2 DEF PairsFit
  <1>6. BitsFit(NoBatch, NoBatch, 0) /\ ValuesFit(NoBatch, NoBatch, 0)
    BY <1>1, <1>2 DEF BitsFit, ValuesFit, NoBatch
  <1>7. /\ NoMasks.my_masks = <<>> /\ NoMasks.my_mask_shares = <<>> /\ NoMasks.their_masks = <<>>
    BY DEF NoMasks, NoBatch
  <1>8. IsMasks(NoMasks)
    BY DEF NoMasks, IsMasks, MaskFields
  <1>9. MasksFit(NoMasks.my_masks, NoMasks.my_mask_shares, NoMasks.their_masks, 0)
    BY <1>1, <1>2, <1>7 DEF MasksFit
  <1> QED BY <1>4, <1>5, <1>6, <1>8, <1>9

\* Empty pools
Fresh(lg) ==
    /\ IsLg(lg) /\ lg.triples = NoTriples /\ lg.inverse_tuples = NoPairs
    /\ lg.shared_bits = NoBatch /\ lg.shared_randomness = NoBatch /\ lg.input_masks = NoMasks

LEMMA FreshOK ==
    ASSUME NEW L, \A p \in Party : Fresh(L[p]), KeysOK(L)
    PROVE  LgOK(L)
  <1>1. TriplesOK(L) /\ PairsOK(L) /\ BitsOK(L) /\ ValuesOK(L)
    <2>1. \A p \in Party : /\ L[p].triples = NoTriples /\ L[p].inverse_tuples = NoPairs
                           /\ L[p].shared_bits = NoBatch /\ L[p].shared_randomness = NoBatch
      BY DEF Fresh
    <2> QED BY <2>1, NoneFit, PartyIs DEF TriplesOK, PairsOK, BitsOK, ValuesOK
  <1>2. \A p \in Party : IsLg(L[p]) /\ L[p].input_masks = NoMasks
    BY DEF Fresh
  <1>3. MasksOK(L)
    BY <1>2, NoneFit, PartyIs DEF MasksOK
  <1> QED BY <1>1, <1>2, <1>3, NoneFit, LgParts

LEMMA NewFresh ==
    /\ Fresh(NewLowGear) /\ NewLowGear.other_pk = None
    /\ \A x, y : LET lg == [NewLowGear EXCEPT !.other_pk = x, !.other_mac_enc = y]
                 IN  Fresh(lg) /\ lg.other_pk = x /\ lg.other_mac_enc = y
  <1>1. PICK a, b, c, d : a = NoTriples /\ b = NoPairs /\ c = NoMasks /\ d = NoBatch
    OBVIOUS
  <1>2. NewLowGear = [other_pk |-> None, other_mac_enc |-> None, triples |-> a,
                      inverse_tuples |-> b, shared_bits |-> d, shared_randomness |-> d,
                      input_masks |-> c]
    BY <1>1 DEF NewLowGear
  <1>3. PICK lg : lg = NewLowGear
    OBVIOUS
  <1>4. /\ IsLg(lg) /\ lg.triples = a /\ lg.inverse_tuples = b /\ lg.shared_bits = d
        /\ lg.shared_randomness = d /\ lg.input_masks = c /\ lg.other_pk = None
    BY <1>2, <1>3 DEF IsLg, LgFields
  <1>5. Fresh(lg)
    BY <1>1, <1>4 DEF Fresh
  <1>6. ASSUME NEW x, NEW y, NEW m, m = [lg EXCEPT !.other_pk = x, !.other_mac_enc = y]
        PROVE  Fresh(m) /\ m.other_pk = x /\ m.other_mac_enc = y
    <2>1. PICK k : k = [lg EXCEPT !.other_pk = x]
      OBVIOUS
    <2>2. m = [k EXCEPT !.other_mac_enc = y]
      BY <1>6, <2>1
    <2>3. /\ IsLg(k) /\ k.triples = a /\ k.inverse_tuples = b /\ k.shared_bits = d
          /\ k.shared_randomness = d /\ k.input_masks = c /\ k.other_pk = x
      BY <1>4, <2>1 DEF IsLg, LgFields
    <2>4. /\ IsLg(m) /\ m.triples = a /\ m.inverse_tuples = b /\ m.shared_bits = d
          /\ m.shared_randomness = d /\ m.input_masks = c /\ m.other_pk = x /\ m.other_mac_enc = y
      BY <2>2, <2>3 DEF IsLg, LgFields
    <2> QED BY <1>1, <2>4 DEF Fresh
  <1> QED BY <1>3, <1>4, <1>5, <1>6
\* get_offline_result hands over the pools as they are.
JResult(L) == [p \in Party |-> get_offline_result(L[p])]

LEMMA ResultAt ==
    ASSUME NEW lg, NEW x, x = get_offline_result(lg)
    PROVE  /\ IsPrep(x) /\ PoolsAt(x) /\ x.triplets = lg.triples
           /\ x.inverse_pairs = lg.inverse_tuples /\ x.bits.bit = lg.shared_bits
           /\ x.values.val = lg.shared_randomness /\ x.local.mask = lg.input_masks.my_masks
           /\ x.local.share = lg.input_masks.my_mask_shares
           /\ x.theirs.share = lg.input_masks.their_masks
  <1>1. PICK t, i, b, v, m : /\ t = lg.triples /\ i = lg.inverse_tuples /\ b = lg.shared_bits
                             /\ v = lg.shared_randomness /\ m = lg.input_masks
    OBVIOUS
  <1>2. PICK xb, xv, xl, xt : /\ xb = [bit |-> b] /\ xv = [val |-> v]
                              /\ xl = [mask |-> m.my_masks, share |-> m.my_mask_shares]
                              /\ xt = [share |-> m.their_masks]
    OBVIOUS
  <1>3. x = [triplets |-> t, inverse_pairs |-> i, bits |-> xb, values |-> xv, local |-> xl,
             theirs |-> xt]
    BY <1>1, <1>2 DEF get_offline_result
  <1>4. /\ x.triplets = t /\ x.inverse_pairs = i /\ x.bits = xb /\ x.values = xv
        /\ x.local = xl /\ x.theirs = xt
    BY <1>3
  <1>5. IsPrep(x)
    BY <1>3 DEF IsPrep, PrepFields
  <1>6. /\ xb.bit = b /\ xv.val = v /\ xl.mask = m.my_masks /\ xl.share = m.my_mask_shares
        /\ xt.share = m.their_masks
    BY <1>2
  <1>7. PoolsAt(x)
    BY <1>2, <1>4 DEF PoolsAt
  <1> QED BY <1>1, <1>4, <1>5, <1>6, <1>7

LEMMA ResultOK ==
    ASSUME NEW L, LgOK(L)
    PROVE  PrepOK(JResult(L))
  <1>1. PICK P : P = JResult(L)
    OBVIOUS
  <1>2. ASSUME NEW p \in Party
        PROVE  /\ IsPrep(P[p]) /\ PoolsAt(P[p]) /\ P[p].triplets = L[p].triples
               /\ P[p].inverse_pairs = L[p].inverse_tuples /\ P[p].bits.bit = L[p].shared_bits
               /\ P[p].values.val = L[p].shared_randomness
               /\ P[p].local.mask = L[p].input_masks.my_masks
               /\ P[p].local.share = L[p].input_masks.my_mask_shares
               /\ P[p].theirs.share = L[p].input_masks.their_masks
    <2>1. P[p] = get_offline_result(L[p])
      BY <1>1 DEF JResult
    <2> QED BY <2>1, ResultAt
  <1>3. TriplesOK(L) /\ PairsOK(L) /\ BitsOK(L) /\ ValuesOK(L) /\ MasksOK(L)
    BY LgParts
  <1>4. PrepTriples(P) /\ PrepPairs(P)
    BY <1>2, <1>3, PartyIs DEF PrepTriples, PrepPairs, TriplesOK, PairsOK
  <1>5. PrepBits(P) /\ PrepValues(P)
    BY <1>2, <1>3, PartyIs DEF PrepBits, PrepValues, BitsOK, ValuesOK
  <1>6. ASSUME NEW p \in Party PROVE PrepMasks(P, p)
    <2>1. PICK q \in Party : q = 1 - p
      BY PartyIs
    <2>2. PICK n \in Nat : MasksFit(L[p].input_masks.my_masks, L[p].input_masks.my_mask_shares,
                                    L[q].input_masks.their_masks, n)
      BY <1>3, <2>1 DEF MasksOK
    <2>3. MasksFit(P[p].local.mask, P[p].local.share, P[q].theirs.share, n)
      BY <1>2, <2>2
    <2> QED BY <2>1, <2>3 DEF PrepMasks
  <1>7. PrepOK(P)
    BY <1>2, <1>4, <1>5, <1>6, PrepParts
  <1> QED BY <1>1, <1>7

LEMMA ChainTriples ==
    ASSUME NEW m \in Nat, NEW n \in Nat, NEW t, NEW u, TriplesFit(t, u, m),
           NEW s, NEW r, TriplesFit(s, r, n)
    PROVE  TriplesFit(Append2(t, s), Append2(u, r), m + n)
  <1>1. t = [a |-> t.a, b |-> t.b, c |-> t.c] /\ u = [a |-> u.a, b |-> u.b, c |-> u.c]
    BY DEF TriplesFit
  <1>2. PICK x, y \in [1..m -> F] :
          /\ AuthBatch(Joined(t.a, u.a), x, m) /\ AuthBatch(Joined(t.b, u.b), y, m)
          /\ AuthBatch(Joined(t.c, u.c), PtMul(x, y), m)
    BY DEF TriplesFit
  <1>3. PICK z, w \in [1..n -> F] :
          /\ AuthBatch(Joined(s.a, r.a), z, n) /\ AuthBatch(Joined(s.b, r.b), w, n)
          /\ AuthBatch(Joined(s.c, r.c), PtMul(z, w), n)
    BY DEF TriplesFit
  <1>4. /\ AuthBatch(Joined(t.a \o s.a, u.a \o r.a), x \o z, m + n)
        /\ AuthBatch(Joined(t.b \o s.b, u.b \o r.b), y \o w, m + n)
        /\ AuthBatch(Joined(t.c \o s.c, u.c \o r.c), PtMul(x, y) \o PtMul(z, w), m + n)
    BY <1>2, <1>3, ChainFits
  <1>5. PtMul(x, y) \o PtMul(z, w) = PtMul(x \o z, y \o w)
    BY ChainMul
  <1>6. x \o z \in [1..(m + n) -> F] /\ y \o w \in [1..(m + n) -> F]
    BY ChainIs
  <1>7. PICK h, g : h = Append2(t, s) /\ g = Append2(u, r)
    OBVIOUS
  <1>8. h = [a |-> t.a \o s.a, b |-> t.b \o s.b, c |-> t.c \o s.c]
    BY <1>1, <1>7 DEF Append2
  <1>9. g = [a |-> u.a \o r.a, b |-> u.b \o r.b, c |-> u.c \o r.c]
    BY <1>1, <1>7 DEF Append2
  <1>10. /\ h.a = t.a \o s.a /\ h.b = t.b \o s.b /\ h.c = t.c \o s.c
         /\ h = [a |-> h.a, b |-> h.b, c |-> h.c]
    BY <1>8
  <1>11. /\ g.a = u.a \o r.a /\ g.b = u.b \o r.b /\ g.c = u.c \o r.c
         /\ g = [a |-> g.a, b |-> g.b, c |-> g.c]
    BY <1>9
  <1>12. /\ AuthBatch(Joined(h.a, g.a), x \o z, m + n)
         /\ AuthBatch(Joined(h.b, g.b), y \o w, m + n)
         /\ AuthBatch(Joined(h.c, g.c), PtMul(x \o z, y \o w), m + n)
    BY <1>4, <1>5, <1>10, <1>11
  <1>13. TriplesFit(h, g, m + n)
    BY <1>6, <1>10, <1>11, <1>12 DEF TriplesFit
  <1> QED BY <1>7, <1>13

LEMMA ChainPairs ==
    ASSUME NEW m \in Nat, NEW n \in Nat, NEW t, NEW u, PairsFit(t, u, m),
           NEW s, NEW r, PairsFit(s, r, n)
    PROVE  PairsFit(Append2(t, s), Append2(u, r), m + n)
  <1>1. t = [lhs |-> t.lhs, rhs |-> t.rhs] /\ u = [lhs |-> u.lhs, rhs |-> u.rhs]
    BY DEF PairsFit
  <1>2. PICK x, y \in [1..m -> F] :
          /\ AuthBatch(Joined(t.lhs, u.lhs), x, m) /\ AuthBatch(Joined(t.rhs, u.rhs), y, m)
          /\ \A k \in 1..m : Times(x[k], y[k]) = One
    BY DEF PairsFit
  <1>3. PICK z, w \in [1..n -> F] :
          /\ AuthBatch(Joined(s.lhs, r.lhs), z, n) /\ AuthBatch(Joined(s.rhs, r.rhs), w, n)
          /\ \A k \in 1..n : Times(z[k], w[k]) = One
    BY DEF PairsFit
  <1>4. /\ AuthBatch(Joined(t.lhs \o s.lhs, u.lhs \o r.lhs), x \o z, m + n)
        /\ AuthBatch(Joined(t.rhs \o s.rhs, u.rhs \o r.rhs), y \o w, m + n)
    BY <1>2, <1>3, ChainFits
  <1>5. PICK a, b : a = x \o z /\ b = y \o w
    OBVIOUS
  <1>6. /\ a = [k \in 1..(m + n) |-> IF k <= m THEN x[k] ELSE z[k - m]]
        /\ b = [k \in 1..(m + n) |-> IF k <= m THEN y[k] ELSE w[k - m]]
        /\ a \in [1..(m + n) -> F] /\ b \in [1..(m + n) -> F]
    <2>1. OfLen(x, m, F) /\ OfLen(y, m, F) /\ OfLen(z, n, F) /\ OfLen(w, n, F)
      BY DEF OfLen
    <2>2. /\ IsChain(x \o z, x, z, m, n) /\ OfLen(x \o z, m + n, F)
          /\ IsChain(y \o w, y, w, m, n) /\ OfLen(y \o w, m + n, F)
      BY <2>1, ChainOf
    <2> QED BY <1>5, <2>2 DEF IsChain, OfLen
  <1>14. ASSUME NEW k \in 1..(m + n) PROVE Times(a[k], b[k]) = One
    <2>1. CASE k <= m
      BY <1>2, <1>6, <2>1
    <2>2. CASE ~(k <= m)
      <3>1. k - m \in 1..n
        BY <2>2
      <3>2. a[k] = z[k - m] /\ b[k] = w[k - m]
        BY <1>6, <2>2
      <3> QED BY <1>3, <3>1, <3>2
    <2> QED BY <2>1, <2>2
  <1>7. PICK h, g : h = Append2(t, s) /\ g = Append2(u, r)
    OBVIOUS
  <1>8. h = [lhs |-> t.lhs \o s.lhs, rhs |-> t.rhs \o s.rhs]
    BY <1>1, <1>7 DEF Append2
  <1>9. g = [lhs |-> u.lhs \o r.lhs, rhs |-> u.rhs \o r.rhs]
    BY <1>1, <1>7 DEF Append2
  <1>10. /\ h.lhs = t.lhs \o s.lhs /\ h.rhs = t.rhs \o s.rhs
         /\ h = [lhs |-> h.lhs, rhs |-> h.rhs]
    BY <1>8
  <1>11. /\ g.lhs = u.lhs \o r.lhs /\ g.rhs = u.rhs \o r.rhs
         /\ g = [lhs |-> g.lhs, rhs |-> g.rhs]
    BY <1>9
  <1>12. /\ AuthBatch(Joined(h.lhs, g.lhs), a, m + n)
         /\ AuthBatch(Joined(h.rhs, g.rhs), b, m + n)
    BY <1>4, <1>5, <1>10, <1>11
  <1>13. PairsFit(h, g, m + n)
    BY <1>6, <1>10, <1>11, <1>12, <1>14 DEF PairsFit
  <1> QED BY <1>7, <1>13

LEMMA ChainBits ==
    ASSUME NEW m \in Nat, NEW n \in Nat, NEW t, NEW u, BitsFit(t, u, m),
           NEW s, NEW r, BitsFit(s, r, n)
    PROVE  BitsFit(t \o s, u \o r, m + n)
  <1>2. PICK x \in [1..m -> F] :
          AuthBatch(Joined(t, u), x, m) /\ \A k \in 1..m : x[k] \in {Zero, One}
    BY DEF BitsFit
  <1>3. PICK z \in [1..n -> F] :
          AuthBatch(Joined(s, r), z, n) /\ \A k \in 1..n : z[k] \in {Zero, One}
    BY DEF BitsFit
  <1>4. AuthBatch(Joined(t \o s, u \o r), x \o z, m + n)
    BY <1>2, <1>3, ChainFits
  <1>5. PICK a : a = x \o z
    OBVIOUS
  <1>6. /\ a = [k \in 1..(m + n) |-> IF k <= m THEN x[k] ELSE z[k - m]]
        /\ a \in [1..(m + n) -> F]
    <2>1. OfLen(x, m, F) /\ OfLen(z, n, F)
      BY DEF OfLen
    <2>2. IsChain(x \o z, x, z, m, n) /\ OfLen(x \o z, m + n, F)
      BY <2>1, ChainOf
    <2> QED BY <1>5, <2>2 DEF IsChain, OfLen
  <1>7. ASSUME NEW k \in 1..(m + n) PROVE a[k] \in {Zero, One}
    <2>1. CASE k <= m
      BY <1>2, <1>6, <2>1
    <2>2. CASE ~(k <= m)
      <3>1. k - m \in 1..n
        BY <2>2
      <3>2. a[k] = z[k - m]
        BY <1>6, <2>2
      <3> QED BY <1>3, <3>1, <3>2
    <2> QED BY <2>1, <2>2
  <1> QED BY <1>4, <1>5, <1>6, <1>7 DEF BitsFit
\* Appending the pools S of another result
JAppend(P, O, S) ==
    [p \in Party |-> [f \in DOMAIN P[p] |-> IF f \in S THEN Append2(P[p][f], O[p][f]) ELSE P[p][f]]]

LEMMA AppendOK ==
    ASSUME NEW P, PrepOK(P), NEW O, PrepOK(O),
           NEW S, S \subseteq {"triplets", "inverse_pairs", "bits"}
    PROVE  PrepOK(JAppend(P, O, S))
  <1>1. PICK Q : Q = JAppend(P, O, S)
    OBVIOUS
  <1>2. /\ \A p \in Party : IsPrep(P[p]) /\ PoolsAt(P[p]) /\ PrepMasks(P, p)
        /\ PrepTriples(P) /\ PrepPairs(P) /\ PrepBits(P) /\ PrepValues(P)
    BY PrepParts
  <1>3. /\ \A p \in Party : PoolsAt(O[p])
        /\ PrepTriples(O) /\ PrepPairs(O) /\ PrepBits(O)
    BY PrepParts
  <1>4. ASSUME NEW p \in Party
        PROVE  /\ IsPrep(Q[p])
               /\ \A f \in PrepFields : f \notin S => Q[p][f] = P[p][f]
               /\ \A f \in PrepFields : f \in S => Q[p][f] = Append2(P[p][f], O[p][f])
    <2>1. PICK x, y, z : x = P[p] /\ y = O[p] /\ z = Q[p]
      OBVIOUS
    <2>2. z = [f \in PrepFields |-> IF f \in S THEN Append2(x[f], y[f]) ELSE x[f]]
      BY <1>1, <1>2, <2>1 DEF JAppend, IsPrep
    <2> QED BY <2>1, <2>2 DEF IsPrep
  <1>5. \A p \in Party : /\ Q[p].values = P[p].values /\ Q[p].local = P[p].local
                         /\ Q[p].theirs = P[p].theirs
    BY <1>4 DEF PrepFields
  <1>6. ASSUME NEW p \in Party PROVE PrepMasks(Q, p)
    BY <1>2, <1>5, PartyIs DEF PrepMasks
  <1>7. PrepValues(Q)
    BY <1>2, <1>5, PartyIs DEF PrepValues
  <1>8. PrepTriples(Q)
    <2>1. PICK f \in PrepFields : f = "triplets"
      BY DEF PrepFields
    <2>2. CASE f \in S
      <3>1. Q[0].triplets = Append2(P[0].triplets, O[0].triplets)
        BY <1>4, <2>1, <2>2, PartyIs
      <3>2. Q[1].triplets = Append2(P[1].triplets, O[1].triplets)
        BY <1>4, <2>1, <2>2, PartyIs
      <3>3. PICK m \in Nat : TriplesFit(P[0].triplets, P[1].triplets, m)
        BY <1>2 DEF PrepTriples
      <3>4. PICK n \in Nat : TriplesFit(O[0].triplets, O[1].triplets, n)
        BY <1>3 DEF PrepTriples
      <3>5. TriplesFit(Q[0].triplets, Q[1].triplets, m + n)
        BY <3>1, <3>2, <3>3, <3>4, ChainTriples
      <3> QED BY <3>5 DEF PrepTriples
    <2>3. CASE f \notin S
      <3>1. \A p \in Party : Q[p].triplets = P[p].triplets
        BY <1>4, <2>1, <2>3
      <3> QED BY <1>2, <3>1, PartyIs DEF PrepTriples
    <2> QED BY <2>2, <2>3
  <1>9. PrepPairs(Q)
    <2>1. PICK f \in PrepFields : f = "inverse_pairs"
      BY DEF PrepFields
    <2>2. CASE f \in S
      <3>1. Q[0].inverse_pairs = Append2(P[0].inverse_pairs, O[0].inverse_pairs)
        BY <1>4, <2>1, <2>2, PartyIs
      <3>2. Q[1].inverse_pairs = Append2(P[1].inverse_pairs, O[1].inverse_pairs)
        BY <1>4, <2>1, <2>2, PartyIs
      <3>3. PICK m \in Nat : PairsFit(P[0].inverse_pairs, P[1].inverse_pairs, m)
        BY <1>2 DEF PrepPairs
      <3>4. PICK n \in Nat : PairsFit(O[0].inverse_pairs, O[1].inverse_pairs, n)
        BY <1>3 DEF PrepPairs
      <3>5. PairsFit(Q[0].inverse_pairs, Q[1].inverse_pairs, m + n)
        BY <3>1, <3>2, <3>3, <3>4, ChainPairs
      <3> QED BY <3>5 DEF PrepPairs
    <2>3. CASE f \notin S
      <3>1. \A p \in Party : Q[p].inverse_pairs = P[p].inverse_pairs
        BY <1>4, <2>1, <2>3
      <3> QED BY <1>2, <3>1, PartyIs DEF PrepPairs
    <2> QED BY <2>2, <2>3
  <1>10. (\A p \in Party : Q[p].bits = [bit |-> Q[p].bits.bit]) /\ PrepBits(Q)
    <2>1. PICK f \in PrepFields : f = "bits"
      BY DEF PrepFields
    <2>2. CASE f \in S
      <3>1. ASSUME NEW p \in Party
            PROVE  /\ Q[p].bits.bit = P[p].bits.bit \o O[p].bits.bit
                   /\ Q[p].bits = [bit |-> Q[p].bits.bit]
        <4>1. PICK b, c, x, y, z : /\ b = P[p].bits /\ c = O[p].bits /\ z = Q[p].bits
                                   /\ x = P[p].bits.bit /\ y = O[p].bits.bit
          OBVIOUS
        <4>2. b = [bit |-> x] /\ c = [bit |-> y]
          BY <1>2, <1>3, <4>1 DEF PoolsAt
        <4>3. z = Append2(b, c)
          BY <1>4, <2>1, <2>2, <4>1
        <4>4. z = [bit |-> x \o y]
          BY <4>2, <4>3 DEF Append2
        <4>5. z.bit = x \o y /\ z = [bit |-> z.bit]
          BY <4>4
        <4> QED BY <4>1, <4>5
      <3>2. PICK m \in Nat : BitsFit(P[0].bits.bit, P[1].bits.bit, m)
        BY <1>2 DEF PrepBits
      <3>3. PICK n \in Nat : BitsFit(O[0].bits.bit, O[1].bits.bit, n)
        BY <1>3 DEF PrepBits
      <3>4. BitsFit(P[0].bits.bit \o O[0].bits.bit, P[1].bits.bit \o O[1].bits.bit, m + n)
        BY <3>2, <3>3, ChainBits
      <3>5. /\ Q[0].bits.bit = P[0].bits.bit \o O[0].bits.bit
            /\ Q[1].bits.bit = P[1].bits.bit \o O[1].bits.bit
        BY <3>1, PartyIs
      <3>6. PrepBits(Q)
        BY <3>4, <3>5 DEF PrepBits
      <3> QED BY <3>1, <3>6
    <2>3. CASE f \notin S
      <3>1. \A p \in Party : Q[p].bits = P[p].bits
        BY <1>4, <2>1, <2>3
      <3>2. PrepBits(Q)
        BY <1>2, <3>1, PartyIs DEF PrepBits
      <3>3. \A p \in Party : P[p].bits = [bit |-> P[p].bits.bit]
        BY <1>2 DEF PoolsAt
      <3> QED BY <3>1, <3>2, <3>3
    <2> QED BY <2>2, <2>3
  <1>11. ASSUME NEW p \in Party PROVE PoolsAt(Q[p])
    <2>1. PoolsAt(P[p]) /\ Q[p].bits = [bit |-> Q[p].bits.bit]
      BY <1>2, <1>10
    <2> QED BY <1>5, <2>1 DEF PoolsAt
  <1>12. PrepOK(Q)
    BY <1>4, <1>6, <1>7, <1>8, <1>9, <1>10, <1>11, PrepParts
  <1> QED BY <1>1, <1>12

FromParams(x, y) == [NewLowGear EXCEPT !.other_pk = x, !.other_mac_enc = y]

LEMMA FromParamsFresh ==
    ASSUME NEW x, NEW y
    PROVE  /\ Fresh(FromParams(x, y)) /\ FromParams(x, y).other_pk = x
           /\ FromParams(x, y).other_mac_enc = y
  BY NewFresh DEF FromParams

JLocal(J, call) == [p \in Party |-> LocalCall(p, J[p], call)]

\* A local call of both parties leaves them between calls, or stops both.
LEMMA LocalEnds ==
    ASSUME NEW J, Between(J), NEW call \in Calls, call.op \notin Generators
    PROVE  Between(JLocal(J, call)) \/ EndedBoth(JLocal(J, call))
  <1>1. call.op \in {"run_offline_phase", "next", "new_from_params", "get_offline_result", "append"}
    BY DEF Calls, Generators
  <1>2. PICK K, L : K = JLocal(J, call) /\ L = Lg(J)
    OBVIOUS
  <1>3. LgOK(L) /\ IsJoint(J) /\ PrepOK(Prep(J)) /\ KeysOK(L)
    BY <1>2, LgParts DEF Between
  <1>4. \A p \in Party : L[p] = J[p].lg
    BY <1>2 DEF Lg
  <1>5. CASE call.op = "run_offline_phase"
    <2>1. call.sizes \in Sizes
      BY <1>5 DEF Calls
    <2>2. run_offline_phase(call.sizes) \in Seq(Calls)
      BY <2>1 DEF run_offline_phase, Calls, Sizes
    <2>3. PICK c : c = run_offline_phase(call.sizes) \o J[0].calls
      OBVIOUS
    <2>4. c \in Seq(Calls)
      BY <2>2, <2>3 DEF Between
    <2>5. \A p \in Party : J[p].calls = J[0].calls
      BY <1>3, PartyIs DEF IsJoint
    <2>6. ASSUME NEW p \in Party PROVE LocalCall(p, J[p], call) = [J[p] EXCEPT !.calls = c]
      BY <1>5, <2>3, <2>5 DEF LocalCall
    <2>7. K = [p \in Party |-> [J[p] EXCEPT !.calls = c]]
      BY <1>2, <2>6 DEF JLocal
    <2>8. Between(K)
      BY <2>4, <2>7, SetCallsBetween
    <2> QED BY <1>2, <2>8
  <1>6. CASE call.op = "next"
    <2>1. call.req \in Requests
      BY <1>6 DEF Calls
    <2>2. K = JNext(J, call.req)
      BY <1>2, <1>6 DEF JLocal, JNext, LocalCall
    <2> QED BY <1>2, <2>1, <2>2, NextCall
  <1>7. CASE /\ call.op \in {"new_from_params", "get_offline_result", "append"}
             /\ \A p \in Party : L[p].other_pk = None
    <2>1. ASSUME NEW p \in Party PROVE LocalCall(p, J[p], call) = Fail(J[p], "NotSetup")
      BY <1>4, <1>7 DEF LocalCall
    <2>2. K = [p \in Party |-> Fail(J[p], "NotSetup")]
      BY <1>2, <2>1 DEF JLocal
    <2>3. EndedBoth(K)
      BY <1>3, <2>2, FailBoth
    <2> QED BY <1>2, <2>3
  <1>8. CASE /\ call.op \in {"new_from_params", "get_offline_result", "append"} /\ KeysAll(L)
    <2>1. ASSUME NEW p \in Party PROVE LocalCall(p, J[p], call) = CallOnResult(J[p], call)
      <3>1. J[p].lg.other_pk # None
        BY <1>4, <1>8 DEF KeysAll, KeysSet, Some, None
      <3> QED BY <1>8, <3>1 DEF LocalCall
    <2>2. K = [p \in Party |-> CallOnResult(J[p], call)]
      BY <1>2, <2>1 DEF JLocal
    <2>3. CASE call.op = "new_from_params"
      <3>1. PICK M : M = [p \in Party |-> [NewLowGear EXCEPT !.other_pk = J[p].lg.other_pk,
                                                  !.other_mac_enc = J[p].lg.other_mac_enc]]
        OBVIOUS
      <3>2. \A p \in Party : /\ Fresh(M[p]) /\ M[p].other_pk = L[p].other_pk
                             /\ M[p].other_mac_enc = L[p].other_mac_enc
        <4> SUFFICES ASSUME NEW p \in Party
                     PROVE  /\ Fresh(M[p]) /\ M[p].other_pk = L[p].other_pk
                            /\ M[p].other_mac_enc = L[p].other_mac_enc
          OBVIOUS
        <4>1. PICK x, y, m : x = L[p].other_pk /\ y = L[p].other_mac_enc /\ m = FromParams(x, y)
          OBVIOUS
        <4>2. Fresh(m) /\ m.other_pk = x /\ m.other_mac_enc = y
          BY <4>1, FromParamsFresh
        <4>3. M[p] = m
          BY <1>4, <3>1, <4>1 DEF FromParams
        <4> QED BY <4>1, <4>2, <4>3
      <3>3. KeysOK(M)
        BY <1>8, <3>2 DEF KeysOK, KeysAll, KeysSet
      <3>4. LgOK(M)
        BY <3>2, <3>3, FreshOK
      <3>5. \A p \in Party : CallOnResult(J[p], call) = [J[p] EXCEPT !.lg = M[p]]
        BY <2>3, <3>1 DEF CallOnResult
      <3>6. K = [p \in Party |-> [J[p] EXCEPT !.lg = M[p]]]
        BY <2>2, <3>5
      <3>7. M = [p \in Party |-> M[p]]
        BY <3>1
      <3>8. Between(K)
        BY <3>4, <3>6, <3>7, SetLgBetween
      <3> QED BY <1>2, <3>8
    <2>4. CASE call.op = "get_offline_result"
      <3>1. PICK P : P = JResult(L)
        OBVIOUS
      <3>2. PrepOK(P)
        BY <1>3, <3>1, ResultOK
      <3>3. \A p \in Party : P[p] = get_offline_result(J[p].lg)
        BY <1>4, <3>1 DEF JResult
      <3>4. PICK U : U = [p \in Party |-> Copied(J[p], {"triplets"})]
        OBVIOUS
      <3>5. \A p \in Party :
                CallOnResult(J[p], call) = SetStore(J[p], P[p], U[p])
        BY <2>4, <3>3, <3>4 DEF CallOnResult, SetStore
      <3>6. K = [p \in Party |-> SetStore(J[p], P[p], U[p])]
        BY <2>2, <3>5
      <3>7. P = [p \in Party |-> P[p]]
        BY <3>1 DEF JResult
      <3>8. Between(K)
        BY <3>2, <3>6, <3>7, SetPrepBetween
      <3> QED BY <1>2, <3>8
    <2>5. CASE call.op = "append"
      <3>1. PICK O, P : O = JResult(L) /\ P = JAppend(Prep(J), O, call.pools)
        OBVIOUS
      <3>2. call.pools \subseteq {"triplets", "inverse_pairs", "bits"}
        BY <2>5 DEF Calls
      <3>3. PrepOK(P)
        BY <1>3, <3>1, <3>2, ResultOK, AppendOK
      <3>4. \A p \in Party : O[p] = get_offline_result(J[p].lg)
        BY <1>4, <3>1 DEF JResult
      <3>5. ASSUME NEW p \in Party
            PROVE  P[p] = [f \in DOMAIN J[p].prep |->
                             IF f \in call.pools THEN Append2(J[p].prep[f], O[p][f])
                             ELSE J[p].prep[f]]
        BY <3>1 DEF JAppend, Prep
      <3>10. PICK U : U = [p \in Party |-> Copied(J[p], call.pools)]
        OBVIOUS
      <3>6. ASSUME NEW p \in Party
            PROVE  CallOnResult(J[p], call) = SetStore(J[p], P[p], U[p])
        BY <2>5, <3>4, <3>5, <3>10 DEF CallOnResult, SetStore
      <3>7. K = [p \in Party |-> SetStore(J[p], P[p], U[p])]
        BY <2>2, <3>6
      <3>8. P = [p \in Party |-> P[p]]
        BY <3>1 DEF JAppend
      <3>9. Between(K)
        BY <3>3, <3>7, <3>8, SetPrepBetween
      <3> QED BY <1>2, <3>9
    <2> QED BY <1>8, <2>3, <2>4, <2>5
  <1> QED BY <1>1, <1>3, <1>5, <1>6, <1>7, <1>8 DEF KeysOK

---------------------------------------------------------------------------
(* A task runs until its next send or receive                              *)

JAdvance(A) == [p \in Party |-> Advance(p, A[p])]

\* Both parties are at an exchange of a call that goes well.
Crossing(A) == Moving(A) /\ Head(A[0].prog).op \in Network /\ Safe(A)

\* Where the tasks come to rest, and what they handed out on the way: nothing.
Rest(A) == Between(A) \/ EndedBoth(A) \/ Crossing(A)
SameLog(A, B) == \A p \in Party : B[p].handed = A[p].handed /\ B[p].calls = A[p].calls

\* The exchange the parties are at
Exchanges(A, kind, out, in) ==
    /\ kind \in Names /\ out \in Names /\ in \in Names /\ out # in
    /\ \A p \in Party : out \in DOMAIN A[p].mem
    /\ \A p \in Party : StartsExchange(p, kind, out, in, A[p].prog, Tail(Tail(A[p].prog)))

LEMMA AtExchangeIs ==
    ASSUME NEW A, NEW kind \in Names, NEW out \in Names, NEW in \in Names,
           AtExchange(A, kind, out, in)
    PROVE  Exchanges(A, kind, out, in)
  <1>1. PICK R \in JProgs : \A p \in Party : A[p].prog = exchange(p, kind, out, in) \o R[p]
    BY DEF AtExchange
  <1>2. \A p \in Party : StartsExchange(p, kind, out, in, A[p].prog, R[p])
    BY <1>1, ExchangeParts DEF JProgs
  <1>3. \A p \in Party : R[p] = Tail(Tail(A[p].prog))
    BY <1>2 DEF StartsExchange
  <1>4. \A p \in Party : StartsExchange(p, kind, out, in, A[p].prog, Tail(Tail(A[p].prog)))
    BY <1>2, <1>3
  <1> QED BY <1>4 DEF Exchanges, AtExchange

LEMMA ExchangeHeads ==
    ASSUME NEW A, NEW kind, NEW out, NEW in, Exchanges(A, kind, out, in)
    PROVE  \A p \in Party : Head(A[p].prog).op \in Network
  <1>1. \A p \in Party : StartsExchange(p, kind, out, in, A[p].prog, Tail(Tail(A[p].prog)))
    BY DEF Exchanges
  <1> QED BY <1>1, PartyIs DEF StartsExchange, Network

LEMMA MovingSplits ==
    ASSUME NEW A, Moving(A)
    PROVE  \/ SameStep(A) /\ Head(A[0].prog).op \notin Network
           \/ /\ Head(A[0].prog).op \in Network /\ Head(A[1].prog).op \in Network
              /\ \E kind, out, in : Exchanges(A, kind, out, in)
  <1>1. CASE SameStep(A)
    BY <1>1 DEF SameStep
  <1>2. CASE \E kind, out, in \in Names : AtExchange(A, kind, out, in)
    <2>1. PICK kind \in Names, out \in Names, in \in Names : AtExchange(A, kind, out, in)
      BY <1>2
    <2>2. Exchanges(A, kind, out, in)
      BY <2>1, AtExchangeIs
    <2>3. \A p \in Party : Head(A[p].prog).op \in Network
      BY <2>2, ExchangeHeads
    <2> QED BY <2>2, <2>3, PartyIs
  <1> QED BY <1>1, <1>2 DEF Moving

LEMMA CrossingIs ==
    ASSUME NEW A, Crossing(A)
    PROVE  \E kind, out, in : Exchanges(A, kind, out, in)
  BY MovingSplits DEF Crossing

\* What a rest state is not moved by
LEMMA RestStays ==
    ASSUME NEW A, Rest(A)
    PROVE  JAdvance(A) = A
  <1>1. A = [p \in Party |-> A[p]]
    BY DEF Rest, Between, EndedBoth, Crossing, Moving, IsJoint
  <1>2. ASSUME NEW p \in Party
        PROVE  A[p].prog \in Progs /\ (A[p].prog = <<>> \/ Head(A[p].prog).op \in Network)
    <2>1. CASE Between(A) \/ EndedBoth(A)
      <3>1. A[p].prog = <<>>
        BY <2>1 DEF Between, EndedBoth
      <3> QED BY <3>1 DEF Progs
    <2>2. CASE Crossing(A)
      <3>1. Head(A[0].prog).op \in Network /\ Head(A[1].prog).op \in Network
        BY <2>2, MovingSplits DEF Crossing
      <3> QED BY <2>2, <3>1, PartyIs DEF Crossing, Moving
    <2> QED BY <2>1, <2>2 DEF Rest
  <1>3. ASSUME NEW p \in Party PROVE Advance(p, A[p]) = A[p]
    <2>1. PICK s : s = A[p]
      OBVIOUS
    <2>2. s.prog \in Progs /\ (s.prog = <<>> \/ Head(s.prog).op \in Network)
      BY <1>2, <2>1
    <2>3. Advance(p, s) = s
      BY <2>2, AdvanceStop
    <2> QED BY <2>1, <2>3
  <1> QED BY <1>1, <1>3 DEF JAdvance

LocalMove(A, B) ==
    /\ JAdvance(A) = JAdvance(B) /\ SameLog(A, B) /\ Len(A[0].prog) \in Nat \ {0}
    /\ Len(B[0].prog) <= Len(A[0].prog) - 1 /\ Len(B[0].prog) \in Nat

LEMMA StepMoves ==
    ASSUME NEW A, Moving(A), SameStep(A), NEW B, B = Micro(A)
    PROVE  LocalMove(A, B)
  <1>1. B = [p \in Party |-> RunStep(p, A[p])]
    BY DEF Micro, SameStep
  <1>2. /\ \A p \in Party : /\ IsState(A[p]) /\ A[p].status = "running" /\ A[p].prog \in Progs
                            /\ A[p].prog # <<>>
        /\ Head(A[0].prog).op \notin Network /\ Head(A[1].prog).op \notin Network
    BY DEF Moving, IsJoint, SameStep
  <1>3. ASSUME NEW p \in Party
        PROVE  /\ Advance(p, A[p]) = Advance(p, B[p]) /\ B[p].handed = A[p].handed
               /\ B[p].calls = A[p].calls
               /\ B[p].prog = <<>> \/ B[p].prog = Tail(A[p].prog)
    <2>1. PICK s, u : s = A[p] /\ u = B[p]
      OBVIOUS
    <2>2. IsState(s) /\ s.status = "running" /\ s.prog \in Progs /\ s.prog # <<>>
      BY <1>2, <2>1
    <2>3. Head(s.prog).op \notin Network
      <3>1. p = 0 \/ p = 1
        BY PartyIs
      <3>2. CASE p = 0
        BY <1>2, <2>1, <3>2
      <3>3. CASE p = 1
        BY <1>2, <2>1, <3>3
      <3> QED BY <3>1, <3>2, <3>3
    <2>4. u = RunStep(p, s)
      BY <1>1, <2>1
    <2>5. Advance(p, s) = Advance(p, u)
      BY <2>2, <2>3, <2>4, AdvanceStep
    <2>6. PICK t : t = SetProg(s, Tail(s.prog))
      OBVIOUS
    <2>7. /\ IsState(t) /\ t.status = "running" /\ t.handed = s.handed /\ t.calls = s.calls
          /\ t.prog = Tail(s.prog)
      BY <2>2, <2>6, SetProgFacts
    <2>8. u = Compute(p, t, Head(s.prog))
      BY <2>2, <2>4, <2>6 DEF RunStep, SetProg
    <2>9. u.handed = t.handed /\ u.calls = t.calls /\ (u.prog = t.prog \/ u.prog = <<>>)
      BY <2>7, <2>8, ComputeShape
    <2> QED BY <2>1, <2>5, <2>7, <2>9
  <1>4. JAdvance(A) = JAdvance(B) /\ SameLog(A, B)
    BY <1>3 DEF JAdvance, SameLog
  <1>5. /\ Len(A[0].prog) \in Nat \ {0} /\ Len(Tail(A[0].prog)) = Len(A[0].prog) - 1
        /\ Len(<<>>) = 0
    BY <1>2, PartyIs, TailFacts
  <1>6. B[0].prog = <<>> \/ B[0].prog = Tail(A[0].prog)
    BY <1>3, PartyIs
  <1>7. /\ Len(A[0].prog) \in Nat \ {0} /\ Len(B[0].prog) <= Len(A[0].prog) - 1
        /\ Len(B[0].prog) \in Nat
    <2>1. CASE B[0].prog = <<>>
      BY <1>5, <2>1
    <2>2. CASE B[0].prog = Tail(A[0].prog)
      <3>1. Len(B[0].prog) = Len(A[0].prog) - 1
        BY <1>5, <2>2
      <3> QED BY <1>5, <3>1
    <2> QED BY <1>6, <2>1, <2>2
  <1> QED BY <1>4, <1>7 DEF LocalMove

Settles(A) == Rest(JAdvance(A)) /\ SameLog(A, JAdvance(A))

LEMMA RestSettles ==
    ASSUME NEW A, Rest(A)
    PROVE  Settles(A)
  BY RestStays DEF Settles, SameLog

\* A call that goes well settles, and hands nothing out on the way.
LEMMA AdvanceRests ==
    ASSUME NEW A, Safe(A)
    PROVE  Settles(A)
  <1> DEFINE T == {n \in Nat : \A X : Safe(X) /\ Len(X[0].prog) \in Nat
                                      /\ Len(X[0].prog) <= n => Settles(X)}
  <1>1. ASSUME NEW X, Safe(X)
        PROVE  Rest(X) \/ (Safe(Micro(X)) /\ LocalMove(X, Micro(X)))
    <2>1. CASE Between(X) \/ EndedBoth(X)
      BY <2>1 DEF Rest
    <2>2. CASE Moving(X) /\ Safe(Micro(X))
      <3>1. CASE SameStep(X) /\ Head(X[0].prog).op \notin Network
        <4>1. PICK Y : Y = Micro(X)
          OBVIOUS
        <4>2. LocalMove(X, Y)
          BY <2>2, <3>1, <4>1, StepMoves
        <4> QED BY <2>2, <4>1, <4>2
      <3>2. CASE Head(X[0].prog).op \in Network
        BY <1>1, <2>2, <3>2 DEF Rest, Crossing
      <3> QED BY <2>2, <3>1, <3>2, MovingSplits
    <2> QED BY <1>1, <2>1, <2>2, SafeGoesOn
  <1>2. ASSUME NEW X, NEW Y, LocalMove(X, Y), Settles(Y)
        PROVE  Settles(X)
    BY <1>2 DEF Settles, LocalMove, SameLog
  <1>3. 0 \in T
    <2>1. ASSUME NEW X, Safe(X), Len(X[0].prog) \in Nat, Len(X[0].prog) <= 0 PROVE Settles(X)
      <3>1. ~LocalMove(X, Micro(X))
        BY <2>1 DEF LocalMove
      <3> QED BY <1>1, <2>1, <3>1, RestSettles
    <2> QED BY <2>1
  <1>4. ASSUME NEW n \in Nat, n \in T PROVE n + 1 \in T
    <2>1. ASSUME NEW X, Safe(X), Len(X[0].prog) \in Nat, Len(X[0].prog) <= n + 1 PROVE Settles(X)
      <3>1. CASE Rest(X)
        BY <3>1, RestSettles
      <3>2. CASE Safe(Micro(X)) /\ LocalMove(X, Micro(X))
        <4>1. PICK Y : Y = Micro(X)
          OBVIOUS
        <4>2. Safe(Y) /\ LocalMove(X, Y)
          BY <3>2, <4>1
        <4>3. Len(Y[0].prog) \in Nat /\ Len(Y[0].prog) <= n
          BY <2>1, <4>2 DEF LocalMove
        <4>4. Settles(Y)
          BY <1>4, <4>2, <4>3
        <4> QED BY <1>2, <4>2, <4>4
      <3> QED BY <1>1, <2>1, <3>1, <3>2
    <2> QED BY <2>1
  <1> HIDE DEF T
  <1>5. \A n \in Nat : n \in T
    BY <1>3, <1>4, Induction
  <1>6. CASE Rest(A)
    BY <1>6, RestSettles
  <1>7. CASE LocalMove(A, Micro(A))
    <2>1. Len(A[0].prog) \in Nat
      BY <1>7 DEF LocalMove
    <2>2. Len(A[0].prog) \in T
      BY <1>5, <2>1
    <2> QED BY <2>1, <2>2 DEF T
  <1> QED BY <1>1, <1>6, <1>7

---------------------------------------------------------------------------
(* The parties' next call, or the end of their tasks                       *)

Begun(s) == [s EXCEPT !.calls = Tail(@), !.mem = <<>>]
JBegun(A) == [p \in Party |-> Begun(A[p])]

CallOf(p, s) ==
    IF s.calls = <<>> THEN [s EXCEPT !.status = "done"]
    ELSE IF Head(s.calls).op \in Generators
    THEN Advance(p, SetProg(Begun(s), Program(p, s.lg, Head(s.calls))))
    ELSE LocalCall(p, Begun(s), Head(s.calls))

JCall(A) == [p \in Party |-> CallOf(p, A[p])]

\* What was handed out stays, and more may follow.
Pre(x, y) == IsList(x) /\ IsList(y) /\ Len(x) <= Len(y) /\ \A k \in 1..Len(x) : y[k] = x[k]
Grows(A, B) == \A p \in Party : Pre(A[p].handed, B[p].handed)

LEMMA PreFacts ==
    /\ \A x : IsList(x) => Pre(x, x)
    /\ \A x, y, z : Pre(x, y) /\ Pre(y, z) => Pre(x, z)
    /\ \A x, h : IsList(x) => Pre(x, Append(x, h))
  <1>1. ASSUME NEW x, IsList(x) PROVE Pre(x, x)
    <2>1. PICK S : x \in Seq(S)
      BY <1>1 DEF IsList
    <2>2. Len(x) \in Nat
      BY <2>1
    <2> QED BY <1>1, <2>2 DEF Pre
  <1>2. ASSUME NEW x, NEW y, NEW z, Pre(x, y), Pre(y, z) PROVE Pre(x, z)
    <2>1. Len(x) \in Nat /\ Len(y) \in Nat /\ Len(z) \in Nat
      BY <1>2 DEF Pre, IsList
    <2>2. IsList(x) /\ IsList(z) /\ Len(x) <= Len(z)
      BY <1>2, <2>1 DEF Pre
    <2>3. ASSUME NEW k \in 1..Len(x) PROVE z[k] = x[k]
      <3>1. k \in 1..Len(y)
        BY <1>2, <2>1, <2>3 DEF Pre
      <3> QED BY <1>2, <3>1 DEF Pre
    <2> QED BY <2>2, <2>3 DEF Pre
  <1>3. ASSUME NEW x, NEW h, IsList(x) PROVE Pre(x, Append(x, h))
    <2>1. PICK S : x \in Seq(S)
      BY <1>3 DEF IsList
    <2>2. PICK T : T = S \cup {h}
      OBVIOUS
    <2>3. x \in Seq(T) /\ h \in T
      BY <2>1, <2>2
    <2>4. PICK y : y = Append(x, h)
      OBVIOUS
    <2>5. y \in Seq(T) /\ Len(y) = Len(x) + 1 /\ Len(x) \in Nat /\ \A k \in 1..Len(x) : y[k] = x[k]
      BY <2>3, <2>4
    <2>6. IsList(y)
      BY <2>5 DEF IsList
    <2> QED BY <1>3, <2>4, <2>5, <2>6 DEF Pre
  <1> QED BY <1>1, <1>2, <1>3

LEMMA BegunFacts ==
    ASSUME NEW s, IsState(s), NEW t, t = Begun(s)
    PROVE  /\ IsState(t) /\ t.calls = Tail(s.calls) /\ t.mem = <<>> /\ t.lg = s.lg
           /\ t.prep = s.prep /\ t.used = s.used /\ t.handed = s.handed /\ t.prog = s.prog
           /\ t.drawn = s.drawn /\ t.status = s.status
  <1>1. PICK r : r = [s EXCEPT !.calls = Tail(@)]
    OBVIOUS
  <1>2. /\ IsState(r) /\ r.calls = Tail(s.calls) /\ r.lg = s.lg
        /\ r.prep = s.prep /\ r.used = s.used /\ r.handed = s.handed /\ r.prog = s.prog
        /\ r.drawn = s.drawn /\ r.status = s.status
    BY <1>1 DEF IsState, Fields
  <1>3. t = [r EXCEPT !.mem = <<>>]
    BY <1>1 DEF Begun
  <1> QED BY <1>2, <1>3 DEF IsState, Fields

LEMMA LocalGrows ==
    ASSUME NEW p, NEW s, IsState(s), IsList(s.handed), NEW call \in Calls,
           call.op \notin Generators, NEW u, u = LocalCall(p, s, call)
    PROVE  Pre(s.handed, u.handed)
  <1>0. call.op \in {"run_offline_phase", "next", "new_from_params", "get_offline_result", "append"}
    BY DEF Calls, Generators
  <1>1. /\ \A e : Fail(s, e).handed = s.handed
        /\ \A x : [s EXCEPT !.lg = x].handed = s.handed
        /\ \A x : [s EXCEPT !.calls = x].handed = s.handed
    BY DEF Fail, IsState, Fields
  <1>2. ASSUME u.handed = s.handed PROVE Pre(s.handed, u.handed)
    BY <1>2, PreFacts
  <1>3. CASE call.op = "run_offline_phase"
    <2>1. \E x : u = [s EXCEPT !.calls = x]
      BY <1>3 DEF LocalCall
    <2> QED BY <1>1, <1>2, <2>1
  <1>4. CASE call.op = "next"
    <2>1. u = next(s, p, call.req)
      BY <1>4 DEF LocalCall
    <2>2. CASE SizeOf(s.prep[PoolOf(p, call.req)]) < call.req.n
      <3>1. u = Fail(s, "panic")
        BY <2>1, <2>2 DEF next
      <3> QED BY <1>1, <1>2, <3>1
    <2>3. CASE ~(SizeOf(s.prep[PoolOf(p, call.req)]) < call.req.n)
      <3>1. PICK f, x, h, z :
               /\ f = PoolOf(p, call.req) /\ x = Leave(s.prep[f], call.req.n)
               /\ h = [req |-> call.req, got |-> Take(s.prep[f], call.req.n)]
               /\ z = IF f = "triplets" THEN s.used \o Log("online", Take(s.prep[f], call.req.n))
                      ELSE s.used
        OBVIOUS
      <3>2. u = [s EXCEPT !.prep[f] = x, !.handed = Append(@, h), !.used = z]
        BY <2>1, <2>3, <3>1 DEF next
      <3> HIDE <3>1
      <3>3. PICK r, q : r = [s EXCEPT !.prep[f] = x] /\ q = [r EXCEPT !.handed = Append(@, h)]
        OBVIOUS
      <3>4. IsState(r) /\ r.handed = s.handed
        BY <3>3 DEF IsState, Fields
      <3>5. IsState(q) /\ q.handed = Append(s.handed, h)
        BY <3>3, <3>4 DEF IsState, Fields
      <3>6. u = [q EXCEPT !.used = z]
        BY <3>2, <3>3
      <3>7. u.handed = Append(s.handed, h)
        BY <3>5, <3>6 DEF IsState, Fields
      <3> QED BY <3>7, PreFacts
    <2> QED BY <2>2, <2>3
  <1>5. CASE s.lg.other_pk = None /\ call.op \notin {"run_offline_phase", "next"}
    <2>1. u = Fail(s, "NotSetup")
      BY <1>5 DEF LocalCall
    <2> QED BY <1>1, <1>2, <2>1
  <1>6. CASE s.lg.other_pk # None /\ call.op = "new_from_params"
    <2>1. \E x : u = [s EXCEPT !.lg = x]
      BY <1>6 DEF LocalCall, CallOnResult
    <2> QED BY <1>1, <1>2, <2>1
  <1>7. CASE s.lg.other_pk # None /\ call.op = "get_offline_result"
    <2>1. u = CallOnResult(s, call)
      BY <1>7 DEF LocalCall
    <2>2. PICK x, y : u = SetStore(s, x, y)
      BY <1>7, <2>1, CopyIs
    <2>3. u.handed = s.handed
      BY <2>2, CopyFacts
    <2> QED BY <1>2, <2>3
  <1>8. CASE s.lg.other_pk # None /\ call.op = "append"
    <2>1. u = CallOnResult(s, call)
      BY <1>8 DEF LocalCall
    <2>2. PICK x, y : u = SetStore(s, x, y)
      BY <1>8, <2>1, CopyIs
    <2>3. u.handed = s.handed
      BY <2>2, CopyFacts
    <2> QED BY <1>2, <2>3
  <1> QED BY <1>0, <1>3, <1>4, <1>5, <1>6, <1>7, <1>8

LEMMA BegunBetween ==
    ASSUME NEW A, Between(A), A[0].calls # <<>>, NEW K, K = JBegun(A)
    PROVE  /\ Between(K) /\ Head(A[0].calls) \in Calls
           /\ \A p \in Party : K[p] = Begun(A[p]) /\ K[p].lg = A[p].lg /\ K[p].handed = A[p].handed
  <1>1. PICK c : c = A[0].calls
    OBVIOUS
  <1>2. c \in Seq(Calls) /\ c # <<>>
    BY <1>1 DEF Between
  <1>3. Head(c) \in Calls /\ Tail(c) \in Seq(Calls)
    BY <1>2
  <1>4. IsJoint(A) /\ \A p \in Party : A[p].prog = <<>>
    BY DEF Between
  <1>5. \A p \in Party : K[p] = Begun(A[p])
    BY DEF JBegun
  <1>6. ASSUME NEW p \in Party
        PROVE  /\ IsState(K[p]) /\ K[p].calls = Tail(c) /\ K[p].lg = A[p].lg
               /\ K[p].prep = A[p].prep /\ K[p].handed = A[p].handed
               /\ K[p].prog = <<>> /\ K[p].drawn = A[p].drawn /\ K[p].status = A[p].status
    <2>1. IsState(A[p]) /\ A[p].prog = <<>> /\ A[p].calls = c
      BY <1>1, <1>4, PartyIs DEF IsJoint
    <2>2. PICK s, t : s = A[p] /\ t = K[p]
      OBVIOUS
    <2>3. IsState(s) /\ s.prog = <<>> /\ s.calls = c /\ t = Begun(s)
      BY <1>5, <2>1, <2>2
    <2>4. /\ IsState(t) /\ t.calls = Tail(s.calls) /\ t.lg = s.lg /\ t.prep = s.prep
          /\ t.handed = s.handed /\ t.prog = s.prog /\ t.drawn = s.drawn /\ t.status = s.status
      BY <2>3, BegunFacts
    <2> QED BY <2>2, <2>3, <2>4
  <1>7. K = [p \in Party |-> K[p]]
    BY DEF JBegun
  <1>8. IsJoint(K)
    <2>1. /\ \A p \in Party : A[p].status = "running" /\ A[p].drawn \in Nat
          /\ FitsAll(A[0].handed, A[1].handed)
      BY <1>4 DEF IsJoint
    <2>2. \A p \in Party : IsState(K[p]) /\ K[p].status = "running" /\ K[p].drawn \in Nat
      BY <1>6, <2>1
    <2>3. K[0].calls = K[1].calls /\ FitsAll(K[0].handed, K[1].handed)
      BY <1>6, <2>1, PartyIs
    <2> QED BY <1>7, <2>2, <2>3 DEF IsJoint
  <1>9. Lg(K) = Lg(A) /\ Prep(K) = Prep(A)
    BY <1>6 DEF Lg, Prep
  <1>10. Between(K)
    BY <1>3, <1>6, <1>8, <1>9, PartyIs DEF Between
  <1> QED BY <1>1, <1>3, <1>5, <1>6, <1>10

\* After a call both parties are in order, or stopped alike, or at the same
\* exchange of a call that will leave them so.
LEMMA CallRests ==
    ASSUME DrawsInField, KeysInField, NEW A, Between(A)
    PROVE  Rest(JCall(A)) /\ Grows(A, JCall(A))
  <1>1. PICK c : c = A[0].calls
    OBVIOUS
  <1>2. /\ IsJoint(A) /\ A = [p \in Party |-> A[p]] /\ FitsAll(A[0].handed, A[1].handed)
        /\ \A p \in Party : IsState(A[p]) /\ A[p].prog = <<>>
    BY DEF Between, IsJoint
  <1>3. \A p \in Party : A[p].calls = c
    BY <1>1, <1>2, PartyIs DEF IsJoint
  <1>4. \A p \in Party : IsList(A[p].handed)
    BY <1>2, PartyIs DEF FitsAll
  <1>5. CASE c = <<>>
    <2>1. PICK K : K = JCall(A)
      OBVIOUS
    <2>2. K = [p \in Party |-> [A[p] EXCEPT !.status = "done"]]
      BY <1>3, <1>5, <2>1 DEF JCall, CallOf
    <2>3. ASSUME NEW p \in Party
          PROVE  /\ IsState(K[p]) /\ K[p].prog = <<>> /\ K[p].calls = c /\ K[p].status = "done"
                 /\ K[p].handed = A[p].handed /\ K[p].lg = A[p].lg
      BY <1>2, <1>3, <2>2 DEF IsState, Fields
    <2>4. K = [p \in Party |-> K[p]]
      BY <2>2
    <2>5. EndedBoth(K)
      <3>1. Lg(K) = Lg(A)
        BY <2>3 DEF Lg
      <3>2. LgOK(Lg(K))
        BY <3>1 DEF Between
      <3> QED BY <1>2, <2>3, <2>4, <3>2, PartyIs DEF EndedBoth
    <2>6. Grows(A, K)
      BY <1>4, <2>3, PreFacts DEF Grows
    <2> QED BY <2>1, <2>5, <2>6 DEF Rest
  <1>6. CASE c # <<>>
    <2>1. PICK K, call : K = JBegun(A) /\ call = Head(c)
      OBVIOUS
    <2>2. /\ Between(K) /\ call \in Calls
          /\ \A p \in Party : K[p] = Begun(A[p]) /\ K[p].lg = A[p].lg /\ K[p].handed = A[p].handed
      BY <1>1, <1>6, <2>1, BegunBetween
    <2>3. CASE call.op \in Generators
      <3>1. PICK G, B : G = JProgram(K, call) /\ B = With(K, G)
        OBVIOUS
      <3>2. IsJoint(K) /\ LgOK(Lg(K)) /\ PrepOK(Prep(K)) /\ K[0].calls \in Seq(Calls)
        BY <2>2 DEF Between
      <3>3. Ends(G, K)
        BY <2>2, <2>3, <3>1, <3>2, ProgramEnds
      <3>4. Safe(B)
        BY <3>1, <3>2, <3>3, EndsSafe
      <3>5. Rest(JAdvance(B)) /\ SameLog(B, JAdvance(B))
        BY <3>4, AdvanceRests DEF Settles
      <3>6. ASSUME NEW p \in Party
            PROVE  CallOf(p, A[p]) = Advance(p, B[p]) /\ B[p].handed = A[p].handed
        <4>1. PICK g : g = Program(p, A[p].lg, call)
          OBVIOUS
        <4>2. G[p] = g
          BY <2>2, <3>1, <4>1 DEF JProgram
        <4>3. B[p] = SetProg(K[p], g)
          BY <3>1, <4>2 DEF With
        <4>4. IsState(K[p])
          BY <3>2 DEF IsJoint
        <4>5. B[p].handed = K[p].handed
          BY <4>3, <4>4, SetProgFacts
        <4>6. CallOf(p, A[p]) = Advance(p, SetProg(Begun(A[p]), g))
          BY <1>3, <1>6, <2>1, <2>3, <4>1 DEF CallOf
        <4> QED BY <2>2, <4>3, <4>5, <4>6
      <3>7. JCall(A) = JAdvance(B)
        BY <3>6 DEF JCall, JAdvance
      <3>8. \A p \in Party : JAdvance(B)[p].handed = A[p].handed
        BY <3>5, <3>6 DEF SameLog
      <3>9. Grows(A, JAdvance(B))
        BY <1>4, <3>8, PreFacts DEF Grows
      <3> QED BY <3>5, <3>7, <3>9
    <2>4. CASE call.op \notin Generators
      <3>1. PICK B : B = JLocal(K, call)
        OBVIOUS
      <3>2. Between(B) \/ EndedBoth(B)
        BY <2>2, <2>4, <3>1, LocalEnds
      <3>3. ASSUME NEW p \in Party
            PROVE  CallOf(p, A[p]) = B[p] /\ Pre(A[p].handed, B[p].handed)
        <4>1. B[p] = LocalCall(p, K[p], call)
          BY <3>1 DEF JLocal
        <4>2. CallOf(p, A[p]) = LocalCall(p, Begun(A[p]), call)
          BY <1>3, <1>6, <2>1, <2>4 DEF CallOf
        <4>3. IsState(K[p]) /\ IsList(K[p].handed)
          BY <1>4, <2>2 DEF Between, IsJoint
        <4>4. Pre(K[p].handed, B[p].handed)
          BY <2>2, <2>4, <4>1, <4>3, LocalGrows
        <4> QED BY <2>2, <4>1, <4>2, <4>4
      <3>4. B = [p \in Party |-> B[p]]
        BY <3>1 DEF JLocal
      <3>5. JCall(A) = B
        BY <3>3, <3>4 DEF JCall
      <3>6. Grows(A, B)
        BY <3>3 DEF Grows
      <3> QED BY <3>2, <3>5, <3>6 DEF Rest
    <2> QED BY <2>3, <2>4
  <1> QED BY <1>5, <1>6

---------------------------------------------------------------------------
(* One party may be some calls ahead of the other                          *)

IsPath(c, n, A, B) ==
    /\ n \in Nat /\ c[0] = A /\ c[n] = B
    /\ \A k \in 0..n - 1 : Between(c[k]) /\ c[k + 1] = JCall(c[k])
    /\ \A k \in 0..n : Grows(c[k], B)

\* From A, calls that leave the parties between calls lead to B.
Path(A, B) == \E c, n : IsPath(c, n, A, B)

LEMMA PathFacts ==
    ASSUME NEW A, NEW B, Path(A, B)
    PROVE  Grows(A, B) /\ (A = B \/ (Between(A) /\ Path(JCall(A), B)))
  <1>1. PICK c, n : IsPath(c, n, A, B)
    BY DEF Path
  <1>2. n \in Nat /\ Grows(A, B) /\ c[0] = A /\ c[n] = B
    BY <1>1 DEF IsPath
  <1>3. CASE n = 0
    BY <1>2, <1>3
  <1>4. CASE n # 0
    <2>1. PICK d : d = [k \in 0..n - 1 |-> c[k + 1]]
      OBVIOUS
    <2>2. Between(A) /\ c[1] = JCall(A)
      BY <1>1, <1>2, <1>4 DEF IsPath
    <2>3. d[0] = JCall(A) /\ d[n - 1] = B /\ n - 1 \in Nat
      BY <1>2, <1>4, <2>1, <2>2
    <2>4. ASSUME NEW k \in 0..(n - 1) - 1 PROVE Between(d[k]) /\ d[k + 1] = JCall(d[k])
      <3>1. k + 1 \in 0..n - 1 /\ d[k] = c[k + 1] /\ d[k + 1] = c[(k + 1) + 1]
        BY <1>2, <1>4, <2>1
      <3> QED BY <1>1, <3>1 DEF IsPath
    <2>5. ASSUME NEW k \in 0..n - 1 PROVE Grows(d[k], B)
      <3>1. k + 1 \in 0..n /\ d[k] = c[k + 1]
        BY <1>2, <1>4, <2>1
      <3> QED BY <1>1, <3>1 DEF IsPath
    <2>6. IsPath(d, n - 1, JCall(A), B)
      BY <2>3, <2>4, <2>5 DEF IsPath
    <2> QED BY <1>2, <2>2, <2>6 DEF Path
  <1> QED BY <1>3, <1>4

LEMMA PathNil ==
    ASSUME NEW A, Grows(A, A)
    PROVE  Path(A, A)
  <1>1. PICK c : c = [k \in {0} |-> A]
    OBVIOUS
  <1>2. IsPath(c, 0, A, A)
    BY <1>1 DEF IsPath
  <1> QED BY <1>2 DEF Path

LEMMA PathMore ==
    ASSUME DrawsInField, KeysInField, NEW A, NEW B, Path(A, B), Between(B)
    PROVE  Path(A, JCall(B))
  <1>1. PICK c, n : IsPath(c, n, A, B)
    BY DEF Path
  <1>2. n \in Nat /\ c[0] = A /\ c[n] = B
    BY <1>1 DEF IsPath
  <1>3. PICK C : C = JCall(B)
    OBVIOUS
  <1>4. Grows(B, C) /\ Rest(C)
    BY <1>3, CallRests
  <1>5. PICK d : d = [k \in 0..n + 1 |-> IF k <= n THEN c[k] ELSE C]
    OBVIOUS
  <1>6. d[0] = A /\ d[n] = B /\ d[n + 1] = C
    BY <1>2, <1>5
  <1>7. ASSUME NEW k \in 0..(n + 1) - 1 PROVE Between(d[k]) /\ d[k + 1] = JCall(d[k])
    <2>1. CASE k = n
      BY <1>2, <1>3, <1>6, <2>1
    <2>2. CASE k # n
      <3>1. k \in 0..n - 1 /\ d[k] = c[k] /\ d[k + 1] = c[k + 1]
        BY <1>2, <1>5, <1>7, <2>2
      <3> QED BY <1>1, <3>1 DEF IsPath
    <2> QED BY <2>1, <2>2
  <1>8. \A X : Grows(X, B) => Grows(X, C)
    BY <1>4, PreFacts DEF Grows
  <1>9. Grows(C, C)
    <2>1. \A p \in Party : IsList(C[p].handed)
      BY <1>4 DEF Grows, Pre
    <2> QED BY <2>1, PreFacts DEF Grows
  <1>10. ASSUME NEW k \in 0..n + 1 PROVE Grows(d[k], C)
    <2>1. CASE k = n + 1
      BY <1>6, <1>9, <2>1
    <2>2. CASE k # n + 1
      <3>1. k \in 0..n /\ d[k] = c[k]
        BY <1>2, <1>5, <1>10, <2>2
      <3>2. Grows(c[k], B)
        BY <1>1, <3>1 DEF IsPath
      <3> QED BY <1>8, <3>1, <3>2
    <2> QED BY <2>1, <2>2
  <1>11. IsPath(d, n + 1, A, C)
    BY <1>2, <1>6, <1>7, <1>10 DEF IsPath
  <1> QED BY <1>3, <1>11 DEF Path

\* A state whose parties hold lists is its own path.
LEMMA RestGrows ==
    ASSUME NEW A, Rest(A)
    PROVE  Grows(A, A) /\ Path(A, A) /\ FitsAll(A[0].handed, A[1].handed)
  <1>1. FitsAll(A[0].handed, A[1].handed)
    BY DEF Rest, Between, EndedBoth, Crossing, Moving, IsJoint
  <1>2. \A p \in Party : IsList(A[p].handed)
    BY <1>1, PartyIs DEF FitsAll
  <1>3. Grows(A, A)
    BY <1>2, PreFacts DEF Grows
  <1> QED BY <1>1, <1>3, PathNil

---------------------------------------------------------------------------
(* What the parties' states and the wires say of each other                *)

NoMail(W) == W[0] = <<>> /\ W[1] = <<>>
Mail(kind, v) == <<[kind |-> kind, body |-> v]>>

\* Party q has yet to make the calls from A to B, where the other is.
Apart(P, W, q, A, B) ==
    Path(A, B) /\ Rest(B) /\ NoMail(W) /\ q \in Party /\ P[q] = A[q] /\ P[1 - q] = B[1 - q]

\* Party 0 has sent its message of the exchange at B; party 1 is at A.
Sent(P, W, A, B, kind, out, in) ==
    /\ Path(A, B) /\ Crossing(B) /\ Exchanges(B, kind, out, in)
    /\ P[0] = Past(B[0]) /\ P[1] = A[1]
    /\ W[0] = <<>> /\ W[1] = Mail(kind, B[0].mem[out])

\* Party 1 has received it, and is about to answer.
Taken(P, W, B, kind, out, in) ==
    /\ Crossing(B) /\ Exchanges(B, kind, out, in) /\ NoMail(W)
    /\ P[0] = Past(B[0]) /\ P[1] = Put(Past(B[1]), in, B[0].mem[out])

\* Party 1 has answered and gone on to C.
Replied(P, W, B, C, kind, out, in) ==
    /\ Crossing(B) /\ Exchanges(B, kind, out, in)
    /\ Path(JAdvance(Swap(B)), C) /\ Rest(C)
    /\ P[0] = Past(B[0]) /\ P[1] = C[1]
    /\ W[0] = Mail(kind, B[1].mem[out]) /\ W[1] = <<>>

Linked(P, W) ==
    \/ \E q, A, B : Apart(P, W, q, A, B)
    \/ \E A, B, kind, out, in : Sent(P, W, A, B, kind, out, in)
    \/ \E B, kind, out, in : Taken(P, W, B, kind, out, in)
    \/ \E B, C, kind, out, in : Replied(P, W, B, C, kind, out, in)

---------------------------------------------------------------------------
(* The parties during an exchange                                          *)

Ready(s, op, kind, reg) ==
    /\ IsState(s) /\ s.status = "running" /\ s.prog \in Progs /\ s.prog # <<>>
    /\ Head(s.prog).op = op /\ Head(s.prog).kind = kind /\ Head(s.prog).reg = reg

LEMMA PastReady ==
    ASSUME NEW s, IsState(s), s.status = "running", NEW t, t = Past(s),
           NEW op, NEW kind, NEW reg, Tail(s.prog) \in Progs, Tail(s.prog) # <<>>,
           Head(Tail(s.prog)).op = op, Head(Tail(s.prog)).kind = kind,
           Head(Tail(s.prog)).reg = reg
    PROVE  Ready(t, op, kind, reg) /\ t.handed = s.handed /\ t.mem = s.mem
  <1>1. t = SetProg(s, Tail(s.prog))
    BY DEF Past, SetProg
  <1>2. PICK g : g = Tail(s.prog)
    OBVIOUS
  <1>3. IsState(t) /\ t.prog = g /\ t.handed = s.handed /\ t.mem = s.mem /\ t.status = s.status
    BY <1>1, <1>2, SetProgFacts
  <1> QED BY <1>2, <1>3 DEF Ready

LEMMA ReadyStops ==
    ASSUME NEW s, NEW op \in Network, NEW kind, NEW reg, Ready(s, op, kind, reg), NEW p
    PROVE  Advance(p, s) = s
  <1>1. s.prog \in Progs /\ Head(s.prog).op \in Network
    BY DEF Ready
  <1> QED BY <1>1, AdvanceStop

LEMMA PutReady ==
    ASSUME NEW s, NEW op, NEW kind, NEW reg, Ready(s, op, kind, reg), NEW r, NEW v,
           NEW t, t = Put(s, r, v)
    PROVE  /\ Ready(t, op, kind, reg) /\ t.handed = s.handed
           /\ \A q \in DOMAIN s.mem : q # r => t.mem[q] = s.mem[q]
           /\ Past(t) = Put(Past(s), r, v)
  <1>1. PICK m : m = [q \in DOMAIN s.mem \cup {r} |-> IF q = r THEN v ELSE s.mem[q]]
    OBVIOUS
  <1>2. t = [s EXCEPT !.mem = m]
    BY <1>1 DEF Put
  <1>3. \A q \in DOMAIN s.mem : q # r => m[q] = s.mem[q]
    BY <1>1
  <1>4. IsState(s)
    BY DEF Ready
  <1>5. PICK g : g = Tail(s.prog)
    OBVIOUS
  <1>6. PICK u : u = [s EXCEPT !.prog = g]
    OBVIOUS
  <1>7. u = Past(s) /\ u.mem = s.mem /\ IsState(u)
    BY <1>4, <1>5, <1>6 DEF Past, IsState, Fields
  <1>8. Put(u, r, v) = [u EXCEPT !.mem = m]
    BY <1>1, <1>7 DEF Put
  <1> HIDE <1>1, <1>5
  <1>9. /\ IsState(t) /\ t.prog = s.prog /\ t.handed = s.handed /\ t.mem = m
        /\ t.status = s.status
    BY <1>2, <1>4 DEF IsState, Fields
  <1>10. Past(t) = [t EXCEPT !.prog = g]
    BY <1>5, <1>9 DEF Past
  <1>11. [t EXCEPT !.prog = g] = [u EXCEPT !.mem = m]
    BY <1>2, <1>4, <1>6 DEF IsState, Fields
  <1>12. Ready(t, op, kind, reg)
    BY <1>9 DEF Ready
  <1> QED BY <1>3, <1>7, <1>8, <1>9, <1>10, <1>11, <1>12

LEMMA CrossFacts ==
    ASSUME NEW B, Crossing(B), NEW kind, NEW out, NEW in, Exchanges(B, kind, out, in)
    PROVE  /\ Ready(B[0], "send", kind, out) /\ Ready(B[1], "recv", kind, in)
           /\ Ready(Past(B[0]), "recv", kind, in) /\ Ready(Past(B[1]), "send", kind, out)
           /\ Past(B[0]).handed = B[0].handed /\ Past(B[1]).handed = B[1].handed
           /\ Past(B[1]).mem = B[1].mem /\ out \in DOMAIN B[1].mem /\ out # in
  <1>1. \A p \in Party : IsState(B[p]) /\ B[p].status = "running"
    BY DEF Crossing, Moving, IsJoint
  <1>2. /\ \A p \in Party : StartsExchange(p, kind, out, in, B[p].prog, Tail(Tail(B[p].prog)))
        /\ \A p \in Party : out \in DOMAIN B[p].mem
        /\ out # in
    BY DEF Exchanges
  <1>3. /\ B[0].prog \in Progs /\ B[0].prog # <<>> /\ Tail(B[0].prog) \in Progs
        /\ Tail(B[0].prog) # <<>> /\ Head(B[0].prog).kind = kind
        /\ Head(B[0].prog).op = "send" /\ Head(B[0].prog).reg = out
        /\ Head(Tail(B[0].prog)).op = "recv" /\ Head(Tail(B[0].prog)).reg = in
        /\ Head(Tail(B[0].prog)).kind = kind
    BY <1>2, PartyIs DEF StartsExchange
  <1>4. /\ B[1].prog \in Progs /\ B[1].prog # <<>> /\ Tail(B[1].prog) \in Progs
        /\ Tail(B[1].prog) # <<>> /\ Head(B[1].prog).kind = kind
        /\ Head(B[1].prog).op = "recv" /\ Head(B[1].prog).reg = in
        /\ Head(Tail(B[1].prog)).op = "send" /\ Head(Tail(B[1].prog)).reg = out
        /\ Head(Tail(B[1].prog)).kind = kind
    BY <1>2, PartyIs DEF StartsExchange
  <1>5. Ready(B[0], "send", kind, out) /\ Ready(B[1], "recv", kind, in)
    BY <1>1, <1>3, <1>4, PartyIs DEF Ready
  <1>6. PICK s, t : s = B[0] /\ t = B[1]
    OBVIOUS
  <1>7. IsState(s) /\ s.status = "running" /\ IsState(t) /\ t.status = "running"
    BY <1>1, <1>6, PartyIs
  <1>8. PICK u, v : u = Past(s) /\ v = Past(t)
    OBVIOUS
  <1>9. Ready(u, "recv", kind, in) /\ u.handed = s.handed
    BY <1>3, <1>6, <1>7, <1>8, PastReady
  <1>10. Ready(v, "send", kind, out) /\ v.handed = t.handed /\ v.mem = t.mem
    BY <1>4, <1>6, <1>7, <1>8, PastReady
  <1> QED BY <1>2, <1>5, <1>6, <1>8, <1>9, <1>10, PartyIs

LEMMA SwapRests ==
    ASSUME NEW B, Crossing(B), NEW kind, NEW out, NEW in, Exchanges(B, kind, out, in)
    PROVE  /\ Rest(JAdvance(Swap(B))) /\ SameLog(B, JAdvance(Swap(B)))
           /\ JAdvance(Swap(B))[0] = Advance(0, Put(Past(Past(B[0])), in, B[1].mem[out]))
           /\ JAdvance(Swap(B))[1] = Advance(1, Put(Past(Past(B[1])), in, B[0].mem[out]))
  <1>1. Ready(B[0], "send", kind, out) /\ Ready(B[1], "recv", kind, in)
    BY CrossFacts
  <1>2. B[0].prog # <<>> /\ Head(B[0].prog).reg = out /\ Head(B[1].prog).reg = in
        /\ Head(B[0].prog).op \in Network /\ B[0].status = "running"
    BY <1>1 DEF Ready, Network
  <1>3. PICK C : C = Swap(B)
    OBVIOUS
  <1>4. Micro(B) = C
    BY <1>2, <1>3 DEF Micro
  <1>5. ~Between(B) /\ ~EndedBoth(B)
    BY <1>2, PartyIs DEF Between, EndedBoth
  <1>6. Safe(B)
    BY DEF Crossing
  <1>7. Safe(C)
    BY <1>4, <1>5, <1>6, SafeGoesOn
  <1>8. Rest(JAdvance(C)) /\ SameLog(C, JAdvance(C))
    BY <1>7, AdvanceRests DEF Settles
  <1>9. /\ C[0] = Put(Past(Past(B[0])), in, B[1].mem[out])
        /\ C[1] = Put(Past(Past(B[1])), in, B[0].mem[out])
    <2>1. \A p \in Party : C[p] = Put(Past(Past(B[p])), in, B[1 - p].mem[out])
      BY <1>2, <1>3 DEF Swap
    <2> QED BY <2>1, PartyIs
  <1>10. ASSUME NEW s, IsState(s), NEW r, NEW v
         PROVE  /\ Put(Past(Past(s)), r, v).handed = s.handed
                /\ Put(Past(Past(s)), r, v).calls = s.calls
    <2>1. PICK t : t = Past(s)
      OBVIOUS
    <2>2. IsState(t) /\ t.handed = s.handed /\ t.calls = s.calls
      BY <1>10, <2>1 DEF Past, IsState, Fields
    <2>3. PICK u : u = Past(t)
      OBVIOUS
    <2>4. IsState(u) /\ u.handed = t.handed /\ u.calls = t.calls
      BY <2>2, <2>3 DEF Past, IsState, Fields
    <2>5. Put(u, r, v).handed = u.handed /\ Put(u, r, v).calls = u.calls
      BY <2>4 DEF Put, IsState, Fields
    <2> QED BY <2>1, <2>2, <2>3, <2>4, <2>5
  <1>11. IsState(B[0]) /\ IsState(B[1])
    BY <1>1 DEF Ready
  <1>12. /\ C[0].handed = B[0].handed /\ C[1].handed = B[1].handed
         /\ C[0].calls = B[0].calls /\ C[1].calls = B[1].calls
    BY <1>9, <1>10, <1>11
  <1>13. SameLog(B, JAdvance(C))
    <2>1. \A p \in Party : C[p].handed = B[p].handed /\ C[p].calls = B[p].calls
      BY <1>12, PartyIs
    <2> QED BY <1>8, <2>1 DEF SameLog
  <1>14. JAdvance(C)[0] = Advance(0, C[0]) /\ JAdvance(C)[1] = Advance(1, C[1])
    BY PartyIs DEF JAdvance
  <1> QED BY <1>3, <1>8, <1>9, <1>13, <1>14

\* What one party's state tells of a joint rest state
LEMMA RestParty ==
    ASSUME NEW B, Rest(B), NEW p \in Party
    PROVE  /\ B[p].status = "running" /\ B[p].prog = <<>> => Between(B)
           /\ B[p].prog # <<>> => Crossing(B)
           /\ B[p].status # "running" => EndedBoth(B) /\ B[1 - p].status # "running"
           /\ B[p].status \in {"running", "done", "panic", "NotSetup"}
  <1>0. 1 - p \in Party
    BY PartyIs
  <1>1. CASE Between(B)
    <2>1. B[p].status = "running" /\ B[p].prog = <<>>
      BY <1>1 DEF Between, IsJoint
    <2> QED BY <1>1, <2>1
  <1>2. CASE EndedBoth(B)
    <2>1. /\ B[p].prog = <<>> /\ B[0].status = B[1].status
          /\ B[0].status \in {"done", "panic", "NotSetup"}
      BY <1>2 DEF EndedBoth
    <2>2. B[p].status # "running" /\ B[1 - p].status # "running"
          /\ B[p].status \in {"running", "done", "panic", "NotSetup"}
      BY <2>1, PartyIs
    <2> QED BY <1>2, <2>1, <2>2
  <1>3. CASE Crossing(B)
    <2>1. B[p].status = "running" /\ B[p].prog # <<>>
      BY <1>3 DEF Crossing, Moving, IsJoint
    <2> QED BY <1>3, <2>1
  <1> QED BY <1>1, <1>2, <1>3 DEF Rest

\* A party that is behind is between calls.
LEMMA PathParty ==
    ASSUME NEW A, NEW B, Path(A, B), Rest(B), NEW p \in Party
    PROVE  A = B \/ (Between(A) /\ A[p].status = "running" /\ A[p].prog = <<>>)
  <1>1. Between(A) => A[p].status = "running" /\ A[p].prog = <<>>
    BY DEF Between, IsJoint
  <1> QED BY <1>1, PathFacts

---------------------------------------------------------------------------
(* Each step keeps the parties linked                                      *)

\* What a step of party p changes: Q and V from P and W
Changes(p, P, Q, s) == Q[p] = s /\ Q[1 - p] = P[1 - p]

LEMMA CallKeeps ==
    ASSUME DrawsInField, KeysInField, NEW P, NEW W, Linked(P, W), NEW p \in Party,
           P[p].status = "running", P[p].prog = <<>>, NEW Q, Changes(p, P, Q, CallOf(p, P[p]))
    PROVE  Linked(Q, W)
  <1>0. Q[p] = CallOf(p, P[p]) /\ Q[1 - p] = P[1 - p] /\ 1 - p \in Party /\ 1 - (1 - p) = p
    BY PartyIs DEF Changes
  <1>1. \A A : JCall(A)[p] = CallOf(p, A[p])
    BY DEF JCall
  <1>2. ASSUME NEW q, NEW A, NEW B, Apart(P, W, q, A, B) PROVE Linked(Q, W)
    <2>1. /\ Path(A, B) /\ Rest(B) /\ NoMail(W) /\ q \in Party /\ P[q] = A[q]
          /\ P[1 - q] = B[1 - q]
      BY <1>2 DEF Apart
    <2>2. CASE p = q /\ A # B
      <3>1. Path(JCall(A), B)
        BY <2>1, <2>2, PathFacts
      <3>2. Q[q] = JCall(A)[q] /\ Q[1 - q] = B[1 - q]
        BY <1>0, <1>1, <2>1, <2>2
      <3>3. PICK C : C = JCall(A)
        OBVIOUS
      <3>4. Apart(Q, W, q, C, B)
        BY <2>1, <3>1, <3>2, <3>3 DEF Apart
      <3> QED BY <3>4 DEF Linked
    <2>3. CASE p = q /\ A = B
      <3>1. P[p] = B[p] /\ P[1 - p] = B[1 - p]
        BY <2>1, <2>3
      <3>2. Between(B)
        BY <2>1, <3>1, RestParty
      <3>3. PICK C : C = JCall(B)
        OBVIOUS
      <3>4. Rest(C) /\ Path(B, C)
        BY <2>1, <3>2, <3>3, CallRests, PathMore, RestGrows
      <3>5. Q[1 - p] = B[1 - p] /\ Q[1 - (1 - p)] = C[1 - (1 - p)]
        BY <1>0, <1>1, <3>1, <3>3
      <3>6. PICK r : r = 1 - p
        OBVIOUS
      <3>7. Apart(Q, W, r, B, C)
        BY <1>0, <2>1, <3>4, <3>5, <3>6 DEF Apart
      <3> QED BY <3>7 DEF Linked
    <2>4. CASE p # q
      <3>1. p = 1 - q /\ 1 - p = q
        BY <2>1, <2>4 DEF Party
      <3>2. Between(B)
        BY <2>1, <3>1, RestParty
      <3>3. PICK C : C = JCall(B)
        OBVIOUS
      <3>4. Rest(C) /\ Path(A, C)
        BY <2>1, <3>2, <3>3, CallRests, PathMore
      <3>5. Q[q] = A[q] /\ Q[1 - q] = C[1 - q]
        BY <1>0, <1>1, <2>1, <3>1, <3>3
      <3>6. Apart(Q, W, q, A, C)
        BY <2>1, <3>4, <3>5 DEF Apart
      <3> QED BY <3>6 DEF Linked
    <2> QED BY <2>2, <2>3, <2>4
  <1>3. ASSUME NEW A, NEW B, NEW kind, NEW out, NEW in, Sent(P, W, A, B, kind, out, in)
        PROVE  Linked(Q, W)
    <2>1. /\ Path(A, B) /\ Crossing(B) /\ Exchanges(B, kind, out, in)
          /\ P[0] = Past(B[0]) /\ P[1] = A[1]
          /\ W[0] = <<>> /\ W[1] = Mail(kind, B[0].mem[out])
      BY <1>3 DEF Sent
    <2>2. Ready(Past(B[0]), "recv", kind, in) /\ Ready(B[1], "recv", kind, in)
      BY <2>1, CrossFacts
    <2>3. p = 1
      BY <2>1, <2>2, PartyIs DEF Ready
    <2>4. A # B
      BY <2>1, <2>2, <2>3 DEF Ready
    <2>5. PICK C : C = JCall(A)
      OBVIOUS
    <2>6. Path(C, B)
      BY <2>1, <2>4, <2>5, PathFacts
    <2>7. Q[0] = P[0] /\ Q[1] = C[1]
      BY <1>0, <1>1, <2>1, <2>3, <2>5, PartyIs
    <2>8. Sent(Q, W, C, B, kind, out, in)
      BY <2>1, <2>6, <2>7 DEF Sent
    <2> QED BY <2>8 DEF Linked
  <1>4. ASSUME NEW B, NEW kind, NEW out, NEW in, Taken(P, W, B, kind, out, in)
        PROVE  FALSE
    <2>1. /\ Crossing(B) /\ Exchanges(B, kind, out, in)
          /\ P[0] = Past(B[0]) /\ P[1] = Put(Past(B[1]), in, B[0].mem[out])
      BY <1>4 DEF Taken
    <2>2. Ready(Past(B[0]), "recv", kind, in) /\ Ready(Past(B[1]), "send", kind, out)
      BY <2>1, CrossFacts
    <2>3. Ready(P[1], "send", kind, out)
      BY <2>1, <2>2, PutReady
    <2> QED BY <2>1, <2>2, <2>3, PartyIs DEF Ready
  <1>5. ASSUME NEW B, NEW C, NEW kind, NEW out, NEW in, Replied(P, W, B, C, kind, out, in)
        PROVE  Linked(Q, W)
    <2>1. /\ Crossing(B) /\ Exchanges(B, kind, out, in)
          /\ Path(JAdvance(Swap(B)), C) /\ Rest(C)
          /\ P[0] = Past(B[0]) /\ P[1] = C[1]
          /\ W[0] = Mail(kind, B[1].mem[out]) /\ W[1] = <<>>
      BY <1>5 DEF Replied
    <2>2. Ready(Past(B[0]), "recv", kind, in)
      BY <2>1, CrossFacts
    <2>3. p = 1
      BY <2>1, <2>2, PartyIs DEF Ready
    <2>4. Between(C)
      BY <2>1, <2>3, RestParty
    <2>5. PICK D : D = JCall(C)
      OBVIOUS
    <2>6. Rest(D) /\ Path(JAdvance(Swap(B)), D)
      BY <2>1, <2>4, <2>5, CallRests, PathMore
    <2>7. Q[0] = P[0] /\ Q[1] = D[1]
      BY <1>0, <1>1, <2>1, <2>3, <2>5, PartyIs
    <2>8. Replied(Q, W, B, D, kind, out, in)
      BY <2>1, <2>6, <2>7 DEF Replied
    <2> QED BY <2>8 DEF Linked
  <1> QED BY <1>2, <1>3, <1>4, <1>5 DEF Linked

\* Where a party that is about to send or to receive is
LEMMA ApartAt ==
    ASSUME NEW P, NEW W, NEW q, NEW A, NEW B, Apart(P, W, q, A, B), NEW p \in Party,
           P[p].prog # <<>>
    PROVE  /\ P[p] = B[p] /\ Crossing(B) /\ NoMail(W) /\ Path(A, B)
           /\ P[1 - p] = A[1 - p] /\ P[1 - p].status = "running"
  <1>1. /\ Path(A, B) /\ Rest(B) /\ NoMail(W) /\ q \in Party /\ P[q] = A[q]
        /\ P[1 - q] = B[1 - q]
    BY DEF Apart
  <1>2. 1 - p \in Party /\ (q = p \/ q = 1 - p) /\ 1 - (1 - p) = p
    BY <1>1 DEF Party
  <1>3. ASSUME A # B PROVE \A r \in Party : A[r].prog = <<>> /\ A[r].status = "running"
    BY <1>1, <1>3, PathParty
  <1>4. CASE q = p
    <2>1. A = B
      BY <1>1, <1>3, <1>4
    <2>2. P[p] = B[p] /\ P[1 - p] = A[1 - p]
      BY <1>1, <1>4, <2>1
    <2>3. Crossing(B)
      BY <1>1, <2>2, RestParty
    <2>4. B[1 - p].status = "running"
      BY <1>2, <2>3 DEF Crossing, Moving, IsJoint
    <2> QED BY <1>1, <2>1, <2>2, <2>3, <2>4
  <1>5. CASE q = 1 - p
    <2>1. P[p] = B[p] /\ P[1 - p] = A[1 - p]
      BY <1>1, <1>2, <1>5
    <2>2. Crossing(B)
      BY <1>1, <2>1, RestParty
    <2>3. B[1 - p].status = "running"
      BY <1>2, <2>2 DEF Crossing, Moving, IsJoint
    <2>4. A[1 - p].status = "running"
      BY <1>2, <1>3, <2>3
    <2> QED BY <1>1, <2>1, <2>2, <2>4
  <1> QED BY <1>2, <1>4, <1>5

\* A message and its sending
MessageOf(s) == [kind |-> Head(s.prog).kind, body |-> s.mem[Head(s.prog).reg]]

LEMMA MailIs ==
    ASSUME NEW s, NEW op, NEW kind, NEW reg, Ready(s, op, kind, reg)
    PROVE  Append(<<>>, MessageOf(s)) = Mail(kind, s.mem[reg])
  <1>1. MessageOf(s) = [kind |-> kind, body |-> s.mem[reg]]
    BY DEF MessageOf, Ready
  <1> QED BY <1>1 DEF Mail

LEMMA SendKeeps ==
    ASSUME NEW P, NEW W, Linked(P, W), NEW p \in Party, P[p].prog # <<>>,
           Head(P[p].prog).op = "send", NEW Q, Changes(p, P, Q, Advance(p, Past(P[p]))),
           NEW V, Changes(1 - p, W, V, Append(W[1 - p], MessageOf(P[p])))
    PROVE  Linked(Q, V)
  <1>0. /\ Q[p] = Advance(p, Past(P[p])) /\ Q[1 - p] = P[1 - p]
        /\ V[1 - p] = Append(W[1 - p], MessageOf(P[p])) /\ V[p] = W[p]
        /\ (p = 0 \/ p = 1)
    BY PartyIs DEF Changes
  <1>1. ASSUME NEW q, NEW A, NEW B, Apart(P, W, q, A, B) PROVE Linked(Q, V)
    <2>1. P[p] = B[p] /\ Crossing(B) /\ NoMail(W) /\ Path(A, B) /\ P[1 - p] = A[1 - p]
      BY <1>1, ApartAt
    <2>2. PICK kind, out, in : Exchanges(B, kind, out, in)
      BY <2>1, CrossingIs
    <2>3. /\ Ready(B[0], "send", kind, out) /\ Ready(B[1], "recv", kind, in)
          /\ Ready(Past(B[0]), "recv", kind, in)
      BY <2>1, <2>2, CrossFacts
    <2>4. p = 0
      BY <1>0, <2>1, <2>3 DEF Ready
    <2>5. Q[0] = Past(B[0]) /\ Q[1] = A[1]
      <3>1. "recv" \in Network
        BY DEF Network
      <3>2. Advance(0, Past(B[0])) = Past(B[0])
        BY <2>3, <3>1, ReadyStops
      <3> QED BY <1>0, <2>1, <2>4, <3>2, PartyIs
    <2>6. V[0] = <<>> /\ V[1] = Mail(kind, B[0].mem[out])
      <3>1. W[0] = <<>> /\ W[1] = <<>>
        BY <2>1 DEF NoMail
      <3>2. V[0] = W[0] /\ V[1] = Append(W[1], MessageOf(B[0]))
        BY <1>0, <2>1, <2>4, PartyIs
      <3>3. V[1] = Append(<<>>, MessageOf(B[0]))
        BY <3>1, <3>2
      <3> QED BY <2>3, <3>1, <3>2, <3>3, MailIs
    <2>7. Sent(Q, V, A, B, kind, out, in)
      BY <2>1, <2>2, <2>5, <2>6 DEF Sent
    <2> QED BY <2>7 DEF Linked
  <1>2. ASSUME NEW A, NEW B, NEW kind, NEW out, NEW in, Sent(P, W, A, B, kind, out, in)
        PROVE  FALSE
    <2>1. /\ Path(A, B) /\ Crossing(B) /\ Exchanges(B, kind, out, in)
          /\ P[0] = Past(B[0]) /\ P[1] = A[1]
      BY <1>2 DEF Sent
    <2>2. Ready(Past(B[0]), "recv", kind, in) /\ Ready(B[1], "recv", kind, in)
      BY <2>1, CrossFacts
    <2>3. p = 1
      BY <1>0, <2>1, <2>2 DEF Ready
    <2>4. Rest(B)
      BY <2>1 DEF Rest
    <2>5. A = B
      BY <2>1, <2>3, <2>4, PathParty
    <2> QED BY <2>1, <2>2, <2>3, <2>5 DEF Ready
  <1>3. ASSUME NEW B, NEW kind, NEW out, NEW in, Taken(P, W, B, kind, out, in)
        PROVE  Linked(Q, V)
    <2>1. /\ Crossing(B) /\ Exchanges(B, kind, out, in) /\ NoMail(W)
          /\ P[0] = Past(B[0]) /\ P[1] = Put(Past(B[1]), in, B[0].mem[out])
      BY <1>3 DEF Taken
    <2>2. /\ Ready(Past(B[0]), "recv", kind, in) /\ Ready(Past(B[1]), "send", kind, out)
          /\ Past(B[1]).mem = B[1].mem /\ out \in DOMAIN B[1].mem /\ out # in
      BY <2>1, CrossFacts
    <2>3. p = 1
      BY <1>0, <2>1, <2>2 DEF Ready
    <2>4. PICK s, t, v : s = Past(B[1]) /\ v = B[0].mem[out] /\ t = Put(s, in, v)
      OBVIOUS
    <2>5. /\ Ready(t, "send", kind, out) /\ Past(t) = Put(Past(s), in, v)
          /\ \A q \in DOMAIN s.mem : q # in => t.mem[q] = s.mem[q]
      BY <2>2, <2>4, PutReady
    <2>6. t.mem[out] = B[1].mem[out] /\ P[1] = t
      BY <2>1, <2>2, <2>4, <2>5
    <2>7. PICK C : C = JAdvance(Swap(B))
      OBVIOUS
    <2>8. Rest(C) /\ C[1] = Advance(1, Put(Past(Past(B[1])), in, B[0].mem[out]))
      BY <2>1, <2>7, SwapRests
    <2>9. Q[0] = Past(B[0]) /\ Q[1] = C[1]
      BY <1>0, <2>1, <2>3, <2>4, <2>5, <2>6, <2>8, PartyIs
    <2>10. V[1] = <<>> /\ V[0] = Mail(kind, B[1].mem[out])
      <3>1. W[0] = <<>> /\ W[1] = <<>>
        BY <2>1 DEF NoMail
      <3>2. V[1] = W[1] /\ V[0] = Append(W[0], MessageOf(t))
        BY <1>0, <2>3, <2>6, PartyIs
      <3>3. V[0] = Append(<<>>, MessageOf(t))
        BY <3>1, <3>2
      <3>4. V[0] = Mail(kind, t.mem[out])
        BY <2>5, <3>3, MailIs
      <3> QED BY <2>6, <3>1, <3>2, <3>4
    <2>11. Path(JAdvance(Swap(B)), C)
      BY <2>7, <2>8, RestGrows
    <2>12. Replied(Q, V, B, C, kind, out, in)
      BY <2>1, <2>8, <2>9, <2>10, <2>11 DEF Replied
    <2> QED BY <2>12 DEF Linked
  <1>4. ASSUME NEW B, NEW C, NEW kind, NEW out, NEW in, Replied(P, W, B, C, kind, out, in)
        PROVE  FALSE
    <2>1. /\ Crossing(B) /\ Exchanges(B, kind, out, in) /\ Rest(C)
          /\ P[0] = Past(B[0]) /\ P[1] = C[1]
      BY <1>4 DEF Replied
    <2>2. Ready(Past(B[0]), "recv", kind, in)
      BY <2>1, CrossFacts
    <2>3. p = 1
      BY <1>0, <2>1, <2>2 DEF Ready
    <2>4. Crossing(C)
      BY <2>1, <2>3, RestParty
    <2>5. PICK k, o, i : Exchanges(C, k, o, i)
      BY <2>4, CrossingIs
    <2>6. Ready(C[1], "recv", k, i)
      BY <2>4, <2>5, CrossFacts
    <2> QED BY <2>1, <2>3, <2>6 DEF Ready
  <1> QED BY <1>1, <1>2, <1>3, <1>4 DEF Linked

\* A message that arrives is the one that is awaited.
LEMMA MailFacts ==
    ASSUME NEW kind, NEW v, NEW w, w = Mail(kind, v)
    PROVE  w # <<>> /\ Tail(w) = <<>> /\ Head(w).kind = kind /\ Head(w).body = v
  <1>1. PICK m : m = [kind |-> kind, body |-> v]
    OBVIOUS
  <1>2. w = <<m>> /\ m.kind = kind /\ m.body = v
    BY <1>1 DEF Mail
  <1> HIDE <1>1
  <1> QED BY <1>2

Arrival(p, s, m) == Advance(p, Put(Past(s), Head(s.prog).reg, m.body))

LEMMA ReceiveKeeps ==
    ASSUME NEW P, NEW W, Linked(P, W), NEW p \in Party, P[p].prog # <<>>,
           Head(P[p].prog).op = "recv", W[p] # <<>>
    PROVE  /\ Head(W[p]).kind = Head(P[p].prog).kind
           /\ \A Q, V : Changes(p, P, Q, Arrival(p, P[p], Head(W[p]))) /\ Changes(p, W, V, Tail(W[p]))
                           => Linked(Q, V)
  <1>0. p = 0 \/ p = 1
    BY PartyIs
  <1>1. ASSUME NEW q, NEW A, NEW B, Apart(P, W, q, A, B) PROVE FALSE
    BY <1>0, <1>1 DEF Apart, NoMail
  <1>2. ASSUME NEW A, NEW B, NEW kind, NEW out, NEW in, Sent(P, W, A, B, kind, out, in)
        PROVE  /\ Head(W[p]).kind = Head(P[p].prog).kind
               /\ \A Q, V : Changes(p, P, Q, Arrival(p, P[p], Head(W[p])))
                               /\ Changes(p, W, V, Tail(W[p])) => Linked(Q, V)
    <2>1. /\ Path(A, B) /\ Crossing(B) /\ Exchanges(B, kind, out, in)
          /\ P[0] = Past(B[0]) /\ P[1] = A[1]
          /\ W[0] = <<>> /\ W[1] = Mail(kind, B[0].mem[out])
      BY <1>2 DEF Sent
    <2>2. p = 1
      BY <1>0, <2>1
    <2>3. Rest(B)
      BY <2>1 DEF Rest
    <2>4. A = B /\ P[1] = B[1]
      BY <2>1, <2>2, <2>3, PathParty
    <2>5. Ready(B[1], "recv", kind, in) /\ Ready(Past(B[1]), "send", kind, out)
      BY <2>1, CrossFacts
    <2>6. PICK w, m, v : w = W[1] /\ m = Head(w) /\ v = B[0].mem[out]
      OBVIOUS
    <2>7. Tail(w) = <<>> /\ m.kind = kind /\ m.body = v
      BY <2>1, <2>6, MailFacts
    <2>8. Head(P[1].prog).kind = kind /\ Head(P[1].prog).reg = in
      BY <2>4, <2>5 DEF Ready
    <2>9. PICK t : t = Put(Past(B[1]), in, v)
      OBVIOUS
    <2>10. Ready(t, "send", kind, out)
      BY <2>5, <2>9, PutReady
    <2>11. Advance(1, t) = t
      <3>1. "send" \in Network
        BY DEF Network
      <3> QED BY <2>10, <3>1, ReadyStops
    <2>12. Arrival(1, P[1], m) = t
      BY <2>4, <2>7, <2>8, <2>9, <2>11 DEF Arrival
    <2>13. ASSUME NEW Q, NEW V, Changes(p, P, Q, Arrival(p, P[p], Head(W[p]))),
                  Changes(p, W, V, Tail(W[p]))
           PROVE  Linked(Q, V)
      <3>1. Q[1] = t /\ Q[0] = Past(B[0])
        BY <2>1, <2>2, <2>6, <2>12, <2>13, PartyIs DEF Changes
      <3>2. V[1] = <<>> /\ V[0] = <<>>
        BY <2>1, <2>2, <2>6, <2>7, <2>13, PartyIs DEF Changes
      <3>3. Taken(Q, V, B, kind, out, in)
        BY <2>1, <2>6, <2>9, <3>1, <3>2 DEF Taken, NoMail
      <3> QED BY <3>3 DEF Linked
    <2> QED BY <2>2, <2>6, <2>7, <2>8, <2>13
  <1>3. ASSUME NEW B, NEW kind, NEW out, NEW in, Taken(P, W, B, kind, out, in)
        PROVE  FALSE
    BY <1>0, <1>3 DEF Taken, NoMail
  <1>4. ASSUME NEW B, NEW C, NEW kind, NEW out, NEW in, Replied(P, W, B, C, kind, out, in)
        PROVE  /\ Head(W[p]).kind = Head(P[p].prog).kind
               /\ \A Q, V : Changes(p, P, Q, Arrival(p, P[p], Head(W[p])))
                               /\ Changes(p, W, V, Tail(W[p])) => Linked(Q, V)
    <2>1. /\ Crossing(B) /\ Exchanges(B, kind, out, in)
          /\ Path(JAdvance(Swap(B)), C) /\ Rest(C)
          /\ P[0] = Past(B[0]) /\ P[1] = C[1]
          /\ W[0] = Mail(kind, B[1].mem[out]) /\ W[1] = <<>>
      BY <1>4 DEF Replied
    <2>2. p = 0
      BY <1>0, <2>1
    <2>3. Ready(Past(B[0]), "recv", kind, in)
      BY <2>1, CrossFacts
    <2>4. PICK w, m, v : w = W[0] /\ m = Head(w) /\ v = B[1].mem[out]
      OBVIOUS
    <2>5. Tail(w) = <<>> /\ m.kind = kind /\ m.body = v
      BY <2>1, <2>4, MailFacts
    <2>6. Head(P[0].prog).kind = kind /\ Head(P[0].prog).reg = in
      BY <2>1, <2>3 DEF Ready
    <2>7. PICK D : D = JAdvance(Swap(B))
      OBVIOUS
    <2>8. D[0] = Advance(0, Put(Past(Past(B[0])), in, B[1].mem[out]))
      BY <2>1, <2>7, SwapRests
    <2>9. Arrival(0, P[0], m) = D[0]
      BY <2>1, <2>4, <2>5, <2>6, <2>8 DEF Arrival
    <2>10. ASSUME NEW Q, NEW V, Changes(p, P, Q, Arrival(p, P[p], Head(W[p]))),
                  Changes(p, W, V, Tail(W[p]))
           PROVE  Linked(Q, V)
      <3>1. Q[0] = D[0] /\ Q[1] = C[1]
        BY <2>1, <2>2, <2>4, <2>9, <2>10, PartyIs DEF Changes
      <3>2. V[1] = <<>> /\ V[0] = <<>>
        BY <2>1, <2>2, <2>4, <2>5, <2>10, PartyIs DEF Changes
      <3>3. Apart(Q, V, 0, D, C)
        BY <2>1, <2>7, <3>1, <3>2, PartyIs DEF Apart, NoMail
      <3> QED BY <3>3 DEF Linked
    <2> QED BY <2>2, <2>4, <2>5, <2>6, <2>10
  <1> QED BY <1>1, <1>2, <1>3, <1>4 DEF Linked

\* Nobody waits for a message or sends one when the other has stopped.
LEMMA NobodyLeft ==
    ASSUME NEW P, NEW W, Linked(P, W), NEW p \in Party, P[p].prog # <<>>,
           P[1 - p].status # "running"
    PROVE  Head(P[p].prog).op = "recv" /\ W[p] # <<>>
  <1>0. p = 0 \/ p = 1
    BY PartyIs
  <1>1. ASSUME NEW q, NEW A, NEW B, Apart(P, W, q, A, B) PROVE FALSE
    BY <1>1, ApartAt
  <1>2. ASSUME NEW A, NEW B, NEW kind, NEW out, NEW in, Sent(P, W, A, B, kind, out, in)
        PROVE  FALSE
    <2>1. /\ Path(A, B) /\ Crossing(B) /\ Exchanges(B, kind, out, in)
          /\ P[0] = Past(B[0]) /\ P[1] = A[1]
      BY <1>2 DEF Sent
    <2>2. Ready(Past(B[0]), "recv", kind, in) /\ Ready(B[1], "recv", kind, in)
      BY <2>1, CrossFacts
    <2>3. Rest(B)
      BY <2>1 DEF Rest
    <2>4. A = B \/ A[1].status = "running"
      BY <2>1, <2>3, PathParty, PartyIs
    <2>5. P[0].status = "running" /\ P[1].status = "running"
      BY <2>1, <2>2, <2>4 DEF Ready
    <2> QED BY <1>0, <2>5, PartyIs
  <1>3. ASSUME NEW B, NEW kind, NEW out, NEW in, Taken(P, W, B, kind, out, in)
        PROVE  FALSE
    <2>1. /\ Crossing(B) /\ Exchanges(B, kind, out, in)
          /\ P[0] = Past(B[0]) /\ P[1] = Put(Past(B[1]), in, B[0].mem[out])
      BY <1>3 DEF Taken
    <2>2. Ready(Past(B[0]), "recv", kind, in) /\ Ready(Past(B[1]), "send", kind, out)
      BY <2>1, CrossFacts
    <2>3. Ready(P[1], "send", kind, out)
      BY <2>1, <2>2, PutReady
    <2>4. P[0].status = "running" /\ P[1].status = "running"
      BY <2>1, <2>2, <2>3 DEF Ready
    <2> QED BY <1>0, <2>4, PartyIs
  <1>4. ASSUME NEW B, NEW C, NEW kind, NEW out, NEW in, Replied(P, W, B, C, kind, out, in)
        PROVE  Head(P[p].prog).op = "recv" /\ W[p] # <<>>
    <2>1. /\ Crossing(B) /\ Exchanges(B, kind, out, in) /\ P[0] = Past(B[0])
          /\ W[0] = Mail(kind, B[1].mem[out])
      BY <1>4 DEF Replied
    <2>2. Ready(Past(B[0]), "recv", kind, in)
      BY <2>1, CrossFacts
    <2>3. P[0].status = "running" /\ Head(P[0].prog).op = "recv"
      BY <2>1, <2>2 DEF Ready
    <2>4. p = 0
      BY <1>0, <2>3, PartyIs
    <2>5. W[0] # <<>>
      BY <2>1, MailFacts
    <2> QED BY <2>3, <2>4, <2>5
  <1> QED BY <1>1, <1>2, <1>3, <1>4 DEF Linked

---------------------------------------------------------------------------
(* The MAC key shares never change, and so neither does what is said of     *)
(* given states in terms of them.                                           *)

LEMMA ShareStable ==
    ASSUME key' = key
    PROVE  /\ MacKey' = MacKey
           /\ \A x, r, p : add_public(x, r, p)' = add_public(x, r, p)
           /\ \A x, y : Valid(x, y)' <=> Valid(x, y)
           /\ \A x, v : Authentic(x, v, F)' <=> Authentic(x, v, F)
           /\ \A p, lg : KeysSet(p, lg)' <=> KeysSet(p, lg)
  <1>1. MacKey' = MacKey
    BY DEF MacKey
  <1>2. \A x, r, p : add_public(x, r, p)' = add_public(x, r, p)
    BY DEF add_public
  <1>3. \A x, y : Valid(x, y)' <=> Valid(x, y)
    BY <1>1 DEF Valid
  <1>4. \A x, v : Authentic(x, v, F)' <=> Authentic(x, v, F)
    BY <1>1 DEF Authentic
  <1>5. \A p, lg : KeysSet(p, lg)' <=> KeysSet(p, lg)
    BY DEF KeysSet
  <1> QED BY <1>1, <1>2, <1>3, <1>4, <1>5

LEMMA ValueStable ==
    ASSUME key' = key
    PROVE  /\ \A p, v, x : add_public_value(p, v, x)' = add_public_value(p, v, x)
           /\ \A p, v, x, c : MacCheckOf(p, v, x, c)' = MacCheckOf(p, v, x, c)
           /\ \A p, d, e, a, b, c : Beaver(p, d, e, a, b, c)' = Beaver(p, d, e, a, b, c)
           /\ \A p, x, v : SharedBits(p, x, v)' = SharedBits(p, x, v)
  <1>1. \A x, r, p : add_public(x, r, p)' = add_public(x, r, p)
    BY ShareStable
  <1>2. \A p, v, x : add_public_value(p, v, x)' = add_public_value(p, v, x)
    BY <1>1 DEF add_public_value
  <1>3. \A p, v, x, c : MacCheckOf(p, v, x, c)' = MacCheckOf(p, v, x, c)
    BY DEF MacCheckOf
  <1>4. \A p, d, e, a, b, c : Beaver(p, d, e, a, b, c)' = Beaver(p, d, e, a, b, c)
    BY <1>2 DEF Beaver
  <1>5. \A p, x, v : SharedBits(p, x, v)' = SharedBits(p, x, v)
    BY <1>2 DEF SharedBits
  <1> QED BY <1>2, <1>3, <1>4, <1>5

\* A local step, given its result r or the LowGear t it stores
Outcome(p, s, i, v, r, t) ==
    CASE i.op = "draw" -> [Put(s, i.res, Randoms(p, s, i.n)) EXCEPT !.drawn = @ + i.n]
      [] i.op = "cross_products" ->
           LET mask == Randoms(p, s, Len(v[2]))
           IN  [Put(Put(s, i.res, PtSub(v[3], mask)),
                    "cross", CtAddPlain(CtMulPlain(v[1], v[2]), mask))
                EXCEPT !.drawn = @ + Len(v[2])]
      [] i.op = "consume_triples" ->
           LET n == Len(v[1])
               x == [f \in DOMAIN s.lg.triples |-> split_off(s.lg.triples[f], n)]
           IN  Put(Put(Put(Use(s, n, x), "ta", x.a), "tb", x.b), "tc", x.c)
      [] i.op = "commit_scalars" -> Put(Forget(s, "their_comm"), i.res, commit_scalars(v[1]))
      [] i.op \in Stores -> [s EXCEPT !.lg = t]
      [] i.op \in Checks -> IF Passes(s, i.op, v) THEN s ELSE Fail(s, ErrorOf(i.op))
      [] OTHER -> Put(s, i.res, r)

LEMMA ComputeStable ==
    ASSUME key' = key
    PROVE  \A p, s, i : Compute(p, s, i)' = Compute(p, s, i)
  <1>1. /\ \A p, v, x, c : MacCheckOf(p, v, x, c)' = MacCheckOf(p, v, x, c)
        /\ \A p, d, e, a, b, c : Beaver(p, d, e, a, b, c)' = Beaver(p, d, e, a, b, c)
        /\ \A p, x, v : SharedBits(p, x, v)' = SharedBits(p, x, v)
    BY ValueStable
  <1>2. \A p, s, op, v : Result(p, s, op, v)' = Result(p, s, op, v)
    BY <1>1 DEF Result
  <1>3. \A p, lg, op, v : Store(p, lg, op, v)' = Store(p, lg, op, v)
    BY <1>1 DEF Store
  <1> SUFFICES ASSUME NEW p, NEW s, NEW i PROVE Compute(p, s, i)' = Compute(p, s, i)
    OBVIOUS
  <1>4. PICK v : v = IF i.op = "draw" THEN <<>> ELSE [k \in DOMAIN i.args |-> s.mem[i.args[k]]]
    OBVIOUS
  <1>5. Compute(p, s, i) = Outcome(p, s, i, v, Result(p, s, i.op, v), Store(p, s.lg, i.op, v))
    BY <1>4 DEF Compute, Outcome
  <1>6. Compute(p, s, i)'
            = Outcome(p, s, i, v, Result(p, s, i.op, v)', Store(p, s.lg, i.op, v)')
    BY <1>4 DEF Compute, Outcome
  <1>7. /\ Result(p, s, i.op, v)' = Result(p, s, i.op, v)
        /\ Store(p, s.lg, i.op, v)' = Store(p, s.lg, i.op, v)
    BY <1>2, <1>3
  <1> QED BY <1>5, <1>6, <1>7

LEMMA FitsStable ==
    ASSUME key' = key
    PROVE  \A x, y : FitsAll(x, y)' <=> FitsAll(x, y)
  <1>1. \A x, y : Valid(x, y)' <=> Valid(x, y)
    BY ShareStable
  <1>2. \A x, y : AllValid(x, y)' <=> AllValid(x, y)
    BY <1>1 DEF AllValid
  <1>3. \A t, u : ValidTriples(t, u)' <=> ValidTriples(t, u)
    BY <1>2 DEF ValidTriples
  <1>4. \A t, u : ValidPairs(t, u)' <=> ValidPairs(t, u)
    BY <1>2 DEF ValidPairs
  <1>5. \A x, y : ValidBits(x, y)' <=> ValidBits(x, y)
    BY <1>2 DEF ValidBits
  <1>6. \A m, x, y : ValidMasks(m, x, y)' <=> ValidMasks(m, x, y)
    BY <1>2 DEF ValidMasks
  <1>7. \A h, g : FitsOne(h, g)' <=> FitsOne(h, g)
    BY <1>2, <1>3, <1>4, <1>5, <1>6 DEF FitsOne
  <1> QED BY <1>7 DEF FitsAll

LEMMA PoolsStable ==
    ASSUME key' = key
    PROVE  /\ \A L : LgOK(L)' <=> LgOK(L)
           /\ \A P : PrepOK(P)' <=> PrepOK(P)
  <1>1. /\ \A x, v : Authentic(x, v, F)' <=> Authentic(x, v, F)
        /\ \A p, lg : KeysSet(p, lg)' <=> KeysSet(p, lg)
    BY ShareStable
  <1>2. \A X, v, n : AuthBatch(X, v, n)' <=> AuthBatch(X, v, n)
    BY <1>1 DEF AuthBatch
  <1>3. \A t, u, n : TriplesFit(t, u, n)' <=> TriplesFit(t, u, n)
    BY <1>2 DEF TriplesFit
  <1>4. \A t, u, n : PairsFit(t, u, n)' <=> PairsFit(t, u, n)
    BY <1>2 DEF PairsFit
  <1>5. \A x, y, n : BitsFit(x, y, n)' <=> BitsFit(x, y, n)
    BY <1>2 DEF BitsFit
  <1>6. \A x, y, n : ValuesFit(x, y, n)' <=> ValuesFit(x, y, n)
    BY <1>2 DEF ValuesFit
  <1>7. \A m, x, y, n : MasksFit(m, x, y, n)' <=> MasksFit(m, x, y, n)
    BY <1>2 DEF MasksFit
  <1>8. \A L : LgOK(L)' <=> LgOK(L)
    BY <1>1, <1>3, <1>4, <1>5, <1>6, <1>7 DEF LgOK
  <1>9. \A P : PrepOK(P)' <=> PrepOK(P)
    BY <1>3, <1>4, <1>5, <1>6, <1>7 DEF PrepOK
  <1> QED BY <1>8, <1>9

LEMMA SafeStable ==
    ASSUME key' = key
    PROVE  /\ \A A : IsJoint(A)' <=> IsJoint(A)
           /\ \A A : Between(A)' <=> Between(A)
           /\ \A A : EndedBoth(A)' <=> EndedBoth(A)
           /\ \A A : Moving(A)' <=> Moving(A)
           /\ \A A : Safe(A)' <=> Safe(A)
           /\ \A p, s : RunStep(p, s)' = RunStep(p, s)
  <1>1. /\ \A x, y : FitsAll(x, y)' <=> FitsAll(x, y)
        /\ \A L : LgOK(L)' <=> LgOK(L)
        /\ \A P : PrepOK(P)' <=> PrepOK(P)
        /\ \A p, s, i : Compute(p, s, i)' = Compute(p, s, i)
    BY FitsStable, PoolsStable, ComputeStable
  <1>2. \A A : IsJoint(A)' <=> IsJoint(A)
    BY <1>1 DEF IsJoint
  <1>3. \A A : Between(A)' <=> Between(A)
    BY <1>1, <1>2 DEF Between
  <1>4. \A A : EndedBoth(A)' <=> EndedBoth(A)
    BY <1>1 DEF EndedBoth
  <1>5. \A A : Moving(A)' <=> Moving(A)
    BY <1>2 DEF Moving
  <1>6. \A p, s : RunStep(p, s)' = RunStep(p, s)
    BY <1>1 DEF RunStep
  <1>7. \A A : Micro(A)' = Micro(A)
    BY <1>6 DEF Micro
  <1>8. \A A : Safe(A)' <=> Safe(A)
    BY <1>3, <1>4, <1>5, <1>7 DEF Safe
  <1> QED BY <1>2, <1>3, <1>4, <1>5, <1>6, <1>8

LEMMA RunsNext == (\A p, s : s.prog \in Progs =>
                      \E n, run : /\ IsQuiet(s.prog, n) /\ RunsOf(p, s, n, run)
                                  /\ Advance(p, s) = run[n])'
  <1>1. \A p, s : s.prog \in Progs =>
                      \E n, run : /\ IsQuiet(s.prog, n) /\ RunsOf(p, s, n, run)
                                  /\ Advance(p, s) = run[n]
    BY AdvanceRuns
  <1> QED BY <1>1, PTL

StepsOf == \A p, s, run : \A n \in Nat : RunsOf(p, s, n, run) =>
              run[0] = s /\ \A k \in 1..n : run[k] = RunStep(p, run[k - 1])

LEMMA StepsNext == StepsOf'
  <1>1. StepsOf
    BY RunsStep DEF StepsOf
  <1> QED BY <1>1, PTL

\* A task runs the same steps whatever the state of the system.
LEMMA AdvanceStable ==
    ASSUME key' = key, NEW p, NEW s, s.prog \in Progs
    PROVE  Advance(p, s)' = Advance(p, s)
  <1>1. PICK n, f : IsQuiet(s.prog, n) /\ RunsOf(p, s, n, f) /\ Advance(p, s) = f[n]
    BY AdvanceRuns
  <1>2. PICK m, g : IsQuiet(s.prog, m) /\ RunsOf(p, s, m, g)' /\ Advance(p, s)' = g[m]
    BY RunsNext
  <1>3. Len(s.prog) \in Nat
    BY DEF Progs
  <1>4. m = n /\ n \in Nat
    <2>1. m \in 0..Len(s.prog) /\ n \in 0..Len(s.prog)
      BY <1>1, <1>2 DEF IsQuiet
    <2>2. ~(m < n)
      <3>1. ASSUME m < n PROVE FALSE
        <4>1. m + 1 \in 1..n /\ m < Len(s.prog)
          BY <1>3, <2>1, <3>1
        <4> QED BY <1>1, <1>2, <4>1 DEF IsQuiet
      <3> QED BY <3>1
    <2>3. ~(n < m)
      <3>1. ASSUME n < m PROVE FALSE
        <4>1. n + 1 \in 1..m /\ n < Len(s.prog)
          BY <1>3, <2>1, <3>1
        <4> QED BY <1>1, <1>2, <4>1 DEF IsQuiet
      <3> QED BY <3>1
    <2> QED BY <1>3, <2>1, <2>2, <2>3
  <1>5. f[0] = s /\ \A k \in 1..n : f[k] = RunStep(p, f[k - 1])
    <2>1. StepsOf
      BY RunsStep DEF StepsOf
    <2> QED BY <1>1, <1>4, <2>1 DEF StepsOf
  <1>6. g[0] = s /\ \A k \in 1..n : g[k] = RunStep(p, g[k - 1])
    <2>1. /\ g[0] = s
          /\ \A k \in 1..n : g[k] = RunStep(p, g[k - 1])'
      BY <1>2, <1>4, StepsNext DEF StepsOf
    <2>2. \A t : RunStep(p, t)' = RunStep(p, t)
      BY SafeStable
    <2> QED BY <2>1, <2>2
  <1> DEFINE T == {k \in Nat : k <= n => f[k] = g[k]}
  <1>7. 0 \in T
    BY <1>5, <1>6
  <1>8. ASSUME NEW k \in Nat, k \in T PROVE k + 1 \in T
    <2>1. ASSUME k + 1 <= n PROVE f[k + 1] = g[k + 1]
      <3>1. k + 1 \in 1..n /\ (k + 1) - 1 = k /\ k <= n
        BY <1>4, <2>1
      <3>2. f[k] = g[k]
        BY <1>8, <3>1
      <3> QED BY <1>5, <1>6, <3>1, <3>2
    <2> QED BY <2>1
  <1> HIDE DEF T
  <1>9. n \in T
    BY <1>4, <1>7, <1>8, Induction
  <1>10. f[n] = g[n]
    BY <1>4, <1>9 DEF T
  <1> QED BY <1>1, <1>2, <1>4, <1>10

LEMMA CallStable ==
    ASSUME key' = key, NEW A, Between(A)
    PROVE  JCall(A)' = JCall(A)
  <1>1. PICK c : c = A[0].calls
    OBVIOUS
  <1>2. c \in Seq(Calls)
    BY <1>1 DEF Between
  <1>3. \A p \in Party : A[p].calls = c /\ IsState(A[p])
    BY <1>1, PartyIs DEF Between, IsJoint
  <1>4. ASSUME NEW p \in Party PROVE CallOf(p, A[p])' = CallOf(p, A[p])
    <2>1. PICK s : s = A[p]
      OBVIOUS
    <2>2. s.calls = c /\ IsState(s)
      BY <1>3, <2>1
    <2>3. CASE c = <<>>
      BY <2>1, <2>2, <2>3 DEF CallOf
    <2>4. CASE c # <<>> /\ Head(c).op \in Generators
      <3>1. PICK g, t : g = Program(p, s.lg, Head(c)) /\ t = SetProg(Begun(s), g)
        OBVIOUS
      <3>2. Head(c) \in Calls
        BY <1>2, <2>4
      <3>3. Orderly(p, g)
        BY <2>4, <3>1, <3>2, OrderlyProgram
      <3>4. g \in Progs
        BY <3>3 DEF Orderly
      <3>5. PICK b : b = Begun(s)
        OBVIOUS
      <3>6. IsState(b)
        BY <2>2, <3>5, BegunFacts
      <3>7. t.prog = g
        BY <3>1, <3>5, <3>6, SetProgFacts
      <3>8. Advance(p, t)' = Advance(p, t)
        BY <3>4, <3>7, AdvanceStable
      <3>9. CallOf(p, s) = Advance(p, t)
        BY <2>2, <2>4, <3>1 DEF CallOf
      <3>10. CallOf(p, s)' = Advance(p, t)'
        BY <2>2, <2>4, <3>1 DEF CallOf
      <3> QED BY <2>1, <3>8, <3>9, <3>10
    <2>5. CASE c # <<>> /\ Head(c).op \notin Generators
      BY <2>1, <2>2, <2>5 DEF CallOf
    <2> QED BY <2>3, <2>4, <2>5
  <1> QED BY <1>4 DEF JCall

LEMMA SwapStable ==
    ASSUME key' = key, NEW B, Crossing(B), NEW kind, NEW out, NEW in, Exchanges(B, kind, out, in)
    PROVE  JAdvance(Swap(B))' = JAdvance(Swap(B))
  <1>1. PICK C : C = Swap(B)
    OBVIOUS
  <1>2. ASSUME NEW p \in Party PROVE C[p].prog \in Progs
    <2>1. PICK r, v : r = Head(B[1].prog).reg /\ v = B[1 - p].mem[Head(B[0].prog).reg]
      OBVIOUS
    <2>2. C[p] = Put(Past(Past(B[p])), r, v)
      BY <1>1, <2>1 DEF Swap
    <2>3. IsState(B[p])
      BY DEF Crossing, Moving, IsJoint
    <2>4. B[p].prog \in Progs /\ B[p].prog # <<>> /\ Tail(B[p].prog) \in Progs
          /\ Tail(B[p].prog) # <<>>
      BY DEF Exchanges, StartsExchange
    <2>5. PICK g : g = Tail(Tail(B[p].prog))
      OBVIOUS
    <2>6. g \in Progs
      BY <2>4, <2>5, TailFacts
    <2>7. PICK s, t : s = Past(B[p]) /\ t = Past(s)
      OBVIOUS
    <2>8. IsState(s) /\ s.prog = Tail(B[p].prog)
      BY <2>3, <2>7 DEF Past, IsState, Fields
    <2>9. IsState(t) /\ t.prog = g
      BY <2>5, <2>7, <2>8 DEF Past, IsState, Fields
    <2>10. Put(t, r, v).prog = g
      BY <2>9 DEF Put, IsState, Fields
    <2> QED BY <2>2, <2>6, <2>7, <2>10
  <1>3. \A p \in Party : Advance(p, C[p])' = Advance(p, C[p])
    BY <1>2, AdvanceStable
  <1>4. JAdvance(C)' = JAdvance(C)
    BY <1>3 DEF JAdvance
  <1> QED BY <1>1, <1>4

LEMMA PathStable ==
    ASSUME key' = key
    PROVE  /\ \A A, B : Path(A, B) => Path(A, B)'
           /\ \A A : Rest(A) => Rest(A)'
           /\ \A A : Crossing(A) => Crossing(A)'
  <1>1. /\ \A A : Between(A)' <=> Between(A)
        /\ \A A : EndedBoth(A)' <=> EndedBoth(A)
        /\ \A A : Moving(A)' <=> Moving(A)
        /\ \A A : Safe(A)' <=> Safe(A)
    BY SafeStable
  <1>2. \A A : Between(A) => JCall(A)' = JCall(A)
    BY CallStable
  <1>3. \A c, n, A, B : IsPath(c, n, A, B) => IsPath(c, n, A, B)'
    BY <1>1, <1>2 DEF IsPath
  <1>4. \A A, B : Path(A, B) => Path(A, B)'
    BY <1>3 DEF Path
  <1>5. \A A : Crossing(A) => Crossing(A)'
    BY <1>1 DEF Crossing
  <1>6. \A A : Rest(A) => Rest(A)'
    BY <1>1, <1>5 DEF Rest
  <1> QED BY <1>4, <1>5, <1>6

LEMMA LinkedStable ==
    ASSUME key' = key
    PROVE  \A P, W : Linked(P, W) => Linked(P, W)'
  <1>1. /\ \A A, B : Path(A, B) => Path(A, B)'
        /\ \A A : Rest(A) => Rest(A)'
        /\ \A A : Crossing(A) => Crossing(A)'
    BY PathStable
  <1>2. \A P, W, q, A, B : Apart(P, W, q, A, B) => Apart(P, W, q, A, B)'
    BY <1>1 DEF Apart
  <1>3. \A P, W, A, B, kind, out, in :
            Sent(P, W, A, B, kind, out, in) => Sent(P, W, A, B, kind, out, in)'
    BY <1>1 DEF Sent
  <1>4. \A P, W, B, kind, out, in :
            Taken(P, W, B, kind, out, in) => Taken(P, W, B, kind, out, in)'
    BY <1>1 DEF Taken
  <1>5. ASSUME NEW P, NEW W, NEW B, NEW C, NEW kind, NEW out, NEW in,
               Replied(P, W, B, C, kind, out, in)
        PROVE  Replied(P, W, B, C, kind, out, in)'
    <2>1. JAdvance(Swap(B))' = JAdvance(Swap(B))
      BY <1>5, SwapStable DEF Replied
    <2>2. PICK D : D = JAdvance(Swap(B))
      OBVIOUS
    <2>3. Path(D, C)'
      BY <1>1, <1>5, <2>2 DEF Replied
    <2> QED BY <1>1, <1>5, <2>1, <2>2, <2>3 DEF Replied
  <1> QED BY <1>2, <1>3, <1>4, <1>5 DEF Linked

---------------------------------------------------------------------------
(* The parties of an honest run are linked                                 *)

\* The two applications have the same calls before them.
SameCalls == party[0].calls = party[1].calls

LinkInv ==
    /\ key \in [Party -> F]
    /\ party = [p \in Party |-> party[p]] /\ wire = [p \in Party |-> wire[p]]
    /\ Honest => Linked(party, wire)

NewParty(c) ==
    [lg |-> NewLowGear, prep |-> get_offline_result(NewLowGear), used |-> <<>>,
     handed |-> <<>>, calls |-> c, prog |-> <<>>, mem |-> <<>>, drawn |-> 0,
     status |-> "running"]

LEMMA NewBetween ==
    ASSUME NEW c \in Seq(Calls), NEW A, A = [p \in Party |-> NewParty(c)]
    PROVE  Between(A)
  <1>1. PICK x, y : x = NewLowGear /\ y = get_offline_result(x)
    OBVIOUS
  <1>2. \A p \in Party : A[p] = [lg |-> x, prep |-> y, used |-> <<>>,
            handed |-> <<>>, calls |-> c, prog |-> <<>>, mem |-> <<>>, drawn |-> 0,
            status |-> "running"]
    BY <1>1 DEF NewParty
  <1>3. \A p \in Party : /\ IsState(A[p]) /\ A[p].lg = x /\ A[p].prep = y
                         /\ A[p].handed = <<>> /\ A[p].calls = c /\ A[p].prog = <<>>
                         /\ A[p].drawn = 0 /\ A[p].status = "running"
    BY <1>2 DEF IsState, Fields
  <1>4. FitsAll(<<>>, <<>>)
    <2>1. IsList(<<>>)
      BY DEF IsList
    <2> QED BY <2>1 DEF FitsAll
  <1>5. IsJoint(A)
    <2>1. A = [p \in Party |-> A[p]]
      OBVIOUS
    <2>2. \A p \in Party : IsState(A[p]) /\ A[p].status = "running" /\ A[p].drawn \in Nat
      BY <1>3
    <2>3. A[0].calls = A[1].calls /\ FitsAll(A[0].handed, A[1].handed)
      BY <1>3, <1>4, PartyIs
    <2> QED BY <2>1, <2>2, <2>3 DEF IsJoint
  <1>6. PICK L : L = Lg(A)
    OBVIOUS
  <1>7. \A p \in Party : L[p] = x
    BY <1>3, <1>6 DEF Lg
  <1>8. Fresh(x) /\ x.other_pk = None
    BY <1>1, NewFresh
  <1>9. LgOK(L)
    <2>1. KeysOK(L)
      BY <1>7, <1>8 DEF KeysOK
    <2>2. \A p \in Party : Fresh(L[p])
      BY <1>7, <1>8
    <2> QED BY <2>1, <2>2, FreshOK
  <1>10. PrepOK(Prep(A))
    <2>1. Prep(A) = JResult(L)
      BY <1>1, <1>3, <1>7 DEF Prep, JResult
    <2> QED BY <1>9, <2>1, ResultOK
  <1>11. A[0].calls \in Seq(Calls)
    BY <1>3, PartyIs
  <1> QED BY <1>3, <1>5, <1>6, <1>9, <1>10, <1>11 DEF Between

LEMMA LinkInit ==
    ASSUME SameCalls, Init
    PROVE  LinkInv
  <1>1. PICK sc \in Scenarios :
          party = [p \in Party |->
                [lg |-> NewLowGear, prep |-> get_offline_result(NewLowGear),
                 used |-> <<>>, handed |-> <<>>, calls |-> sc.calls[p], prog |-> <<>>,
                 mem |-> <<>>, drawn |-> 0, status |-> "running"]]
    BY DEF Init
  <1>2. PICK c : c = sc.calls[0]
    OBVIOUS
  <1>3. c \in Seq(Calls) /\ \A p \in Party : sc.calls[p] = c
    BY <1>1, <1>2, CallsAssumption, PartyIs DEF SameCalls
  <1>4. PICK A : A = [p \in Party |-> NewParty(c)]
    OBVIOUS
  <1>5. party = A
    BY <1>1, <1>3, <1>4 DEF NewParty
  <1>6. Between(A)
    BY <1>3, <1>4, NewBetween
  <1>7. Rest(A)
    BY <1>6 DEF Rest
  <1>8. Path(A, A)
    BY <1>7, RestGrows
  <1>9. wire = [p \in Party |-> <<>>] /\ key \in [Party -> F]
    BY LowGearAssumption DEF Init
  <1>10. NoMail(wire)
    BY <1>9, PartyIs DEF NoMail
  <1>11. Apart(party, wire, 0, A, A)
    BY <1>5, <1>7, <1>8, <1>10, PartyIs DEF Apart
  <1>12. Linked(party, wire)
    BY <1>11 DEF Linked
  <1>13. party = [p \in Party |-> party[p]] /\ wire = [p \in Party |-> wire[p]]
    BY <1>1, <1>9
  <1> QED BY <1>9, <1>12, <1>13 DEF LinkInv

LEMMA ExceptChanges ==
    ASSUME NEW P, P = [p \in Party |-> P[p]], NEW p \in Party, NEW s, NEW Q,
           Q = [P EXCEPT ![p] = s]
    PROVE  Changes(p, P, Q, s) /\ Q = [q \in Party |-> Q[q]]
  BY PartyIs DEF Changes

\* What a step does to party p's state s in an honest run
LEMMA LinkStep ==
    ASSUME DrawsInField, LinkInv, [Next]_lgVars
    PROVE  LinkInv'
  <1>1. /\ key \in [Party -> F]
        /\ party = [p \in Party |-> party[p]] /\ wire = [p \in Party |-> wire[p]]
        /\ Honest => Linked(party, wire)
    BY DEF LinkInv
  <1>2. PICK P, W : P = party /\ W = wire
    OBVIOUS
  <1>3. KeysInField
    BY <1>1, PartyIs DEF KeysInField
  <1>4. key' = key
    BY DEF Next, Step, Begin, Send, SendWrong, Transmit, Receive, Disconnected, SendFails, Finish,
           lgVars
  <1> DEFINE Goal == /\ party' = [p \in Party |-> party'[p]] /\ wire' = [p \in Party |-> wire'[p]]
                     /\ Honest' => Linked(party', wire')
  <1>5. ASSUME Goal PROVE LinkInv'
    <2>1. PICK Q, V : Q = party' /\ V = wire'
      OBVIOUS
    <2>2. Honest' => Linked(Q, V)
      BY <1>5, <2>1
    <2>3. Honest' => Linked(Q, V)'
      BY <1>4, <2>2, LinkedStable
    <2>4. Honest' => Linked(party, wire)'
      BY <2>1, <2>3
    <2> QED BY <1>1, <1>4, <1>5, <2>4 DEF LinkInv
  <1>6. CASE UNCHANGED lgVars
    <2>1. party' = party /\ wire' = wire /\ dev' = dev
      BY <1>6 DEF lgVars
    <2>2. Goal
      BY <1>1, <2>1 DEF Honest
    <2> QED BY <1>5, <2>2
  <1> HIDE DEF Goal
  <1>7. ASSUME NEW p \in Party, Step(p) PROVE Goal
    <2>0. P = [q \in Party |-> P[q]] /\ W = [q \in Party |-> W[q]]
      BY <1>1, <1>2
    <2>1. CASE (Begin(p) \/ Finish(p)) /\ dev' = dev
      <3>1. P[p].status = "running" /\ P[p].prog = <<>> /\ wire' = wire
        BY <1>2, <2>1 DEF Begin, Finish
      <3>2. PICK s, t : s = P[p] /\ t = CallOf(p, s)
        OBVIOUS
      <3>3. party' = [P EXCEPT ![p] = t]
        <4>1. CASE Begin(p)
          <5>1. s.calls # <<>>
            BY <1>2, <3>2, <4>1 DEF Begin
          <5>2. PICK call, past, g : /\ call = Head(s.calls) /\ past = Begun(s)
                                     /\ g = Program(p, s.lg, call)
            OBVIOUS
          <5>3. party' = [P EXCEPT ![p] = IF call.op \in Generators
                                          THEN Advance(p, SetProg(past, g))
                                          ELSE LocalCall(p, past, call)]
            BY <1>2, <3>2, <4>1, <5>2 DEF Begin, Begun, SetProg
          <5>4. t = IF call.op \in Generators THEN Advance(p, SetProg(past, g))
                    ELSE LocalCall(p, past, call)
            BY <3>2, <5>1, <5>2 DEF CallOf
          <5> QED BY <5>3, <5>4
        <4>2. CASE Finish(p)
          <5>1. s.calls = <<>>
            BY <1>2, <3>2, <4>2 DEF Finish
          <5>2. t = [s EXCEPT !.status = "done"]
            BY <3>2, <5>1 DEF CallOf
          <5>3. party' = [P EXCEPT ![p].status = "done"]
            BY <1>2, <4>2 DEF Finish
          <5> QED BY <3>2, <5>2, <5>3
        <4> QED BY <2>1, <4>1, <4>2
      <3>4. PICK Q : Q = party'
        OBVIOUS
      <3>5. Changes(p, P, Q, t) /\ Q = [q \in Party |-> Q[q]]
        BY <2>0, <3>3, <3>4, ExceptChanges
      <3>6. ASSUME Linked(P, W) PROVE Linked(Q, W)
        BY <1>3, <3>1, <3>2, <3>5, <3>6, CallKeeps
      <3> QED BY <1>1, <1>2, <2>1, <3>1, <3>4, <3>5, <3>6 DEF Goal, Honest
    <2>2. CASE Send(p) /\ dev' = dev
      <3>1. PICK s, m, t : s = P[p] /\ m = MessageOf(s) /\ t = Advance(p, Past(s))
        OBVIOUS
      <3>2. s.prog # <<>> /\ Head(s.prog).op = "send"
        BY <1>2, <2>2, <3>1 DEF Send, Transmit, At
      <3>3. m = Outgoing(p)
        BY <1>2, <3>1 DEF Outgoing, MessageOf
      <3>4. party' = [P EXCEPT ![p] = t] /\ wire' = [W EXCEPT ![1 - p] = Append(W[1 - p], m)]
        BY <1>2, <2>2, <3>1, <3>3 DEF Send, Transmit
      <3>5. PICK Q, V, w, r : Q = party' /\ V = wire' /\ r = 1 - p /\ w = Append(W[r], m)
        OBVIOUS
      <3>6. Changes(p, P, Q, t) /\ Q = [q \in Party |-> Q[q]]
        BY <2>0, <3>4, <3>5, ExceptChanges
      <3>7. r \in Party
        BY <3>5, PartyIs
      <3>8. V = [W EXCEPT ![r] = w]
        BY <3>4, <3>5
      <3>9. Changes(r, W, V, w) /\ V = [q \in Party |-> V[q]]
        BY <2>0, <3>7, <3>8, ExceptChanges
      <3>10. ASSUME Linked(P, W) PROVE Linked(Q, V)
        BY <3>1, <3>2, <3>5, <3>6, <3>9, <3>10, SendKeeps
      <3> QED BY <1>1, <1>2, <2>2, <3>5, <3>6, <3>9, <3>10 DEF Goal, Honest
    <2>3. CASE SendWrong(p)
      <3>1. PICK m : Transmit(p, m) /\ dev'.made = TRUE
        BY <2>3 DEF SendWrong
      <3>2. PICK t : t = Advance(p, Past(P[p]))
        OBVIOUS
      <3>3. party' = [P EXCEPT ![p] = t] /\ wire' = [W EXCEPT ![1 - p] = Append(@, m)]
        BY <1>2, <3>1, <3>2 DEF Transmit
      <3>4. ~Honest'
        BY <3>1 DEF Honest
      <3>5. party' = [q \in Party |-> party'[q]] /\ wire' = [q \in Party |-> wire'[q]]
        BY <2>0, <3>3
      <3> QED BY <3>4, <3>5 DEF Goal
    <2>4. CASE Receive(p) /\ dev' = dev
      <3>1. PICK s, m : s = P[p] /\ m = Head(W[p])
        OBVIOUS
      <3>2. s.prog # <<>> /\ Head(s.prog).op = "recv" /\ W[p] # <<>>
        BY <1>2, <2>4, <3>1 DEF Receive, At
      <3>3. wire' = [W EXCEPT ![p] = Tail(W[p])]
        BY <1>2, <2>4 DEF Receive
      <3>4. PICK Q, V, w : Q = party' /\ V = wire' /\ w = Tail(W[p])
        OBVIOUS
      <3>5. \E u : Q = [P EXCEPT ![p] = u]
        BY <1>2, <2>4, <3>4 DEF Receive
      <3>6. Q = [q \in Party |-> Q[q]]
        BY <2>0, <3>5
      <3>7. Changes(p, W, V, w) /\ V = [q \in Party |-> V[q]]
        BY <2>0, <3>3, <3>4, ExceptChanges
      <3>8. ASSUME Linked(P, W) PROVE Linked(Q, V)
        <4>1. /\ m.kind = Head(s.prog).kind
              /\ Changes(p, P, Q, Arrival(p, s, m)) => Linked(Q, V)
          BY <3>1, <3>2, <3>4, <3>7, <3>8, ReceiveKeeps
        <4>2. PICK t : t = Arrival(p, s, m)
          OBVIOUS
        <4>3. Q = [P EXCEPT ![p] = t]
          BY <1>2, <2>4, <3>1, <3>4, <4>1, <4>2 DEF Receive, Arrival
        <4>4. Changes(p, P, Q, t)
          BY <2>0, <4>3, ExceptChanges
        <4> QED BY <4>1, <4>2, <4>4
      <3> QED BY <1>1, <1>2, <2>4, <3>4, <3>6, <3>7, <3>8 DEF Goal, Honest
    <2>5. CASE (Disconnected(p) \/ SendFails(p)) /\ dev' = dev
      <3>1. /\ P[p].prog # <<>> /\ P[1 - p].status # "running" /\ wire' = wire
            /\ Head(P[p].prog).op = "recv" => W[p] = <<>>
        BY <1>2, <2>5 DEF Disconnected, SendFails, At, Stopped
      <3>2. \E u : party' = [P EXCEPT ![p] = u]
        BY <1>2, <2>5 DEF Disconnected, SendFails
      <3>3. party' = [q \in Party |-> party'[q]]
        BY <2>0, <3>2
      <3>4. ~Linked(P, W)
        BY <3>1, NobodyLeft
      <3>5. ~Honest'
        BY <1>1, <1>2, <2>5, <3>4 DEF Honest
      <3> QED BY <1>1, <3>1, <3>3, <3>5 DEF Goal
    <2>6. /\ Begin(p) \/ Finish(p) => dev' = dev
          /\ Send(p) => dev' = dev
          /\ Receive(p) => dev' = dev
          /\ Disconnected(p) \/ SendFails(p) => dev' = dev
      BY DEF Begin, Finish, Send, Receive, Disconnected, SendFails
    <2> QED BY <1>7, <2>1, <2>2, <2>3, <2>4, <2>5, <2>6 DEF Step
  <1> QED BY <1>5, <1>6, <1>7 DEF Next

LEMMA PreKnows ==
    ASSUME NEW x, NEW y, Pre(x, y)
    PROVE  \A k \in DOMAIN x : k \in DOMAIN y /\ y[k] = x[k]
  <1>1. PICK S, T : x \in Seq(S) /\ y \in Seq(T)
    BY DEF Pre, IsList
  <1>2. DOMAIN x = 1..Len(x) /\ DOMAIN y = 1..Len(y) /\ Len(x) \in Nat /\ Len(y) \in Nat
    BY <1>1
  <1> QED BY <1>2 DEF Pre

\* The logs and the statuses of linked parties
LEMMA LinkedLogs ==
    ASSUME NEW P, NEW W, Linked(P, W)
    PROVE  \E x, y : /\ FitsAll(x, y) /\ Pre(P[0].handed, x) /\ Pre(P[1].handed, y)
  <1>1. ASSUME NEW q, NEW A, NEW B, Apart(P, W, q, A, B)
        PROVE  \E x, y : /\ FitsAll(x, y) /\ Pre(P[0].handed, x) /\ Pre(P[1].handed, y)
    <2>1. /\ Path(A, B) /\ Rest(B) /\ q \in Party /\ P[q] = A[q] /\ P[1 - q] = B[1 - q]
      BY <1>1 DEF Apart
    <2>2. Grows(A, B) /\ Grows(B, B) /\ FitsAll(B[0].handed, B[1].handed)
      BY <2>1, PathFacts, RestGrows
    <2>3. ASSUME NEW r \in Party PROVE Pre(P[r].handed, B[r].handed)
      <3>1. r = q \/ r = 1 - q
        BY <2>1 DEF Party
      <3> QED BY <2>1, <2>2, <3>1 DEF Grows
    <2> QED BY <2>2, <2>3, PartyIs
  <1>2. ASSUME NEW A, NEW B, NEW kind, NEW out, NEW in, Sent(P, W, A, B, kind, out, in)
        PROVE  \E x, y : /\ FitsAll(x, y) /\ Pre(P[0].handed, x) /\ Pre(P[1].handed, y)
    <2>1. /\ Path(A, B) /\ Crossing(B) /\ Exchanges(B, kind, out, in)
          /\ P[0] = Past(B[0]) /\ P[1] = A[1]
      BY <1>2 DEF Sent
    <2>2. Past(B[0]).handed = B[0].handed
      BY <2>1, CrossFacts
    <2>3. Rest(B)
      BY <2>1 DEF Rest
    <2>4. Grows(A, B) /\ Grows(B, B) /\ FitsAll(B[0].handed, B[1].handed)
      BY <2>1, <2>3, PathFacts, RestGrows
    <2>5. Pre(P[0].handed, B[0].handed) /\ Pre(P[1].handed, B[1].handed)
      BY <2>1, <2>2, <2>4, PartyIs DEF Grows
    <2> QED BY <2>4, <2>5
  <1>3. ASSUME NEW B, NEW kind, NEW out, NEW in, Taken(P, W, B, kind, out, in)
        PROVE  \E x, y : /\ FitsAll(x, y) /\ Pre(P[0].handed, x) /\ Pre(P[1].handed, y)
    <2>1. /\ Crossing(B) /\ Exchanges(B, kind, out, in)
          /\ P[0] = Past(B[0]) /\ P[1] = Put(Past(B[1]), in, B[0].mem[out])
      BY <1>3 DEF Taken
    <2>2. /\ Past(B[0]).handed = B[0].handed /\ Past(B[1]).handed = B[1].handed
          /\ Ready(Past(B[1]), "send", kind, out)
      BY <2>1, CrossFacts
    <2>3. P[1].handed = B[1].handed
      BY <2>1, <2>2, PutReady
    <2>4. Rest(B)
      BY <2>1 DEF Rest
    <2>5. Grows(B, B) /\ FitsAll(B[0].handed, B[1].handed)
      BY <2>4, RestGrows
    <2>6. Pre(P[0].handed, B[0].handed) /\ Pre(P[1].handed, B[1].handed)
      BY <2>1, <2>2, <2>3, <2>5, PartyIs DEF Grows
    <2> QED BY <2>5, <2>6
  <1>4. ASSUME NEW B, NEW C, NEW kind, NEW out, NEW in, Replied(P, W, B, C, kind, out, in)
        PROVE  \E x, y : /\ FitsAll(x, y) /\ Pre(P[0].handed, x) /\ Pre(P[1].handed, y)
    <2>1. /\ Crossing(B) /\ Exchanges(B, kind, out, in)
          /\ Path(JAdvance(Swap(B)), C) /\ Rest(C) /\ P[0] = Past(B[0]) /\ P[1] = C[1]
      BY <1>4 DEF Replied
    <2>2. Past(B[0]).handed = B[0].handed
      BY <2>1, CrossFacts
    <2>3. PICK D : D = JAdvance(Swap(B))
      OBVIOUS
    <2>4. SameLog(B, D) /\ Path(D, C)
      BY <2>1, <2>3, SwapRests
    <2>5. Grows(D, C) /\ Grows(C, C) /\ FitsAll(C[0].handed, C[1].handed)
      BY <2>1, <2>4, PathFacts, RestGrows
    <2>6. P[0].handed = D[0].handed
      BY <2>1, <2>2, <2>4, PartyIs DEF SameLog
    <2>7. Pre(P[0].handed, C[0].handed) /\ Pre(P[1].handed, C[1].handed)
      BY <2>1, <2>5, <2>6, PartyIs DEF Grows
    <2> QED BY <2>5, <2>7
  <1> QED BY <1>1, <1>2, <1>3, <1>4 DEF Linked

LEMMA FitsMeans ==
    ASSUME NEW h, NEW g, FitsOne(h, g)
    PROVE  CASE h.req.pool = "triplets"      -> ValidTriples(h.got, g.got)
             [] h.req.pool = "inverse_pairs" -> ValidPairs(h.got, g.got)
             [] h.req.pool = "bits"          -> ValidBits(h.got.bit, g.got.bit)
             [] h.req.pool = "values"        -> AllValid(h.got.val, g.got.val)
             [] h.req.pool = "mask" /\ h.req.owner = 0 ->
                  ValidMasks(h.got.mask, h.got.share, g.got.share)
             [] h.req.pool = "mask" /\ h.req.owner = 1 ->
                  ValidMasks(g.got.mask, g.got.share, h.got.share)
  <1>1. \/ h.req.pool \in {"triplets", "inverse_pairs", "bits", "values"}
        \/ h.req.pool = "mask" /\ (h.req.owner = 0 \/ h.req.owner = 1)
    BY DEF FitsOne, Requests, Party
  <1> QED BY <1>1 DEF FitsOne

LEMMA LinkFits ==
    ASSUME LinkInv
    PROVE  HandedOutFits
  <1>1. ASSUME Honest, NEW k \in DOMAIN party[0].handed \cap DOMAIN party[1].handed
        PROVE  FitsOne(party[0].handed[k], party[1].handed[k])
    <2>1. PICK P, W : P = party /\ W = wire
      OBVIOUS
    <2>2. Linked(P, W)
      BY <1>1, <2>1 DEF LinkInv
    <2>3. PICK x, y : FitsAll(x, y) /\ Pre(P[0].handed, x) /\ Pre(P[1].handed, y)
      BY <2>2, LinkedLogs
    <2>4. k \in DOMAIN x /\ x[k] = P[0].handed[k]
      BY <1>1, <2>1, <2>3, PreKnows
    <2>5. y[k] = P[1].handed[k]
      BY <1>1, <2>1, <2>3, PreKnows
    <2>6. FitsOne(x[k], y[k])
      BY <2>3, <2>4 DEF FitsAll
    <2> QED BY <2>1, <2>4, <2>5, <2>6
  <1>2. ASSUME Honest, NEW k \in DOMAIN party[0].handed \cap DOMAIN party[1].handed,
               NEW h, NEW g, h = party[0].handed[k], g = party[1].handed[k]
        PROVE  CASE h.req.pool = "triplets"      -> ValidTriples(h.got, g.got)
                 [] h.req.pool = "inverse_pairs" -> ValidPairs(h.got, g.got)
                 [] h.req.pool = "bits"          -> ValidBits(h.got.bit, g.got.bit)
                 [] h.req.pool = "values"        -> AllValid(h.got.val, g.got.val)
                 [] h.req.pool = "mask" /\ h.req.owner = 0 ->
                      ValidMasks(h.got.mask, h.got.share, g.got.share)
                 [] h.req.pool = "mask" /\ h.req.owner = 1 ->
                      ValidMasks(g.got.mask, g.got.share, h.got.share)
    <2>1. FitsOne(h, g)
      BY <1>1, <1>2
    <2> QED BY <2>1, FitsMeans
  <1> QED BY <1>2 DEF HandedOutFits

\* Linked parties that stopped stopped for the same reason.
LEMMA LinkedStatus ==
    ASSUME NEW P, NEW W, Linked(P, W)
    PROVE  /\ \A p \in Party : P[p].status \in {"running", "done", "panic", "NotSetup"}
           /\ P[0].status # "running" /\ P[1].status # "running" => P[0].status = P[1].status
  <1>1. ASSUME NEW q, NEW A, NEW B, Apart(P, W, q, A, B)
        PROVE  /\ \A p \in Party : P[p].status \in {"running", "done", "panic", "NotSetup"}
               /\ P[0].status # "running" /\ P[1].status # "running" => P[0].status = P[1].status
    <2>1. /\ Path(A, B) /\ Rest(B) /\ q \in Party /\ P[q] = A[q] /\ P[1 - q] = B[1 - q]
      BY <1>1 DEF Apart
    <2>2. \A p \in Party : B[p].status \in {"running", "done", "panic", "NotSetup"}
      BY <2>1, RestParty
    <2>3. \A p \in Party : p = q \/ p = 1 - q
      BY <2>1 DEF Party
    <2>4. CASE A = B
      <3>1. \A p \in Party : P[p] = B[p]
        BY <2>1, <2>3, <2>4
      <3>2. B[0].status # "running" => B[0].status = B[1].status
        <4>1. B[0].status # "running" => EndedBoth(B)
          BY <2>1, RestParty, PartyIs
        <4> QED BY <4>1 DEF EndedBoth
      <3> QED BY <2>2, <3>1, <3>2, PartyIs
    <2>5. CASE A # B
      <3>1. P[q].status = "running"
        BY <2>1, <2>5, PathParty
      <3>2. P[1 - q].status \in {"running", "done", "panic", "NotSetup"}
        BY <2>1, <2>2, PartyIs
      <3>3. P[0].status = "running" \/ P[1].status = "running"
        BY <2>1, <3>1, PartyIs
      <3> QED BY <2>3, <3>1, <3>2, <3>3
    <2> QED BY <2>4, <2>5
  <1>2. ASSUME P[0].status = "running", NEW B, Rest(B), P[1].status = B[1].status
        PROVE  /\ \A p \in Party : P[p].status \in {"running", "done", "panic", "NotSetup"}
               /\ P[0].status # "running" /\ P[1].status # "running" => P[0].status = P[1].status
    <2>1. B[1].status \in {"running", "done", "panic", "NotSetup"}
      BY <1>2, RestParty, PartyIs
    <2> QED BY <1>2, <2>1, PartyIs
  <1>3. ASSUME NEW A, NEW B, NEW kind, NEW out, NEW in, Sent(P, W, A, B, kind, out, in)
        PROVE  P[0].status = "running" /\ \E C : Rest(C) /\ P[1].status = C[1].status
    <2>1. /\ Path(A, B) /\ Crossing(B) /\ Exchanges(B, kind, out, in)
          /\ P[0] = Past(B[0]) /\ P[1] = A[1]
      BY <1>3 DEF Sent
    <2>2. Ready(Past(B[0]), "recv", kind, in)
      BY <2>1, CrossFacts
    <2>3. Rest(B)
      BY <2>1 DEF Rest
    <2>4. A = B \/ Between(A)
      BY <2>1, PathFacts
    <2>5. Rest(A)
      BY <2>3, <2>4 DEF Rest
    <2> QED BY <2>1, <2>2, <2>5 DEF Ready
  <1>4. ASSUME NEW B, NEW kind, NEW out, NEW in, Taken(P, W, B, kind, out, in)
        PROVE  P[0].status = "running" /\ P[1].status = "running"
    <2>1. /\ Crossing(B) /\ Exchanges(B, kind, out, in)
          /\ P[0] = Past(B[0]) /\ P[1] = Put(Past(B[1]), in, B[0].mem[out])
      BY <1>4 DEF Taken
    <2>2. Ready(Past(B[0]), "recv", kind, in) /\ Ready(Past(B[1]), "send", kind, out)
      BY <2>1, CrossFacts
    <2>3. Ready(P[1], "send", kind, out)
      BY <2>1, <2>2, PutReady
    <2> QED BY <2>1, <2>2, <2>3 DEF Ready
  <1>5. ASSUME NEW B, NEW C, NEW kind, NEW out, NEW in, Replied(P, W, B, C, kind, out, in)
        PROVE  P[0].status = "running" /\ \E D : Rest(D) /\ P[1].status = D[1].status
    <2>1. /\ Crossing(B) /\ Exchanges(B, kind, out, in) /\ Rest(C)
          /\ P[0] = Past(B[0]) /\ P[1] = C[1]
      BY <1>5 DEF Replied
    <2>2. Ready(Past(B[0]), "recv", kind, in)
      BY <2>1, CrossFacts
    <2> QED BY <2>1, <2>2 DEF Ready
  <1>6. CASE P[0].status = "running" /\ \E C : Rest(C) /\ P[1].status = C[1].status
    BY <1>2, <1>6
  <1>7. CASE P[0].status = "running" /\ P[1].status = "running"
    BY <1>7, PartyIs
  <1> QED BY <1>1, <1>3, <1>4, <1>5, <1>6, <1>7 DEF Linked

LEMMA LinkAccuses ==
    ASSUME LinkInv
    PROVE  HonestNeverAccused
  <1> SUFFICES ASSUME Honest PROVE HonestNeverAccused
    BY DEF HonestNeverAccused
  <1>1. PICK P, W : P = party /\ W = wire
    OBVIOUS
  <1>2. Linked(P, W)
    BY <1>1 DEF LinkInv
  <1>3. /\ \A p \in Party : P[p].status \in {"running", "done", "panic", "NotSetup"}
        /\ P[0].status # "running" /\ P[1].status # "running" => P[0].status = P[1].status
    BY <1>2, LinkedStatus
  <1>4. \A p \in Party : party[p].status \notin {"InvalidCommitment", "InvalidMac", "SacrificeError"}
    BY <1>1, <1>3
  <1>5. ASSUME \A p \in Party : Stopped(p) /\ party[p].calls = party[1 - p].calls
        PROVE  (party[0].status = "done") = (party[1].status = "done")
    BY <1>1, <1>3, <1>5, PartyIs DEF Stopped
  <1> QED BY <1>4, <1>5 DEF HonestNeverAccused

\* As long as no party has deviated, the two tasks are at two points of one joint
\* run, and the wires hold what the one that is ahead has sent: this is the
\* inductive invariant that links the two LowGear objects and their programs.
THEOREM PartiesLinked ==
    ASSUME DrawsInField
    PROVE  Spec /\ SameCalls => []LinkInv
  <1>1. Init /\ SameCalls => LinkInv
    BY LinkInit
  <1>2. LinkInv /\ [Next]_lgVars => LinkInv'
    BY LinkStep
  <1> QED BY <1>1, <1>2, PTL DEF Spec

\* Whatever two honest applications call, in the same order, the k-th request to
\* the next_* methods yields the two parties shares of the same triple, inverse
\* pair, bit, random value or input mask: the cursors of the two pools agree
\* through generation, consumption, truncation, restarts and appended pools.
THEOREM HandedOutAlwaysFits ==
    ASSUME DrawsInField
    PROVE  Spec /\ SameCalls => []HandedOutFits
  <1>1. LinkInv => HandedOutFits
    BY LinkFits
  <1> QED BY <1>1, PartiesLinked, PTL

\* Two honest parties that make the same calls never fail a commitment, a MAC
\* check or a sacrifice, and if both stop after the same calls then either both
\* have finished or neither has.
THEOREM HonestRunsClean ==
    ASSUME DrawsInField
    PROVE  Spec /\ SameCalls => []HonestNeverAccused
  <1>1. LinkInv => HonestNeverAccused
    BY LinkAccuses
  <1> QED BY <1>1, PartiesLinked, PTL

---------------------------------------------------------------------------
(* The pools of parties that have made the same calls                      *)
(*                                                                         *)
(* No call leads back to where the calls left were the same: a call that   *)
(* makes more of them takes a call of run_offline_phase away.              *)

\* The calls of the whole phase that are left, counted from the last call
PhaseAt(c) == {k \in DOMAIN c : c[k].op = "run_offline_phase"}
Phases(c) == {Len(c) - k : k \in PhaseAt(c)}

Later(c, d) ==
    /\ c \in Seq(Calls) /\ d \in Seq(Calls) /\ Phases(d) \subseteq Phases(c)
    /\ Phases(d) = Phases(c) => Len(d) < Len(c)

LEMMA LaterFacts ==
    /\ \A c : ~Later(c, c)
    /\ \A c, d, e : Later(c, d) /\ Later(d, e) => Later(c, e)
  <1>1. ASSUME NEW c, Later(c, c) PROVE FALSE
    <2>1. Len(c) \in Nat /\ Len(c) < Len(c)
      BY <1>1 DEF Later
    <2> QED BY <2>1
  <1>2. ASSUME NEW c, NEW d, NEW e, Later(c, d), Later(d, e) PROVE Later(c, e)
    <2>1. Len(c) \in Nat /\ Len(d) \in Nat /\ Len(e) \in Nat
      BY <1>2 DEF Later
    <2>2. PICK x, y, z : x = Phases(c) /\ y = Phases(d) /\ z = Phases(e)
      OBVIOUS
    <2>3. /\ y \subseteq x /\ z \subseteq y
          /\ (y = x => Len(d) < Len(c)) /\ (z = y => Len(e) < Len(d))
      BY <1>2, <2>2 DEF Later
    <2>4. z \subseteq x /\ (z = x => z = y /\ y = x)
      BY <2>3
    <2>5. z = x => Len(e) < Len(c)
      BY <2>1, <2>3, <2>4
    <2> QED BY <1>2, <2>2, <2>4, <2>5 DEF Later
  <1> QED BY <1>1, <1>2

\* The phases of calls that are put before others
LEMMA PhasesBefore ==
    ASSUME NEW g \in Seq(Calls), NEW d \in Seq(Calls),
           \A k \in 1..Len(g) : g[k].op # "run_offline_phase"
    PROVE  Phases(g \o d) = Phases(d)
  <1>1. PICK e : e = g \o d
    OBVIOUS
  <1>2. PICK n, m : n = Len(g) /\ m = Len(d)
    OBVIOUS
  <1>3. n \in Nat /\ m \in Nat /\ DOMAIN d = 1..m
    BY <1>2
  <1>4. /\ Len(e) = n + m /\ DOMAIN e = 1..(n + m)
        /\ \A k \in 1..n : e[k] = g[k]
        /\ \A k \in 1..m : e[n + k] = d[k]
    BY <1>1, <1>2
  <1>5. ASSUME NEW x \in Phases(e) PROVE x \in Phases(d)
    <2>1. PICK k \in 1..(n + m) : x = (n + m) - k /\ e[k].op = "run_offline_phase"
      BY <1>4, <1>5 DEF Phases, PhaseAt
    <2>2. k \notin 1..n
      BY <1>2, <1>4, <2>1
    <2>3. PICK j : j = k - n
      OBVIOUS
    <2>4. j \in 1..m /\ k = n + j /\ x = m - j
      BY <1>3, <2>1, <2>2, <2>3
    <2>5. d[j].op = "run_offline_phase"
      BY <1>4, <2>1, <2>4
    <2> QED BY <1>2, <1>3, <2>4, <2>5 DEF Phases, PhaseAt
  <1>6. ASSUME NEW x \in Phases(d) PROVE x \in Phases(e)
    <2>1. PICK j \in 1..m : x = m - j /\ d[j].op = "run_offline_phase"
      BY <1>2, <1>3, <1>6 DEF Phases, PhaseAt
    <2>2. PICK k : k = n + j
      OBVIOUS
    <2>3. k \in 1..(n + m) /\ x = (n + m) - k
      BY <1>3, <2>1, <2>2
    <2>4. e[k].op = "run_offline_phase"
      BY <1>4, <2>1, <2>2
    <2> QED BY <1>4, <2>3, <2>4 DEF Phases, PhaseAt
  <1> QED BY <1>1, <1>5, <1>6

LEMMA CallsSplit ==
    ASSUME NEW c \in Seq(Calls), c # <<>>
    PROVE  /\ Tail(c) \in Seq(Calls) /\ Len(Tail(c)) = Len(c) - 1 /\ Len(c) \in Nat \ {0}
           /\ Head(c) \in Calls /\ c = <<Head(c)>> \o Tail(c)
  OBVIOUS

\* Without its first call there is one phase less, or one call less.
LEMMA LessPhases ==
    ASSUME NEW c \in Seq(Calls), c # <<>>
    PROVE  /\ Head(c).op # "run_offline_phase" => Phases(Tail(c)) = Phases(c)
           /\ Head(c).op = "run_offline_phase" =>
                 Phases(Tail(c)) \subseteq Phases(c) /\ Phases(Tail(c)) # Phases(c)
  <1>1. PICK d, n : d = Tail(c) /\ n = Len(c)
    OBVIOUS
  <1>2. /\ d \in Seq(Calls) /\ Len(d) = n - 1 /\ n \in Nat \ {0} /\ DOMAIN c = 1..n
        /\ DOMAIN d = 1..(n - 1) /\ \A k \in 1..(n - 1) : d[k] = c[k + 1]
    BY <1>1
  <1>3. c[1] = Head(c)
    OBVIOUS
  <1>4. ASSUME NEW x \in Phases(d) PROVE x \in Phases(c) /\ x < n - 1
    <2>1. PICK j \in 1..(n - 1) : x = (n - 1) - j /\ d[j].op = "run_offline_phase"
      BY <1>2, <1>4 DEF Phases, PhaseAt
    <2>2. PICK k : k = j + 1
      OBVIOUS
    <2>3. k \in 1..n /\ x = n - k /\ x < n - 1
      BY <1>2, <2>1, <2>2
    <2>4. c[k].op = "run_offline_phase"
      BY <1>2, <2>1, <2>2
    <2> QED BY <1>1, <1>2, <2>3, <2>4 DEF Phases, PhaseAt
  <1>5. ASSUME Head(c).op = "run_offline_phase" PROVE n - 1 \in Phases(c)
    BY <1>1, <1>2, <1>3, <1>5 DEF Phases, PhaseAt
  <1>6. ASSUME Head(c).op # "run_offline_phase", NEW x \in Phases(c) PROVE x \in Phases(d)
    <2>1. PICK k \in 1..n : x = n - k /\ c[k].op = "run_offline_phase"
      BY <1>1, <1>2, <1>6 DEF Phases, PhaseAt
    <2>2. k # 1
      BY <1>3, <1>6, <2>1
    <2>3. PICK j : j = k - 1
      OBVIOUS
    <2>4. j \in 1..(n - 1) /\ x = (n - 1) - j /\ k = j + 1
      BY <1>2, <2>1, <2>2, <2>3
    <2>5. d[j].op = "run_offline_phase"
      BY <1>2, <2>1, <2>4
    <2> QED BY <1>2, <2>4, <2>5 DEF Phases, PhaseAt
  <1>7. n - 1 \notin Phases(d)
    BY <1>2, <1>4
  <1>8. Phases(d) \subseteq Phases(c)
    BY <1>4
  <1>9. ASSUME Head(c).op # "run_offline_phase" PROVE Phases(d) = Phases(c)
    <2>1. Phases(c) \subseteq Phases(d)
      BY <1>6, <1>9
    <2> QED BY <1>8, <2>1
  <1>10. ASSUME Head(c).op = "run_offline_phase" PROVE Phases(d) # Phases(c)
    BY <1>5, <1>7, <1>10
  <1> QED BY <1>1, <1>8, <1>9, <1>10

LEMMA TailLater ==
    ASSUME NEW c \in Seq(Calls), c # <<>>, Head(c).op # "run_offline_phase"
    PROVE  Later(c, Tail(c))
  <1>1. Phases(Tail(c)) = Phases(c)
    BY LessPhases
  <1>2. Tail(c) \in Seq(Calls) /\ Len(Tail(c)) < Len(c)
    BY CallsSplit
  <1> QED BY <1>1, <1>2 DEF Later

LEMMA PhaseLater ==
    ASSUME NEW c \in Seq(Calls), c # <<>>, Head(c).op = "run_offline_phase"
    PROVE  Later(c, run_offline_phase(Head(c).sizes) \o Tail(c))
  <1>1. PICK z, g : z = Head(c).sizes /\ g = run_offline_phase(z)
    OBVIOUS
  <1>2. Head(c) \in Calls /\ Tail(c) \in Seq(Calls)
    BY CallsSplit
  <1>3. z \in Sizes
    BY <1>1, <1>2 DEF Calls
  <1>4. g \in Seq(Calls)
    BY <1>1, <1>3 DEF run_offline_phase, Calls, Sizes
  <1>5. Len(g) = 5
    BY <1>1 DEF run_offline_phase
  <1>6. ASSUME NEW k \in 1..5 PROVE g[k].op # "run_offline_phase"
    <2>1. k = 1 \/ k = 2 \/ k = 3 \/ k = 4 \/ k = 5
      OBVIOUS
    <2>2. /\ g[1].op = "generate_triples" /\ g[2].op = "generate_inverse_tuples"
          /\ g[3].op = "generate_shared_bits" /\ g[4].op = "generate_shared_randomness"
          /\ g[5].op = "generate_input_masks"
      BY <1>1 DEF run_offline_phase
    <2> QED BY <2>1, <2>2
  <1>7. Phases(g \o Tail(c)) = Phases(Tail(c))
    BY <1>2, <1>4, <1>5, <1>6, PhasesBefore
  <1>8. Phases(Tail(c)) \subseteq Phases(c) /\ Phases(Tail(c)) # Phases(c)
    BY LessPhases
  <1>9. g \o Tail(c) \in Seq(Calls)
    BY <1>2, <1>4
  <1> QED BY <1>1, <1>7, <1>8, <1>9 DEF Later

\* What is left for a party to call after a call, unless the call stops it
Moves(s, u) ==
    \/ s.calls = <<>> /\ u.status = "done" /\ u.lg = s.lg /\ u.calls = s.calls
    \/ u.status \notin {"running", "done"}
    \/ Later(s.calls, u.calls)

LEMMA LocalLater ==
    ASSUME NEW p, NEW s, IsState(s), s.calls \in Seq(Calls), s.calls # <<>>,
           NEW call, call = Head(s.calls), call.op \notin Generators,
           NEW u, u = LocalCall(p, Begun(s), call)
    PROVE  Moves(s, u)
  <1>1. PICK t : t = Begun(s)
    OBVIOUS
  <1>2. IsState(t) /\ t.calls = Tail(s.calls)
    BY <1>1, BegunFacts
  <1>3. call \in Calls
    BY CallsSplit
  <1>4. call.op \in {"run_offline_phase", "next", "new_from_params", "get_offline_result", "append"}
    BY <1>3 DEF Calls, Generators
  <1>5. /\ \A e : Fail(t, e).status = e
        /\ \A x : [t EXCEPT !.lg = x].calls = t.calls
        /\ \A x : [t EXCEPT !.calls = x].calls = x
    BY <1>2 DEF Fail, IsState, Fields
  <1>6. ASSUME u.calls = t.calls, call.op # "run_offline_phase" PROVE Moves(s, u)
    BY <1>2, <1>6, TailLater DEF Moves
  <1>7. CASE call.op = "run_offline_phase"
    <2>1. u = [t EXCEPT !.calls = run_offline_phase(call.sizes) \o @]
      BY <1>1, <1>7 DEF LocalCall
    <2>2. PICK x : x = run_offline_phase(call.sizes) \o Tail(s.calls)
      OBVIOUS
    <2>3. u = [t EXCEPT !.calls = x]
      BY <1>2, <2>1, <2>2
    <2>4. u.calls = x
      BY <1>5, <2>3
    <2>5. Later(s.calls, x)
      BY <1>7, <2>2, PhaseLater
    <2> QED BY <2>4, <2>5 DEF Moves
  <1>8. CASE call.op = "next"
    <2>1. u = next(t, p, call.req)
      BY <1>1, <1>8 DEF LocalCall
    <2>2. CASE SizeOf(t.prep[PoolOf(p, call.req)]) < call.req.n
      <3>1. u = Fail(t, "panic")
        BY <2>1, <2>2 DEF next
      <3>2. u.status = "panic"
        BY <1>5, <3>1
      <3> QED BY <3>2 DEF Moves
    <2>3. CASE ~(SizeOf(t.prep[PoolOf(p, call.req)]) < call.req.n)
      <3>1. PICK f, x, h, z :
               /\ f = PoolOf(p, call.req) /\ x = Leave(t.prep[f], call.req.n)
               /\ h = [req |-> call.req, got |-> Take(t.prep[f], call.req.n)]
               /\ z = IF f = "triplets" THEN t.used \o Log("online", Take(t.prep[f], call.req.n))
                      ELSE t.used
        OBVIOUS
      <3>2. u = [t EXCEPT !.prep[f] = x, !.handed = Append(@, h), !.used = z]
        BY <2>1, <2>3, <3>1 DEF next
      <3> HIDE <3>1
      <3>3. PICK r, q : r = [t EXCEPT !.prep[f] = x] /\ q = [r EXCEPT !.handed = Append(@, h)]
        OBVIOUS
      <3>4. IsState(r) /\ r.calls = t.calls
        BY <1>2, <3>3 DEF IsState, Fields
      <3>5. IsState(q) /\ q.calls = t.calls
        BY <3>3, <3>4 DEF IsState, Fields
      <3>6. u = [q EXCEPT !.used = z]
        BY <3>2, <3>3
      <3>7. u.calls = t.calls
        BY <3>5, <3>6 DEF IsState, Fields
      <3> QED BY <1>6, <1>8, <3>7
    <2> QED BY <2>2, <2>3
  <1>9. CASE t.lg.other_pk = None /\ call.op \notin {"run_offline_phase", "next"}
    <2>1. u = Fail(t, "NotSetup")
      BY <1>1, <1>9 DEF LocalCall
    <2>2. u.status = "NotSetup"
      BY <1>5, <2>1
    <2> QED BY <2>2 DEF Moves
  <1>10. CASE t.lg.other_pk # None /\ call.op = "new_from_params"
    <2>1. PICK x : u = [t EXCEPT !.lg = x]
      BY <1>1, <1>10 DEF LocalCall, CallOnResult
    <2>2. u.calls = t.calls
      BY <1>5, <2>1
    <2> QED BY <1>6, <1>10, <2>2
  <1>11. CASE t.lg.other_pk # None /\ call.op = "get_offline_result"
    <2>1. u = CallOnResult(t, call)
      BY <1>1, <1>11 DEF LocalCall
    <2>2. PICK x, y : u = SetStore(t, x, y)
      BY <1>11, <2>1, CopyIs
    <2>3. u.calls = t.calls
      BY <1>2, <2>2, CopyFacts
    <2> QED BY <1>6, <1>11, <2>3
  <1>12. CASE t.lg.other_pk # None /\ call.op = "append"
    <2>1. u = CallOnResult(t, call)
      BY <1>1, <1>12 DEF LocalCall
    <2>2. PICK x, y : u = SetStore(t, x, y)
      BY <1>12, <2>1, CopyIs
    <2>3. u.calls = t.calls
      BY <1>2, <2>2, CopyFacts
    <2> QED BY <1>6, <1>12, <2>3
  <1> QED BY <1>4, <1>7, <1>8, <1>9, <1>10, <1>11, <1>12

LEMMA CallLater ==
    ASSUME DrawsInField, KeysInField, NEW A, Between(A), NEW B, B = JCall(A)
    PROVE  \A p \in Party : Moves(A[p], B[p])
  <1>1. PICK c : c = A[0].calls
    OBVIOUS
  <1>2. /\ c \in Seq(Calls)
        /\ \A p \in Party : IsState(A[p]) /\ A[p].calls = c
    BY <1>1, PartyIs DEF Between, IsJoint
  <1>3. \A p \in Party : B[p] = CallOf(p, A[p])
    BY DEF JCall
  <1>4. CASE c = <<>>
    <2>1. ASSUME NEW p \in Party PROVE Moves(A[p], B[p])
      <3>1. PICK s, u : s = A[p] /\ u = B[p]
        OBVIOUS
      <3>2. IsState(s) /\ s.calls = <<>> /\ u = [s EXCEPT !.status = "done"]
        BY <1>2, <1>3, <1>4, <3>1 DEF CallOf
      <3>3. u.status = "done" /\ u.lg = s.lg /\ u.calls = s.calls
        BY <3>2 DEF IsState, Fields
      <3> QED BY <3>1, <3>2, <3>3 DEF Moves
    <2> QED BY <2>1
  <1>5. CASE c # <<>> /\ Head(c).op \notin Generators
    <2>1. ASSUME NEW p \in Party PROVE Moves(A[p], B[p])
      <3>1. PICK s, u : s = A[p] /\ u = B[p]
        OBVIOUS
      <3>2. IsState(s) /\ s.calls = c /\ u = LocalCall(p, Begun(s), Head(s.calls))
        BY <1>2, <1>3, <1>5, <3>1 DEF CallOf
      <3>3. Moves(s, u)
        BY <1>2, <1>5, <3>2, LocalLater
      <3> QED BY <3>1, <3>3
    <2> QED BY <2>1
  <1>6. CASE c # <<>> /\ Head(c).op \in Generators
    <2>1. PICK K, call, G, D : /\ K = JBegun(A) /\ call = Head(c)
                               /\ G = JProgram(K, call) /\ D = With(K, G)
      OBVIOUS
    <2>2. /\ Between(K) /\ call \in Calls
          /\ \A p \in Party : K[p] = Begun(A[p]) /\ K[p].lg = A[p].lg
      BY <1>1, <1>6, <2>1, BegunBetween
    <2>3. IsJoint(K) /\ LgOK(Lg(K)) /\ PrepOK(Prep(K)) /\ K[0].calls \in Seq(Calls)
      BY <2>2 DEF Between
    <2>4. Ends(G, K)
      BY <1>6, <2>1, <2>2, <2>3, ProgramEnds
    <2>5. Safe(D)
      BY <2>1, <2>3, <2>4, EndsSafe
    <2>6. SameLog(D, JAdvance(D))
      BY <2>5, AdvanceRests DEF Settles
    <2>7. ASSUME NEW p \in Party PROVE Moves(A[p], B[p])
      <3>1. PICK g : g = Program(p, A[p].lg, call)
        OBVIOUS
      <3>2. G[p] = g
        BY <2>1, <2>2, <3>1 DEF JProgram
      <3>3. D[p] = SetProg(K[p], g)
        BY <2>1, <3>2 DEF With
      <3>4. IsState(K[p])
        BY <2>3 DEF IsJoint
      <3>5. D[p].calls = K[p].calls
        BY <3>3, <3>4, SetProgFacts
      <3>6. CallOf(p, A[p]) = Advance(p, SetProg(Begun(A[p]), g))
        BY <1>2, <1>6, <2>1, <3>1 DEF CallOf
      <3>7. B[p] = JAdvance(D)[p]
        BY <1>3, <2>2, <3>3, <3>6 DEF JAdvance
      <3>8. B[p].calls = D[p].calls
        BY <2>6, <3>7 DEF SameLog
      <3>9. K[p].calls = Tail(c)
        <4>1. PICK s, t : s = A[p] /\ t = K[p]
          OBVIOUS
        <4>2. IsState(s) /\ s.calls = c /\ t = Begun(s)
          BY <1>2, <2>2, <4>1
        <4>3. t.calls = Tail(s.calls)
          BY <4>2, BegunFacts
        <4> QED BY <4>1, <4>2, <4>3
      <3>10. Head(c).op # "run_offline_phase"
        BY <1>6 DEF Generators
      <3>11. Later(c, Tail(c))
        BY <1>2, <1>6, <3>10, TailLater
      <3> QED BY <1>2, <3>5, <3>8, <3>9, <3>11 DEF Moves
    <2> QED BY <2>7
  <1> QED BY <1>4, <1>5, <1>6

\* The last call on the way from A to B, and that the calls before it took some away
LEMMA PathLater ==
    ASSUME DrawsInField, KeysInField, NEW A, NEW B, Path(A, B)
    PROVE  A = B \/ \E C : /\ Between(C) /\ B = JCall(C)
                           /\ A = C \/ Later(A[0].calls, C[0].calls)
  <1>1. PICK c, n : IsPath(c, n, A, B)
    BY DEF Path
  <1>2. /\ n \in Nat /\ c[0] = A /\ c[n] = B
        /\ \A k \in 0..n - 1 : Between(c[k]) /\ c[k + 1] = JCall(c[k])
    BY <1>1 DEF IsPath
  <1> DEFINE T == {m \in Nat : m < n => c[m] = A \/ Later(A[0].calls, c[m][0].calls)}
  <1>3. 0 \in T
    BY <1>2
  <1>4. ASSUME NEW m \in Nat, m \in T PROVE m + 1 \in T
    <2> SUFFICES ASSUME m + 1 < n PROVE Later(A[0].calls, c[m + 1][0].calls)
      OBVIOUS
    <2>1. m < n /\ m \in 0..n - 1 /\ m + 1 \in 0..n - 1
      BY <1>2
    <2>2. PICK C, D : C = c[m] /\ D = c[m + 1]
      OBVIOUS
    <2>3. Between(C) /\ Between(D) /\ D = JCall(C)
      BY <1>2, <2>1, <2>2
    <2>4. Moves(C[0], D[0])
      BY <2>3, CallLater, PartyIs
    <2>5. D[0].status = "running"
      BY <2>3, PartyIs DEF Between, IsJoint
    <2>6. Later(C[0].calls, D[0].calls)
      BY <2>4, <2>5 DEF Moves
    <2>7. C = A \/ Later(A[0].calls, C[0].calls)
      BY <1>4, <2>1, <2>2
    <2> QED BY <2>2, <2>6, <2>7, LaterFacts
  <1> HIDE DEF T
  <1>5. \A m \in Nat : m \in T
    BY <1>3, <1>4, Induction
  <1>6. CASE n = 0
    BY <1>2, <1>6
  <1>7. CASE n # 0
    <2>1. n - 1 \in Nat /\ n - 1 < n /\ n - 1 \in 0..n - 1 /\ (n - 1) + 1 = n
      BY <1>2, <1>7
    <2>2. PICK C : C = c[n - 1]
      OBVIOUS
    <2>3. Between(C) /\ B = JCall(C)
      BY <1>2, <2>1, <2>2
    <2>4. n - 1 \in T
      BY <1>5, <2>1
    <2>5. A = C \/ Later(A[0].calls, C[0].calls)
      BY <2>1, <2>2, <2>4 DEF T
    <2> QED BY <2>3, <2>5
  <1> QED BY <1>6, <1>7

\* The pools of two LowGear objects
PoolsFit(x, y) ==
    /\ ValidTriples(x.triples, y.triples)
    /\ ValidPairs(x.inverse_tuples, y.inverse_tuples)
    /\ ValidBits(x.shared_bits, y.shared_bits)

LEMMA LgPools ==
    ASSUME NEW L, LgOK(L)
    PROVE  PoolsFit(L[0], L[1])
  <1>1. PICK n \in Nat, m \in Nat, l \in Nat :
          /\ TriplesFit(L[0].triples, L[1].triples, n)
          /\ PairsFit(L[0].inverse_tuples, L[1].inverse_tuples, m)
          /\ BitsFit(L[0].shared_bits, L[1].shared_bits, l)
    BY DEF LgOK
  <1> QED BY <1>1, TriplesValid, PairsValid, BitsValid DEF PoolsFit

\* Parties that are apart, but have the same calls left, hold pools that fit.
LEMMA ApartPools ==
    ASSUME DrawsInField, KeysInField, NEW P, NEW W, NEW q, NEW A, NEW B, Apart(P, W, q, A, B),
           \A p \in Party : P[p].prog = <<>> /\ P[p].status \in {"running", "done"},
           P[0].calls = P[1].calls
    PROVE  PoolsFit(P[0].lg, P[1].lg)
  <1>1. /\ Path(A, B) /\ Rest(B) /\ q \in Party /\ 1 - q \in Party
        /\ P[q] = A[q] /\ P[1 - q] = B[1 - q]
    BY PartyIs DEF Apart
  <1>2. /\ B[1 - q].prog = <<>> /\ B[1 - q].status \in {"running", "done"}
        /\ A[q].calls = B[1 - q].calls
    BY <1>1, PartyIs
  <1>3. CASE A = B
    <2>1. \A p \in Party : P[p] = A[p]
      BY <1>1, <1>3, PartyIs
    <2>2. LgOK(Lg(A))
      <3>1. CASE B[1 - q].status = "running"
        <4>1. Between(B)
          BY <1>1, <1>2, <3>1, RestParty
        <4> QED BY <1>3, <4>1 DEF Between
      <3>2. CASE B[1 - q].status = "done"
        <4>1. EndedBoth(B)
          BY <1>1, <3>2, RestParty
        <4>2. B[0].status = B[1].status
          BY <4>1 DEF EndedBoth
        <4>3. B[0].status = "done"
          BY <1>1, <3>2, <4>2, PartyIs
        <4> QED BY <1>3, <4>1, <4>3 DEF EndedBoth
      <3> QED BY <1>2, <3>1, <3>2
    <2>3. PoolsFit(Lg(A)[0], Lg(A)[1])
      BY <2>2, LgPools
    <2>4. Lg(A)[0] = P[0].lg /\ Lg(A)[1] = P[1].lg
      BY <2>1, PartyIs DEF Lg
    <2> QED BY <2>3, <2>4
  <1>4. ASSUME NEW C, Between(C), B = JCall(C), A = C \/ Later(A[0].calls, C[0].calls), A # B
        PROVE  PoolsFit(P[0].lg, P[1].lg)
    <2>1. Moves(C[1 - q], B[1 - q])
      BY <1>1, <1>4, CallLater
    <2>2. Between(A)
      BY <1>1, <1>4, PathFacts
    <2>3. A[q].calls = A[0].calls /\ C[1 - q].calls = C[0].calls
      BY <1>1, <1>4, <2>2, PartyIs DEF Between, IsJoint
    <2>4. ~Later(C[1 - q].calls, B[1 - q].calls)
      BY <1>2, <1>4, <2>3, LaterFacts
    <2>5. B[1 - q].lg = C[1 - q].lg /\ B[1 - q].calls = C[1 - q].calls
      BY <1>2, <2>1, <2>4 DEF Moves
    <2>6. A = C
      BY <1>2, <1>4, <2>3, <2>5, LaterFacts
    <2>7. \A p \in Party : P[p].lg = A[p].lg
      BY <1>1, <2>5, <2>6, PartyIs
    <2>8. PoolsFit(Lg(A)[0], Lg(A)[1])
      BY <2>2, LgPools DEF Between
    <2>9. Lg(A)[0] = P[0].lg /\ Lg(A)[1] = P[1].lg
      BY <2>7, PartyIs DEF Lg
    <2> QED BY <2>8, <2>9
  <1> QED BY <1>1, <1>3, <1>4, PathLater

LEMMA LinkPools ==
    ASSUME DrawsInField, LinkInv, Honest
    PROVE  PoolsAuthentic
  <1> SUFFICES ASSUME InStep
               PROVE  PoolsFit(party[0].lg, party[1].lg)
    BY DEF PoolsAuthentic, PoolsFit
  <1>1. PICK P, W : P = party /\ W = wire
    OBVIOUS
  <1>2. Linked(P, W) /\ KeysInField
    BY <1>1, PartyIs DEF LinkInv, KeysInField
  <1>3. /\ \A p \in Party : P[p].prog = <<>> /\ P[p].status \in {"running", "done"}
        /\ P[0].calls = P[1].calls /\ P[0].prog = <<>>
    BY <1>1, PartyIs DEF InStep
  <1>4. ASSUME NEW B, NEW kind, NEW out, NEW in, Crossing(B), Exchanges(B, kind, out, in),
               P[0] = Past(B[0])
        PROVE  FALSE
    <2>1. Ready(Past(B[0]), "recv", kind, in)
      BY <1>4, CrossFacts
    <2> QED BY <1>3, <1>4, <2>1 DEF Ready
  <1>5. PICK q, A, B : Apart(P, W, q, A, B)
    BY <1>2, <1>4 DEF Linked, Sent, Taken, Replied
  <1>6. PoolsFit(P[0].lg, P[1].lg)
    BY <1>2, <1>3, <1>5, ApartPools
  <1> QED BY <1>1, <1>6

\* Whenever two honest parties are between calls and have made the same ones,
\* wherever their tasks were in between, index k of a pool at one party and index
\* k at the other are an authenticated sharing of a triple, an inverse pair or a
\* bit (the errors that PoolsAuthentic also admits escape a check by chance).
THEOREM HonestPoolsAuthentic ==
    ASSUME DrawsInField
    PROVE  Spec /\ SameCalls => [](Honest => PoolsAuthentic)
  <1>1. LinkInv => (Honest => PoolsAuthentic)
    BY LinkPools
  <1> QED BY <1>1, PartiesLinked, PTL
=============================================================================
