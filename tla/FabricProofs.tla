---------------------------- MODULE FabricProofs ----------------------------
(***************************************************************************)
(* What holds of the fabric's side of both executors, and facts about the   *)
(* operators they share: options, queues, argument counts, and the flow of  *)
(* ids and operations through the job queue.                                *)
(***************************************************************************)
EXTENDS Fabric, TLAPS, FiniteSetTheorems, SequenceTheorems

-----------------------------------------------------------------------------
(* Facts about Option and about the operators of Fabric. *)

\* Some(x) is an Option, it is not None, and None is an Option.
LEMMA OptionIntro ==
    \A S : <<>> \in Option(S) /\ \A x \in S : <<x>> \in Option(S) /\ <<x>> # <<>>
  BY DEF Option

\* Unwrapping an Option that is not None.
LEMMA OptionElim == \A S : \A x \in Option(S) : x # <<>> => x[1] \in S /\ x = <<x[1]>>
  BY DEF Option

\* The results that an allocation pushes are results, with ids in order.
LEMMA SourceResultsType ==
    ASSUME NEW first \in Nat, NEW n \in Nat, first + n <= MaxResults
    PROVE  SourceResults(first, n) \in Seq(Result)
  BY FabricAssumption DEF SourceResults, Result, ResultIds

\* Result ids and op ids are naturals.
LEMMA IdsAreNat == ResultIds \subseteq Nat /\ OpIds \subseteq Nat
  BY FabricAssumption DEF ResultIds, OpIds

\* A range of ids below MaxResults.
LEMMA RangeInIds ==
    ASSUME NEW first \in Nat, NEW n \in Nat, first + n <= MaxResults
    PROVE  first .. first + n - 1 \subseteq ResultIds
  BY FabricAssumption DEF ResultIds

\* An allocation in progress covers result ids.
LEMMA CallPushFacts ==
    ASSUME NEW c \in Call, c.step = "push"
    PROVE  /\ SourceResults(c.first, c.n) \in Seq(Result)
           /\ c.first .. c.first + c.n - 1 \subseteq ResultIds
  <1>1. c.first \in ResultIds /\ c.n \in 1 .. MaxArity /\ c.first + c.n <= MaxResults
    BY DEF Call
  <1>2. c.first \in Nat
    BY <1>1, IdsAreNat
  <1>3. c.n \in Nat
    BY <1>1, FabricAssumption
  <1>4. QED
    BY <1>1, <1>2, <1>3, SourceResultsType, RangeInIds

\* An operation's outputs are result ids, at least one.
LEMMA OperationFacts ==
    ASSUME NEW op \in Operation
    PROVE  /\ op.result_id \in ResultIds
           /\ op.result_id \in Nat /\ op.output_arity \in Nat \ {0}
           /\ op.result_id + op.output_arity <= MaxResults
           /\ op.args \in ArgLists(ResultIds)
           /\ ResultIdsOf(op) \subseteq ResultIds
  <1>1. /\ op.result_id \in ResultIds /\ op.output_arity \in 1 .. MaxArity
        /\ op.args \in ArgLists(ResultIds)
        /\ op.result_id + op.output_arity <= MaxResults
    BY DEF Operation
  <1>2. op.result_id \in Nat
    BY <1>1, IdsAreNat
  <1>3. op.output_arity \in Nat \ {0}
    BY <1>1, FabricAssumption
  <1>4. QED
    BY <1>1, <1>2, <1>3, RangeInIds DEF ResultIdsOf

\* What a job of each type carries.
LEMMA MessageFacts ==
    ASSUME NEW m \in ExecutorMessage
    PROVE  /\ m.type = "Results" => m.results \in Seq(Result)
           /\ m.type = "ResultsReady" => m.ids \in Seq(ResultIds)
           /\ m.type = "Op" => m.op \in OpIds
           /\ m.type = "NewWaiter" => m.handle \in Handles
  BY DEF ExecutorMessage

\* The number of argument positions with some property is at most MaxArgs.
LEMMA PositionsBound ==
    ASSUME NEW args \in ArgLists(ResultIds), NEW P \in SUBSET DOMAIN args
    PROVE  IsFiniteSet(P) /\ Cardinality(P) \in 0 .. MaxArgs
  <1>1. PICK n \in 0 .. MaxArgs : args \in [1 .. n -> ResultIds]
    BY DEF ArgLists
  <1>2. IsFiniteSet(1 .. n) /\ Cardinality(1 .. n) = n
    BY <1>1, FS_Interval, FabricAssumption
  <1>3. P \in SUBSET (1 .. n)
    BY <1>1
  <1>4. IsFiniteSet(P) /\ Cardinality(P) <= n
    BY <1>2, <1>3, FS_Subset
  <1>5. Cardinality(P) \in Nat
    BY <1>4, FS_CardinalityType
  <1>6. QED
    BY <1>1, <1>4, <1>5, FabricAssumption

-----------------------------------------------------------------------------
(* Queues. *)

\* What adding at the end does to any queue.
LEMMA AppendFacts ==
    ASSUME NEW S, NEW q \in Seq(S), NEW m \in S
    PROVE  /\ Append(q, m) \in Seq(S)
           /\ \A i \in DOMAIN Append(q, m) :
                Append(q, m)[i] = m \/ (i \in DOMAIN q /\ Append(q, m)[i] = q[i])
  <1>1. /\ Append(q, m) \in Seq(S)
        /\ Len(Append(q, m)) = Len(q) + 1
        /\ \A i \in 1 .. Len(q) : Append(q, m)[i] = q[i]
        /\ Append(q, m)[Len(q) + 1] = m
    OBVIOUS
  <1>2. /\ DOMAIN q = 1 .. Len(q) /\ Len(q) \in Nat
        /\ DOMAIN Append(q, m) = 1 .. Len(q) + 1
    BY <1>1
  <1>3. ASSUME NEW i \in DOMAIN Append(q, m)
        PROVE  Append(q, m)[i] = m \/ (i \in DOMAIN q /\ Append(q, m)[i] = q[i])
    <2>1. i = Len(q) + 1 \/ i \in 1 .. Len(q)
      BY <1>2, <1>3
    <2>2. QED
      BY <1>1, <1>2, <2>1
  <1>4. QED
    BY <1>1, <1>3

\* What taking the head does to any queue.
LEMMA TailFacts ==
    ASSUME NEW S, NEW q \in Seq(S), q # <<>>
    PROVE  /\ Head(q) = q[1] /\ 1 \in DOMAIN q /\ Head(q) \in S
           /\ Tail(q) \in Seq(S)
           /\ \A i \in DOMAIN Tail(q) : i + 1 \in DOMAIN q /\ Tail(q)[i] = q[i + 1]
  OBVIOUS

\* What popping the last element does to a Vec.
LEMMA PopLastFacts ==
    ASSUME NEW S, NEW q \in Seq(S), q # <<>>
    PROVE  /\ Len(q) \in DOMAIN q /\ q[Len(q)] \in S
           /\ SubSeq(q, 1, Len(q) - 1) \in Seq(S)
           /\ \A i \in DOMAIN SubSeq(q, 1, Len(q) - 1) :
                i \in DOMAIN q /\ SubSeq(q, 1, Len(q) - 1)[i] = q[i]
  <1>1. Len(q) \in Nat /\ Len(q) # 0 /\ DOMAIN q = 1 .. Len(q)
    OBVIOUS
  <1>2. Len(q) \in DOMAIN q /\ q[Len(q)] \in S
    BY <1>1
  <1>3. Len(q) - 1 \in Nat
    BY <1>1
  <1>4. /\ SubSeq(q, 1, Len(q) - 1) \in Seq(S)
        /\ DOMAIN SubSeq(q, 1, Len(q) - 1) = 1 .. Len(q) - 1
        /\ \A i \in 1 .. Len(q) - 1 : SubSeq(q, 1, Len(q) - 1)[i] = q[i]
    BY <1>1, <1>3
  <1>5. QED
    BY <1>1, <1>2, <1>4

\* A function on 1 .. n with values in S is a sequence over S.
LEMMA SeqIntro ==
    ASSUME NEW S, NEW n \in Nat, NEW f \in [1 .. n -> S]
    PROVE  f \in Seq(S)
  OBVIOUS

-----------------------------------------------------------------------------
(* Values and registrations. *)

\* The outputs of an operation, paired with values, are results.
LEMMA OutputsType ==
    ASSUME NEW first \in Nat, NEW n \in Nat \ {0}, first + n <= MaxResults,
           NEW v \in [ResultIds -> Val]
    PROVE  LET out == [j \in 1 .. n |-> [id |-> first + j - 1, val |-> v[first + j - 1]]]
           IN  out \in Seq(Result) /\ out[1] \in Result
  <1> DEFINE out == [j \in 1 .. n |-> [id |-> first + j - 1, val |-> v[first + j - 1]]]
  <1>1. \A j \in 1 .. n : first + j - 1 \in ResultIds
    BY FabricAssumption DEF ResultIds
  <1>2. \A j \in 1 .. n : [id |-> first + j - 1, val |-> v[first + j - 1]] \in Result
    BY <1>1 DEF Result
  <1>3. out \in [1 .. n -> Result]
    BY <1>2
  <1>4. 1 \in 1 .. n
    OBVIOUS
  <1>5. out[1] \in Result
    BY <1>3, <1>4
  <1>6. QED
    BY <1>3, <1>5, SeqIntro

\* A gate function applied to argument values yields a value.
LEMMA ApplyType ==
    ASSUME NEW args \in ArgLists(ResultIds), NEW res \in [ResultIds -> Option(Val)],
           \A k \in DOMAIN args : res[args[k]] # <<>>, NEW r \in ResultIds
    PROVE  Apply(r, [k \in DOMAIN args |-> res[args[k]][1]]) \in Val
  <1>1. PICK n \in 0 .. MaxArgs : args \in [1 .. n -> ResultIds]
    BY DEF ArgLists
  <1>2. \A k \in 1 .. n : res[args[k]][1] \in Val
    BY <1>1, OptionElim
  <1>3. [k \in DOMAIN args |-> res[args[k]][1]] \in [1 .. n -> Val]
    BY <1>1, <1>2
  <1>4. [k \in DOMAIN args |-> res[args[k]][1]] \in ArgLists(Val)
    BY <1>1, <1>3 DEF ArgLists
  <1>5. QED
    BY <1>4, ApplyAssumption

\* The registrations of a new operation are op ids.
LEMMA RegisterType ==
    ASSUME NEW deps \in [ResultIds -> Seq(OpIds)], NEW o \in OpIds,
           NEW n \in [ResultIds -> Nat]
    PROVE  [r \in ResultIds |-> deps[r] \o [i \in 1 .. n[r] |-> o]]
             \in [ResultIds -> Seq(OpIds)]
  <1>1. ASSUME NEW r \in ResultIds
        PROVE  deps[r] \o [i \in 1 .. n[r] |-> o] \in Seq(OpIds)
    <2>1. n[r] \in Nat /\ deps[r] \in Seq(OpIds)
      OBVIOUS
    <2>2. [i \in 1 .. n[r] |-> o] \in [1 .. n[r] -> OpIds]
      OBVIOUS
    <2>3. [i \in 1 .. n[r] |-> o] \in Seq(OpIds)
      BY <2>1, <2>2, SeqIntro
    <2>4. QED
      BY <2>1, <2>3
  <1>2. QED
    BY <1>1

-----------------------------------------------------------------------------
(* Counting. *)

\* How often an operation is in the dependency map's entry for a result, or in the
\* scan of such an entry.
Count(s, o) == Cardinality({i \in DOMAIN s : s[i] = o})
Has(s, o)   == \E i \in DOMAIN s : s[i] = o

\* A count is a natural number, zero exactly when there is no occurrence.
LEMMA CountFacts ==
    ASSUME NEW s \in Seq(OpIds), NEW o
    PROVE  /\ IsFiniteSet({i \in DOMAIN s : s[i] = o})
           /\ Count(s, o) \in Nat /\ (Count(s, o) = 0 <=> ~Has(s, o))
  <1>1. DOMAIN s = 1 .. Len(s) /\ Len(s) \in Nat
    BY LenProperties
  <1>2. IsFiniteSet(1 .. Len(s))
    BY <1>1, FS_Interval
  <1>3. {i \in DOMAIN s : s[i] = o} \in SUBSET (1 .. Len(s))
    BY <1>1
  <1>4. IsFiniteSet({i \in DOMAIN s : s[i] = o})
    BY <1>2, <1>3, FS_Subset
  <1>5. Count(s, o) \in Nat
    BY <1>4, FS_CardinalityType DEF Count
  <1>6. Count(s, o) = 0 <=> {i \in DOMAIN s : s[i] = o} = {}
    BY <1>4, FS_EmptySet DEF Count
  <1>7. QED
    BY <1>4, <1>5, <1>6 DEF Has

\* One iteration of a scan takes one occurrence of the operation it looks at.
LEMMA CountTail ==
    ASSUME NEW s \in Seq(OpIds), s # <<>>, NEW o
    PROVE  Count(Tail(s), o) = IF Head(s) = o THEN Count(s, o) - 1 ELSE Count(s, o)
  <1> DEFINE A == {i \in DOMAIN s : s[i] = o}
             B == {i \in DOMAIN Tail(s) : Tail(s)[i] = o}
             f == [i \in A \ {1} |-> i - 1]
  <1>1. /\ DOMAIN s = 1 .. Len(s) /\ Len(s) \in Nat \ {0} /\ Head(s) = s[1]
        /\ DOMAIN Tail(s) = 1 .. Len(s) - 1
        /\ \A i \in 1 .. Len(s) - 1 : Tail(s)[i] = s[i + 1]
    OBVIOUS
  <1>2. IsFiniteSet(A)
    BY CountFacts
  <1>3. f \in Bijection(A \ {1}, B)
    <2>1. \A i \in A \ {1} : i - 1 \in B
      BY <1>1
    <2>2. \A i, j \in A \ {1} : i - 1 = j - 1 => i = j
      BY <1>1
    <2>3. \A b \in B : b + 1 \in A \ {1} /\ (b + 1) - 1 = b
      BY <1>1
    <2>4. f \in [A \ {1} -> B]
      BY <2>1
    <2>5. f \in Injection(A \ {1}, B)
      BY <2>2, <2>4 DEF Injection, IsInjective
    <2>6. \A b \in B : \E a \in A \ {1} : f[a] = b
      BY <2>3
    <2>7. f \in Surjection(A \ {1}, B)
      BY <2>4, <2>6 DEF Surjection
    <2>8. QED
      BY <2>5, <2>7 DEF Bijection
  <1>4. IsFiniteSet(A \ {1}) /\ Cardinality(A \ {1}) =
            IF 1 \in A THEN Cardinality(A) - 1 ELSE Cardinality(A)
    BY <1>2, FS_RemoveElement
  <1>5. ExistsBijection(A \ {1}, B)
    BY <1>3 DEF ExistsBijection
  <1>6. Cardinality(B) = Cardinality(A \ {1})
    BY <1>4, <1>5, FS_Bijection
  <1>7. 1 \in A <=> Head(s) = o
    BY <1>1
  <1>8. QED
    BY <1>4, <1>6, <1>7 DEF Count

\* Registering an operation n more times adds n to its own count only.
LEMMA CountRegister ==
    ASSUME NEW s \in Seq(OpIds), NEW p \in OpIds, NEW n \in Nat, NEW o
    PROVE  /\ Count(s \o [i \in 1 .. n |-> p], o) = Count(s, o) + (IF o = p THEN n ELSE 0)
           /\ Has(s \o [i \in 1 .. n |-> p], o) <=> Has(s, o) \/ (o = p /\ n > 0)
  <1> DEFINE t == [i \in 1 .. n |-> p]
             u == s \o t
             L == Len(s)
             A == {i \in DOMAIN s : s[i] = o}
             B == IF o = p THEN L + 1 .. L + n ELSE {}
             C == {i \in DOMAIN u : u[i] = o}
  <1>1. /\ L \in Nat /\ DOMAIN s = 1 .. L
        /\ DOMAIN u = 1 .. L + n
        /\ \A i \in 1 .. L : u[i] = s[i]
        /\ \A i \in L + 1 .. L + n : u[i] = p
    OBVIOUS
  <1> HIDE DEF u
  <1>2. C = A \cup B /\ A \cap B = {}
    BY <1>1
  <1>3. IsFiniteSet(A) /\ Cardinality(A) \in Nat
    BY CountFacts DEF Count
  <1>4. IsFiniteSet(B) /\ Cardinality(B) = IF o = p THEN n ELSE 0
    <2>1. CASE o = p
      <3> DEFINE a == L + 1
                 b == L + n
      <3>1. a \in Int /\ b \in Int /\ B = a .. b /\ (a > b <=> n = 0) /\ b - a + 1 = n
        BY <1>1, <2>1
      <3> HIDE DEF a, b, B
      <3>2. IsFiniteSet(a .. b) /\ Cardinality(a .. b) = IF a > b THEN 0 ELSE b - a + 1
        BY <3>1, FS_Interval
      <3>3. QED
        BY <2>1, <3>1, <3>2
    <2>2. CASE o # p
      BY <2>2, FS_EmptySet
    <2>3. QED
      BY <2>1, <2>2
  <1>5. Cardinality(A \cup B) = Cardinality(A) + Cardinality(B)
    <2> HIDE DEF A, B
    <2>1. Cardinality(A \cup B) = Cardinality(A) + Cardinality(B) - Cardinality(A \cap B)
      BY <1>3, <1>4, FS_Union
    <2>2. Cardinality(A \cap B) = 0
      <3>1. A \cap B = {}
        BY <1>2
      <3>2. QED
        BY <3>1, FS_EmptySet
    <2>3. Cardinality(B) \in Nat
      BY <1>4
    <2>4. QED
      BY <2>1, <2>2, <2>3, <1>3
  <1>6. Count(u, o) = Count(s, o) + (IF o = p THEN n ELSE 0)
    BY <1>2, <1>4, <1>5 DEF Count
  <1>7. Has(u, o) <=> C # {}
    BY DEF Has
  <1>8. Has(s, o) <=> A # {}
    BY DEF Has
  <1>9. B # {} <=> o = p /\ n > 0
    BY <1>1
  <1>10. QED
    BY <1>2, <1>6, <1>7, <1>8, <1>9 DEF u

\* Announcing one more result leaves as many argument positions fewer as use it.
LEMMA PositionsSplit ==
    ASSUME NEW args \in ArgLists(ResultIds), NEW A, NEW r, r \notin A
    PROVE  /\ Cardinality({k \in DOMAIN args : args[k] \notin A}) =
                 Cardinality({k \in DOMAIN args : args[k] \notin A \cup {r}}) + Uses(args, r)
           /\ Uses(args, r) \in Nat
           /\ Cardinality({k \in DOMAIN args : args[k] \notin A \cup {r}}) \in Nat
           /\ Uses(args, r) = 0 <=> \A k \in DOMAIN args : args[k] # r
  <1> DEFINE P == {k \in DOMAIN args : args[k] \notin A}
             Q == {k \in DOMAIN args : args[k] \notin A \cup {r}}
             U == {k \in DOMAIN args : args[k] = r}
  <1>1. P = Q \cup U /\ Q \cap U = {}
    OBVIOUS
  <1>2. /\ IsFiniteSet(Q) /\ IsFiniteSet(U)
        /\ Cardinality(Q) \in 0 .. MaxArgs /\ Cardinality(U) \in 0 .. MaxArgs
    <2>1. Q \in SUBSET DOMAIN args /\ U \in SUBSET DOMAIN args
      OBVIOUS
    <2> HIDE DEF Q, U
    <2>2. QED
      BY <2>1, PositionsBound
  <1>3. U = {} <=> \A k \in DOMAIN args : args[k] # r
    OBVIOUS
  <1>4. Uses(args, r) = Cardinality(U)
    BY DEF Uses
  <1> HIDE DEF P, Q, U
  <1>5. Cardinality(Q \cup U) = Cardinality(Q) + Cardinality(U) - Cardinality(Q \cap U)
    BY <1>2, FS_Union
  <1>6. Cardinality(Q \cap U) = 0
    <2>1. Q \cap U = {}
      BY <1>1
    <2>2. QED
      BY <2>1, FS_EmptySet
  <1>7. Cardinality(Q) \in Nat /\ Cardinality(U) \in Nat
    BY <1>2, FabricAssumption
  <1>8. Cardinality(U) = 0 <=> U = {}
    BY <1>2, FS_EmptySet
  <1>9. Cardinality(P) = Cardinality(Q) + Cardinality(U)
    BY <1>1, <1>5, <1>6, <1>7
  <1>10. QED
    BY <1>3, <1>4, <1>7, <1>8, <1>9 DEF P, Q

\* A result that is used is one of the arguments.
LEMMA UsesPositive ==
    ASSUME NEW args \in ArgLists(ResultIds), NEW r
    PROVE  /\ Uses(args, r) \in Nat
           /\ Uses(args, r) = 0 <=> \A k \in DOMAIN args : args[k] # r
  <1>1. PICK A : A = {}
    OBVIOUS
  <1>2. r \notin A
    BY <1>1
  <1>3. Uses(args, r) \in Nat
    BY <1>2, PositionsSplit
  <1>4. Uses(args, r) = 0 <=> \A k \in DOMAIN args : args[k] # r
    BY <1>2, PositionsSplit
  <1>5. QED
    BY <1>3, <1>4

-----------------------------------------------------------------------------
(* The application's and the network's part of the invariants of both       *)
(* executors: besides its type, each reference that a call or a job holds   *)
(* points to something that exists.                                         *)

\* An op id that a call or a job holds names an operation that was built.
OpsIssued ==
    /\ \A t \in Threads : call[t] # <<>> /\ call[t][1].step = "push_op"
                            => issued[call[t][1].op] # <<>>
    /\ \A i \in DOMAIN job_queue : job_queue[i].type = "Op"
                            => issued[job_queue[i].op] # <<>>

\* A handle whose waiter is queued was polled and left its waker.
HandlesPolled ==
    /\ \A h \in Handles : (task[h] = "unpolled") = (awaits[h] = <<>>)
    /\ \A h \in Handles : awaits[h] # <<>> => registered[h] # <<>>
    /\ \A i \in DOMAIN job_queue : job_queue[i].type = "NewWaiter"
                            => awaits[job_queue[i].handle] # <<>>

FabricInv == FabricTypeOK /\ OpsIssued /\ HandlesPolled

\* Taking the ids of an allocation keeps FabricInv.
LEMMA AllocateIdsFabric ==
    ASSUME FabricInv, NEW t \in Threads, NEW n \in 1 .. MaxArity, AllocateIds(t, n)
    PROVE  FabricInv'
  <1> USE DEF AllocateIds
  <1> USE FabricAssumption
           DEF FabricInv, FabricTypeOK, netVars, callVars, pollVars
  <1>1. next_result_id' \in NConst .. MaxResults
    BY DEF TakeResultIds
  <1>2. call' \in [Threads -> Option(Call)]
    <2>1. [step |-> "push", first |-> next_result_id, n |-> n] \in Call
      BY DEF TakeResultIds, Call, ResultIds
    <2>2. QED
      BY <2>1, OptionIntro
  <1>3. FabricTypeOK'
    BY <1>1, <1>2
  <1>4. OpsIssued'
    BY DEF OpsIssued
  <1>5. HandlesPolled'
    BY DEF HandlesPolled
  <1>6. QED
    BY <1>3, <1>4, <1>5

\* Pushing the allocated values keeps FabricInv.
LEMMA AllocatePushFabric ==
    ASSUME FabricInv, NEW t \in Threads, AllocatePush(t)
    PROVE  FabricInv'
  <1> USE FabricAssumption
           DEF FabricInv, FabricTypeOK, netVars, callVars, pollVars
  <1> DEFINE c == call[t][1]
              m == ResultsMsg(SourceResults(c.first, c.n))
  <1>1. /\ SourceResults(c.first, c.n) \in Seq(Result)
        /\ c.first .. c.first + c.n - 1 \subseteq ResultIds
    BY OptionElim, CallPushFacts DEF AllocatePush
  <1>2. m \in ExecutorMessage /\ m.type = "Results"
    BY <1>1 DEF ResultsMsg, ExecutorMessage
  <1>3. /\ job_queue' \in Seq(ExecutorMessage)
        /\ \A i \in DOMAIN job_queue' :
             job_queue'[i] = m \/ (i \in DOMAIN job_queue /\ job_queue'[i] = job_queue[i])
    <2>1. job_queue' = Append(job_queue, m)
      BY DEF AllocatePush, Push
    <2>2. QED
      BY <1>2, <2>1, AppendFacts
  <1>4. returned' \in SUBSET ResultIds
    BY <1>1 DEF AllocatePush
  <1>5. call' \in [Threads -> Option(Call)]
    BY OptionIntro DEF AllocatePush
  <1>6. FabricTypeOK'
    BY <1>3, <1>4, <1>5 DEF AllocatePush
  <1>7. OpsIssued'
    BY <1>2, <1>3 DEF AllocatePush, OpsIssued
  <1>8. HandlesPolled'
    BY <1>2, <1>3 DEF AllocatePush, HandlesPolled
  <1>9. QED
    BY <1>6, <1>7, <1>8

\* Taking the id of a value that the peer sends keeps FabricInv.
LEMMA ReceiveValueFabric ==
    ASSUME FabricInv, NEW t \in Threads, ReceiveValue(t)
    PROVE  FabricInv'
  <1> USE FabricAssumption
           DEF FabricInv, FabricTypeOK, netVars, callVars, pollVars
  <1>1. next_result_id \in ResultIds
    BY DEF ReceiveValue
  <1>2. next_result_id' \in NConst .. MaxResults
    BY <1>1 DEF ReceiveValue, ResultIds
  <1>3. FabricTypeOK'
    BY <1>1, <1>2 DEF ReceiveValue
  <1>4. OpsIssued' /\ HandlesPolled'
    BY DEF ReceiveValue, OpsIssued, HandlesPolled
  <1>5. QED
    BY <1>3, <1>4

\* Taking the output ids of a new operation keeps FabricInv.
LEMMA NewOpResultIdsFabric ==
    ASSUME FabricInv, NEW t \in Threads,
           NEW args \in ArgLists(returned), NEW arity \in 1 .. MaxArity,
           NEW type \in OpTypes, NewOpResultIds(t, args, arity, type)
    PROVE  FabricInv'
  <1> USE FabricAssumption
           DEF FabricInv, FabricTypeOK, netVars, callVars, pollVars
  <1> DEFINE op == [result_id |-> next_result_id, output_arity |-> arity,
                    args |-> args, op_type |-> type]
              c == [step |-> "op_id", body |-> op]
  <1>1. args \in ArgLists(ResultIds)
    BY DEF ArgLists
  <1>2. op \in Operation
    BY <1>1 DEF NewOpResultIds, TakeResultIds, Operation, ResultIds
  <1>3. c \in Call
    BY <1>2 DEF Call
  <1>4. call' = [call EXCEPT ![t] = <<c>>]
    BY DEF NewOpResultIds
  <1>5. call' \in [Threads -> Option(Call)]
    BY <1>3, <1>4, OptionIntro
  <1>6. FabricTypeOK'
    BY <1>5 DEF NewOpResultIds, TakeResultIds
  <1>7. OpsIssued' /\ HandlesPolled'
    BY <1>4 DEF NewOpResultIds, OpsIssued, HandlesPolled
  <1>8. QED
    BY <1>6, <1>7

\* Taking the op id of a new operation and building it keeps FabricInv.
LEMMA NewOpIdFabric ==
    ASSUME FabricInv, NEW t \in Threads, NewOpId(t)
    PROVE  FabricInv'
  <1> USE FabricAssumption
           DEF FabricInv, FabricTypeOK, netVars, callVars, pollVars
  <1> DEFINE c == [step |-> "push_op", op |-> next_op_id]
  <1>1. call[t][1].body \in Operation
    BY OptionElim DEF NewOpId, Call
  <1>2. next_op_id \in OpIds /\ next_op_id' \in 0 .. MaxOps
    BY DEF NewOpId, OpIds
  <1>3. issued' \in [OpIds -> Option(Operation)]
    BY <1>1, <1>2, OptionIntro DEF NewOpId
  <1>4. c \in Call
    BY <1>2 DEF Call
  <1>5. call' = [call EXCEPT ![t] = <<c>>]
    BY DEF NewOpId
  <1>6. call' \in [Threads -> Option(Call)]
    BY <1>4, <1>5, OptionIntro
  <1>7. FabricTypeOK'
    BY <1>2, <1>3, <1>6 DEF NewOpId
  <1>8. \A o \in OpIds : issued[o] # <<>> => issued'[o] # <<>>
    BY <1>2, OptionIntro DEF NewOpId
  <1>9. issued'[next_op_id] # <<>>
    BY <1>2 DEF NewOpId
  <1>12. \A i \in DOMAIN job_queue' : job_queue'[i].type = "Op"
                            => issued'[job_queue'[i].op] # <<>>
    <2>1. \A i \in DOMAIN job_queue : job_queue[i].type = "Op" => job_queue[i].op \in OpIds
      BY MessageFacts
    <2>2. QED
      BY <1>8, <2>1 DEF OpsIssued, NewOpId
  <1>13. \A u \in Threads : call'[u] # <<>> /\ call'[u][1].step = "push_op"
                            => issued'[call'[u][1].op] # <<>>
    <2>1. \A u \in Threads : call[u] # <<>> /\ call[u][1].step = "push_op"
                            => call[u][1].op \in OpIds
      BY OptionElim DEF Call
    <2>2. QED
      BY <1>5, <1>8, <1>9, <2>1 DEF OpsIssued
  <1>14. OpsIssued'
    BY <1>12, <1>13 DEF OpsIssued
  <1>15. HandlesPolled'
    BY DEF NewOpId, HandlesPolled
  <1>16. QED
    BY <1>7, <1>14, <1>15

\* Pushing a new operation keeps FabricInv.
LEMMA NewOpPushFabric ==
    ASSUME FabricInv, NEW t \in Threads, NewOpPush(t)
    PROVE  FabricInv'
  <1> USE FabricAssumption
           DEF FabricInv, FabricTypeOK, netVars, callVars, pollVars
  <1> DEFINE o == call[t][1].op
  <1>1. o \in OpIds /\ issued[o] # <<>>
    BY OptionElim DEF NewOpPush, Call, OpsIssued
  <1>2. issued[o][1] \in Operation
    BY <1>1, OptionElim
  <1>3. ResultIdsOf(issued[o][1]) \subseteq ResultIds
    BY <1>2, OperationFacts
  <1>4. OpMsg(o) \in ExecutorMessage /\ OpMsg(o).type = "Op" /\ OpMsg(o).op = o
    BY <1>1 DEF OpMsg, ExecutorMessage
  <1>5. /\ job_queue' \in Seq(ExecutorMessage)
        /\ \A i \in DOMAIN job_queue' :
             job_queue'[i] = OpMsg(o)
             \/ (i \in DOMAIN job_queue /\ job_queue'[i] = job_queue[i])
    <2>1. job_queue' = Append(job_queue, OpMsg(o))
      BY DEF NewOpPush, Push
    <2>2. QED
      BY <1>4, <2>1, AppendFacts
  <1>6. call' \in [Threads -> Option(Call)]
    BY OptionIntro DEF NewOpPush
  <1>7. FabricTypeOK'
    BY <1>3, <1>5, <1>6 DEF NewOpPush
  <1>8. OpsIssued'
    BY <1>1, <1>4, <1>5 DEF NewOpPush, OpsIssued
  <1>9. HandlesPolled'
    BY <1>4, <1>5 DEF NewOpPush, HandlesPolled
  <1>10. QED
    BY <1>7, <1>8, <1>9

\* MpcFabric::shutdown keeps FabricInv.
LEMMA ShutdownFabric ==
    ASSUME FabricInv, Shutdown
    PROVE  FabricInv'
  <1> USE FabricAssumption
           DEF FabricInv, FabricTypeOK, netVars, callVars, pollVars
  <1>1. ShutdownMsg \in ExecutorMessage /\ ShutdownMsg.type = "Shutdown"
    BY DEF ShutdownMsg, ExecutorMessage
  <1>2. job_queue' = Append(job_queue, ShutdownMsg)
    BY DEF Shutdown, Push
  <1>3. /\ job_queue' \in Seq(ExecutorMessage)
        /\ \A i \in DOMAIN job_queue' :
             job_queue'[i] = ShutdownMsg
             \/ (i \in DOMAIN job_queue /\ job_queue'[i] = job_queue[i])
    BY <1>1, <1>2, AppendFacts
  <1>4. FabricTypeOK'
    BY <1>3 DEF Shutdown
  <1>5. OpsIssued'
    BY <1>1, <1>3 DEF Shutdown, OpsIssued
  <1>6. HandlesPolled'
    BY <1>1, <1>3 DEF Shutdown, HandlesPolled
  <1>7. QED
    BY <1>4, <1>5, <1>6

\* A message of the peer keeps FabricInv.
LEMMA ReadLoopFabric ==
    ASSUME FabricInv, NEW r \in ResultIds, ReadLoop(r)
    PROVE  FabricInv'
  <1> USE FabricAssumption
           DEF FabricInv, FabricTypeOK, netVars, callVars, pollVars
  <1> DEFINE m == ResultsMsg(SourceResults(r, 1))
  <1>1. m \in ExecutorMessage /\ m.type = "Results"
    <2>1. r \in Nat /\ r + 1 <= MaxResults
      BY FabricAssumption DEF ResultIds
    <2>2. SourceResults(r, 1) \in Seq(Result)
      BY <2>1, SourceResultsType
    <2>3. QED
      BY <2>2 DEF ResultsMsg, ExecutorMessage
  <1>2. job_queue' = Append(job_queue, m)
    BY DEF ReadLoop, Push
  <1>3. /\ job_queue' \in Seq(ExecutorMessage)
        /\ \A i \in DOMAIN job_queue' :
             job_queue'[i] = m \/ (i \in DOMAIN job_queue /\ job_queue'[i] = job_queue[i])
    BY <1>1, <1>2, AppendFacts
  <1>4. FabricTypeOK'
    BY <1>3 DEF ReadLoop
  <1>5. OpsIssued'
    BY <1>1, <1>3 DEF ReadLoop, OpsIssued
  <1>6. HandlesPolled'
    BY <1>1, <1>3 DEF ReadLoop, HandlesPolled
  <1>7. QED
    BY <1>4, <1>5, <1>6

\* The first poll of a handle keeps FabricInv.
LEMMA PollRegisterFabric ==
    ASSUME FabricInv, NEW h \in Handles, NEW r \in ResultIds,
           NEW w \in Wakers, PollRegister(h, r, w)
    PROVE  FabricInv'
  <1> USE FabricAssumption
           DEF FabricInv, FabricTypeOK, netVars, callVars, pollVars
  <1> DEFINE m == WaiterMsg(h)
  <1>1. m \in ExecutorMessage /\ m.type = "NewWaiter" /\ m.handle = h
    BY DEF WaiterMsg, ExecutorMessage
  <1>2. job_queue' = Append(job_queue, m)
    BY DEF PollRegister, Push
  <1>3. /\ job_queue' \in Seq(ExecutorMessage)
        /\ \A i \in DOMAIN job_queue' :
             job_queue'[i] = m \/ (i \in DOMAIN job_queue /\ job_queue'[i] = job_queue[i])
    BY <1>1, <1>2, AppendFacts
  <1>4. /\ awaits' \in [Handles -> Option(ResultIds)]
        /\ registered' \in [Handles -> Option(Wakers)]
        /\ current' \in [Handles -> Option(Wakers)]
    BY OptionIntro DEF PollRegister
  <1>5. FabricTypeOK'
    BY <1>3, <1>4 DEF PollRegister
  <1>6. OpsIssued'
    BY <1>1, <1>3 DEF PollRegister, OpsIssued
  <1>7. awaits[h] = <<>>
    BY DEF PollRegister, HandlesPolled
  <1>8. /\ \A g \in Handles : g # h => awaits'[g] = awaits[g]
        /\ awaits'[h] = <<r>> /\ awaits'[h] # <<>>
        /\ \A g \in Handles : g # h => registered'[g] = registered[g]
        /\ registered'[h] # <<>>
        /\ \A g \in Handles : g # h => task'[g] = task[g]
        /\ task'[h] = "polling"
    BY DEF PollRegister
  <1>9. \A i \in DOMAIN job_queue' : job_queue'[i].type = "NewWaiter"
                            => awaits'[job_queue'[i].handle] # <<>>
    <2> SUFFICES ASSUME NEW i \in DOMAIN job_queue', job_queue'[i].type = "NewWaiter"
                 PROVE  awaits'[job_queue'[i].handle] # <<>>
      OBVIOUS
    <2>1. CASE job_queue'[i] = m
      BY <1>1, <1>8, <2>1
    <2>2. CASE i \in DOMAIN job_queue /\ job_queue'[i] = job_queue[i]
      <3>1. job_queue[i] \in ExecutorMessage
        BY <2>2
      <3>2. job_queue[i].handle \in Handles
        BY <2>2, <3>1, MessageFacts
      <3>3. awaits[job_queue[i].handle] # <<>>
        BY <2>2 DEF HandlesPolled
      <3>4. QED
        BY <1>8, <2>2, <3>2, <3>3
    <2>3. QED
      BY <1>3, <2>1, <2>2
  <1>11. HandlesPolled'
    BY <1>8, <1>9 DEF HandlesPolled
  <1>12. QED
    BY <1>5, <1>6, <1>11

\* The end of a poll keeps FabricInv.
LEMMA PollReadFabric ==
    ASSUME FabricInv, NEW h \in Handles, PollRead(h)
    PROVE  FabricInv'
  <1> USE FabricAssumption
           DEF FabricInv, FabricTypeOK, netVars, callVars, pollVars
  <1>1. FabricTypeOK'
    BY DEF PollRead
  <1>2. OpsIssued'
    BY DEF PollRead, OpsIssued
  <1>3. HandlesPolled'
    BY DEF PollRead, HandlesPolled
  <1>4. QED
    BY <1>1, <1>2, <1>3

\* A later poll keeps FabricInv.
LEMMA PollAgainFabric ==
    ASSUME FabricInv, NEW h \in Handles, NEW w \in Wakers,
           PollAgain(h, w)
    PROVE  FabricInv'
  <1> USE FabricAssumption
           DEF FabricInv, FabricTypeOK, netVars, callVars, pollVars
  <1>1. current' \in [Handles -> Option(Wakers)]
    BY OptionIntro DEF PollAgain
  <1>2. FabricTypeOK'
    BY <1>1 DEF PollAgain
  <1>3. OpsIssued'
    BY DEF PollAgain, OpsIssued
  <1>4. HandlesPolled'
    BY DEF PollAgain, HandlesPolled
  <1>5. QED
    BY <1>2, <1>3, <1>4

\* Filling buffers and waking keeps their types, for waiters that left a waker.
LEMMA WakeType ==
    ASSUME FabricInv, NEW hs \in SUBSET Handles, NEW v \in Val,
           \A h \in hs : registered[h] # <<>>, WakeWaiters(hs, v)
    PROVE  /\ buffer' \in [Handles -> Option(Val)]
           /\ woken' \in [Handles -> SUBSET Wakers]
  <1> USE FabricAssumption
           DEF FabricInv, FabricTypeOK, netVars, callVars, pollVars
  <1>1. buffer' \in [Handles -> Option(Val)]
    BY OptionIntro DEF WakeWaiters
  <1>2. \A h \in hs : registered[h][1] \in Wakers
    BY OptionElim
  <1>3. woken' \in [Handles -> SUBSET Wakers]
    BY <1>2 DEF WakeWaiters
  <1>4. QED
    BY <1>1, <1>3

-----------------------------------------------------------------------------
\* A new fabric, with its constant results queued, satisfies FabricInv.
LEMMA InitFabricInv == FabricInit => FabricInv
  <1> SUFFICES ASSUME FabricInit PROVE FabricInv
    OBVIOUS
  <1> USE FabricAssumption DEF FabricInit
  <1>1. job_queue \in Seq(ExecutorMessage)
    <2>1. \A i \in 1 .. NConst : i - 1 \in Nat /\ i - 1 + 1 <= MaxResults
      OBVIOUS
    <2>2. \A i \in 1 .. NConst : SourceResults(i - 1, 1) \in Seq(Result)
      BY <2>1, SourceResultsType
    <2>3. \A i \in 1 .. NConst : ResultsMsg(SourceResults(i - 1, 1)) \in ExecutorMessage
      BY <2>2 DEF ResultsMsg, ExecutorMessage
    <2>4. QED
      BY <2>3
  <1>2. FabricTypeOK
    <2>1. /\ next_result_id \in NConst .. MaxResults
          /\ next_op_id \in 0 .. MaxOps
          /\ returned \in SUBSET ResultIds
          /\ remote \in SUBSET ResultIds
          /\ arrived \in SUBSET remote
      BY DEF ResultIds
    <2>2. /\ call \in [Threads -> Option(Call)]
          /\ issued \in [OpIds -> Option(Operation)]
          /\ buffer \in [Handles -> Option(Val)]
          /\ awaits \in [Handles -> Option(ResultIds)]
          /\ registered \in [Handles -> Option(Wakers)]
          /\ current \in [Handles -> Option(Wakers)]
      BY OptionIntro
    <2>3. outbound \in Seq(Result)
      OBVIOUS
    <2>4. shutdown_sent \in BOOLEAN
      OBVIOUS
    <2>5. task \in [Handles -> {"unpolled", "polling", "pending", "ready"}]
      OBVIOUS
    <2>6. woken \in [Handles -> SUBSET Wakers]
      OBVIOUS
    <2>7. QED
      BY <1>1, <2>1, <2>2, <2>3, <2>4, <2>5, <2>6 DEF FabricTypeOK
  <1>3. OpsIssued
    BY DEF OpsIssued, ResultsMsg
  <1>4. HandlesPolled
    BY DEF HandlesPolled, ResultsMsg
  <1>5. QED
    BY <1>2, <1>3, <1>4 DEF FabricInv

\* Every step of the application and of the network keeps FabricInv; operations stay
\* built, a handle keeps the result it awaits, and neither buffers nor payloads change.
LEMMA FabricInvStep ==
    ASSUME FabricInv, FabricNext
    PROVE  /\ FabricInv'
           /\ \A o \in OpIds : issued[o] # <<>> => issued'[o] # <<>>
           /\ \A h \in Handles : awaits[h] # <<>> => awaits'[h] = awaits[h]
           /\ UNCHANGED <<buffer, outbound>>
  <1>1. FabricInv'
    BY AllocateIdsFabric, AllocatePushFabric, ReceiveValueFabric, NewOpResultIdsFabric,
       NewOpIdFabric, NewOpPushFabric, ShutdownFabric, ReadLoopFabric, PollRegisterFabric,
       PollReadFabric, PollAgainFabric
    DEF FabricNext, CallStep
  <1>2. ASSUME NEW t \in Threads, NewOpId(t)
        PROVE  \A o \in OpIds : issued[o] # <<>> => issued'[o] # <<>>
    <2>1. issued \in [OpIds -> Option(Operation)]
      BY DEF FabricInv, FabricTypeOK
    <2>2. QED
      BY <1>2, <2>1 DEF NewOpId
  <1>3. (\A t \in Threads : ~NewOpId(t)) => issued' = issued
    BY DEF FabricNext, CallStep, AllocatePush, NewOpPush, ReceiveValue, AllocateIds,
       NewOpResultIds, Shutdown, ReadLoop, PollRead, PollRegister, PollAgain, callVars
  <1>4. ASSUME NEW g \in Handles, NEW r \in ResultIds, NEW w \in Wakers, PollRegister(g, r, w)
        PROVE  \A h \in Handles : awaits[h] # <<>> => awaits'[h] = awaits[h]
    <2>1. awaits \in [Handles -> Option(ResultIds)]
      BY DEF FabricInv, FabricTypeOK
    <2>2. awaits[g] = <<>>
      BY <1>4 DEF PollRegister, FabricInv, HandlesPolled
    <2>3. QED
      BY <1>4, <2>1, <2>2 DEF PollRegister
  <1>5. (\A g \in Handles, r \in ResultIds, w \in Wakers : ~PollRegister(g, r, w))
            => awaits' = awaits
    BY DEF FabricNext, CallStep, AllocatePush, NewOpId, NewOpPush, ReceiveValue, AllocateIds,
       NewOpResultIds, Shutdown, ReadLoop, PollRead, PollAgain, pollVars
  <1>6. UNCHANGED <<buffer, outbound>>
    BY DEF FabricNext, CallStep, AllocatePush, NewOpId, NewOpPush, ReceiveValue, AllocateIds,
       NewOpResultIds, Shutdown, ReadLoop, PollRead, PollRegister, PollAgain
  <1>7. QED
    BY <1>1, <1>2, <1>3, <1>4, <1>5, <1>6

-----------------------------------------------------------------------------
(* Where ids and operations are on the application's side. *)

\* The ids that the call of a thread has taken and not yet handed on.
CallIds(t) ==
    IF call[t] = <<>> THEN {}
    ELSE CASE call[t][1].step = "push"  -> call[t][1].first .. call[t][1].first + call[t][1].n - 1
           [] call[t][1].step = "op_id" -> ResultIdsOf(call[t][1].body)
           [] OTHER -> {}

\* The ids of the outputs of an operation that was built.
Out(o) == IF issued[o] = <<>> THEN {} ELSE ResultIdsOf(issued[o][1])

\* The ids that this party's program took for itself, and those that the peer sent.
Own   == (0 .. next_result_id - 1) \ remote
Known == Own \cup arrived

\* An operation that a thread is about to push.
InCall(t, o) == call[t] # <<>> /\ call[t][1].step = "push_op" /\ call[t][1].op = o

-----------------------------------------------------------------------------
(* What flows through the job queue: the results, the ids of results that   *)
(* are ready and the operations, in the order in which the executor will    *)
(* handle them.  Place 0 is the job in progress, place i the i-th in the    *)
(* queue.                                                                   *)

Elems(s)    == {s[k] : k \in DOMAIN s}
OnlyOnce(s) == \A k, l \in DOMAIN s : s[k] = s[l] => k = l
IdSeq(rs)   == [k \in DOMAIN rs |-> rs[k].id]

\* What a job carries of each.
SourceIn == [m \in ExecutorMessage |-> IF m.type = "Results" THEN IdSeq(m.results) ELSE <<>>]
ReadyIn  == [m \in ExecutorMessage |-> IF m.type = "ResultsReady" THEN m.ids ELSE <<>>]
OpIn     == [m \in ExecutorMessage |-> IF m.type = "Op" THEN <<m.op>> ELSE <<>>]

Flow(F, cur, q) == [i \in 0 .. Len(q) |-> IF i = 0 THEN cur ELSE F[q[i]]]
Carried(f)  == UNION {Elems(f[i]) : i \in DOMAIN f}
Distinct(f) == \A i, j \in DOMAIN f : \A k \in DOMAIN f[i], l \in DOMAIN f[j] :
                  f[i][k] = f[j][l] => i = j /\ k = l

\* What is carried is carried somewhere.
LEMMA CarriedAt == \A f, x : x \in Carried(f) <=> \E i \in DOMAIN f : \E k \in DOMAIN f[i] : x = f[i][k]
  BY DEF Carried, Elems

\* A job at the end of the queue adds what it carries behind all the rest.
LEMMA FlowPush ==
    ASSUME NEW q \in Seq(ExecutorMessage), NEW m \in ExecutorMessage, NEW F, NEW cur
    PROVE  /\ Carried(Flow(F, cur, Append(q, m))) = Carried(Flow(F, cur, q)) \cup Elems(F[m])
           /\ /\ Distinct(Flow(F, cur, q)) /\ OnlyOnce(F[m])
              /\ Elems(F[m]) \cap Carried(Flow(F, cur, q)) = {}
              => Distinct(Flow(F, cur, Append(q, m)))
  <1> DEFINE f == Flow(F, cur, q)
             g == Flow(F, cur, Append(q, m))
             n == Len(q)
  <1>1. /\ n \in Nat /\ n + 1 # 0 /\ Len(Append(q, m)) = n + 1
        /\ \A i \in 1 .. n : Append(q, m)[i] = q[i]
        /\ Append(q, m)[n + 1] = m
    OBVIOUS
  <1>2. /\ DOMAIN f = 0 .. n /\ DOMAIN g = 0 .. n + 1
        /\ \A i \in 0 .. n : g[i] = f[i]
        /\ g[n + 1] = F[m]
    BY <1>1 DEF Flow
  <1>3. /\ \A i \in DOMAIN g : i \in DOMAIN f \/ i = n + 1
        /\ \A i \in DOMAIN f : i \in DOMAIN g /\ g[i] = f[i]
        /\ n + 1 \in DOMAIN g
    BY <1>1, <1>2
  <1> HIDE DEF f, g
  <1>4. ASSUME NEW x
        PROVE  x \in Carried(g) <=> x \in Carried(f) \cup Elems(F[m])
    <2>1. x \in Elems(F[m]) <=> \E k \in DOMAIN g[n + 1] : x = g[n + 1][k]
      BY <1>2 DEF Elems
    <2>2. QED
      BY <1>3, <2>1, CarriedAt
  <1>5. Carried(g) = Carried(f) \cup Elems(F[m])
    BY <1>4
  <1>6. ASSUME Distinct(f), OnlyOnce(F[m]), Elems(F[m]) \cap Carried(f) = {}
        PROVE  Distinct(g)
    <2>1. \A i \in DOMAIN f : \A k \in DOMAIN f[i], l \in DOMAIN F[m] : f[i][k] # F[m][l]
      BY <1>6, CarriedAt DEF Elems
    <2>2. ASSUME NEW i \in DOMAIN g, NEW j \in DOMAIN g,
                 NEW k \in DOMAIN g[i], NEW l \in DOMAIN g[j], g[i][k] = g[j][l]
          PROVE  i = j /\ k = l
      <3>1. CASE i \in DOMAIN f /\ j \in DOMAIN f
        BY <1>3, <1>6, <2>2, <3>1 DEF Distinct
      <3>2. CASE i = n + 1 /\ j = n + 1
        BY <1>2, <1>6, <2>2, <3>2 DEF OnlyOnce
      <3>3. CASE i \in DOMAIN f /\ j = n + 1
        BY <1>2, <1>3, <2>1, <2>2, <3>3
      <3>4. CASE i = n + 1 /\ j \in DOMAIN f
        BY <1>2, <1>3, <2>1, <2>2, <3>4
      <3>5. QED
        BY <1>3, <3>1, <3>2, <3>3, <3>4
    <2>3. QED
      BY <2>2 DEF Distinct
  <1>7. QED
    BY <1>5, <1>6 DEF f, g

\* A job that carries nothing of a kind changes nothing.
LEMMA FlowSame ==
    ASSUME NEW q \in Seq(ExecutorMessage), NEW m \in ExecutorMessage, NEW F, NEW cur, F[m] = <<>>
    PROVE  /\ Carried(Flow(F, cur, Append(q, m))) = Carried(Flow(F, cur, q))
           /\ Distinct(Flow(F, cur, q)) => Distinct(Flow(F, cur, Append(q, m)))
  <1>1. Elems(F[m]) = {} /\ OnlyOnce(F[m])
    BY DEF Elems, OnlyOnce
  <1>2. PICK A : A = Carried(Flow(F, cur, q))
    OBVIOUS
  <1>3. Carried(Flow(F, cur, Append(q, m))) = A \cup Elems(F[m])
    BY <1>2, FlowPush
  <1>4. Elems(F[m]) \cap A = {} /\ A \cup Elems(F[m]) = A
    BY <1>1
  <1>5. Distinct(Flow(F, cur, q)) => Distinct(Flow(F, cur, Append(q, m)))
    BY <1>1, <1>2, <1>4, FlowPush
  <1>6. QED
    BY <1>2, <1>3, <1>4, <1>5

\* The first job becomes the one in progress.
LEMMA FlowPop ==
    ASSUME NEW q \in Seq(ExecutorMessage), q # <<>>, NEW F
    PROVE  /\ Carried(Flow(F, F[Head(q)], Tail(q))) = Carried(Flow(F, <<>>, q))
           /\ Distinct(Flow(F, <<>>, q)) => Distinct(Flow(F, F[Head(q)], Tail(q)))
  <1> DEFINE f == Flow(F, <<>>, q)
             g == Flow(F, F[Head(q)], Tail(q))
             n == Len(q)
  <1>1. /\ n \in Nat \ {0} /\ Len(Tail(q)) = n - 1 /\ Head(q) = q[1]
        /\ \A i \in 1 .. n - 1 : Tail(q)[i] = q[i + 1]
    OBVIOUS
  <1>2. /\ DOMAIN f = 0 .. n /\ DOMAIN g = 0 .. n - 1
        /\ f[0] = <<>> /\ g[0] = F[q[1]]
        /\ \A i \in 1 .. n : f[i] = F[q[i]]
        /\ \A i \in 1 .. n - 1 : g[i] = F[Tail(q)[i]]
    BY <1>1 DEF Flow
  <1>3. \A i \in 0 .. n - 1 : i + 1 \in 1 .. n /\ g[i] = f[i + 1]
    <2>1. g[0] = f[0 + 1]
      BY <1>1, <1>2
    <2>2. \A i \in 1 .. n - 1 : i + 1 \in 1 .. n /\ g[i] = f[i + 1]
      BY <1>1, <1>2
    <2> HIDE DEF f, g
    <2>3. QED
      BY <1>1, <2>1, <2>2
  <1> HIDE DEF f, g
  <1>4. ASSUME NEW x PROVE x \in Carried(g) <=> x \in Carried(f)
    <2>1. ASSUME NEW i \in DOMAIN g, NEW k \in DOMAIN g[i], x = g[i][k]
          PROVE  x \in Carried(f)
      <3>1. i + 1 \in DOMAIN f /\ g[i] = f[i + 1]
        BY <1>1, <1>2, <1>3
      <3>2. QED
        BY <2>1, <3>1, CarriedAt
    <2>2. ASSUME NEW i \in DOMAIN f, NEW k \in DOMAIN f[i], x = f[i][k]
          PROVE  x \in Carried(g)
      <3>1. i # 0
        BY <1>2, <2>2
      <3>2. i - 1 \in 0 .. n - 1 /\ (i - 1) + 1 = i
        BY <1>1, <1>2, <3>1
      <3>3. i - 1 \in DOMAIN g /\ g[i - 1] = f[i]
        BY <1>2, <1>3, <3>2
      <3>4. QED
        BY <2>2, <3>3, CarriedAt
    <2>3. QED
      BY <2>1, <2>2, CarriedAt
  <1>5. ASSUME Distinct(f) PROVE Distinct(g)
    <2>1. ASSUME NEW i \in DOMAIN g, NEW j \in DOMAIN g,
                 NEW k \in DOMAIN g[i], NEW l \in DOMAIN g[j], g[i][k] = g[j][l]
          PROVE  i = j /\ k = l
      <3>1. /\ i + 1 \in DOMAIN f /\ g[i] = f[i + 1] /\ j + 1 \in DOMAIN f /\ g[j] = f[j + 1]
            /\ i \in Nat /\ j \in Nat
        BY <1>1, <1>2, <1>3
      <3>2. i + 1 = j + 1 /\ k = l
        BY <1>5, <2>1, <3>1 DEF Distinct
      <3>3. QED
        BY <3>1, <3>2
    <2>2. QED
      BY <2>1 DEF Distinct
  <1>6. QED
    BY <1>4, <1>5 DEF f, g

\* The first element of the job in progress is handled.
LEMMA FlowTail ==
    ASSUME NEW q \in Seq(ExecutorMessage), NEW F, NEW S, NEW cur \in Seq(S), cur # <<>>,
           Distinct(Flow(F, cur, q))
    PROVE  /\ Distinct(Flow(F, Tail(cur), q))
           /\ Head(cur) \in Carried(Flow(F, cur, q))
           /\ Carried(Flow(F, Tail(cur), q)) = Carried(Flow(F, cur, q)) \ {Head(cur)}
  <1> DEFINE f == Flow(F, cur, q)
             g == Flow(F, Tail(cur), q)
  <1>1. /\ DOMAIN f = DOMAIN g /\ 0 \in DOMAIN f /\ f[0] = cur /\ g[0] = Tail(cur)
        /\ \A i \in DOMAIN f : i # 0 => g[i] = f[i]
    BY DEF Flow
  <1>2. /\ Head(cur) = cur[1] /\ 1 \in DOMAIN cur
        /\ \A k \in DOMAIN Tail(cur) : k + 1 \in DOMAIN cur /\ Tail(cur)[k] = cur[k + 1] /\ k \in Nat \ {0}
        /\ \A k \in DOMAIN cur : k # 1 => k - 1 \in DOMAIN Tail(cur) /\ Tail(cur)[k - 1] = cur[k]
    OBVIOUS
  <1>3. Distinct(f)
    OBVIOUS
  <1> HIDE DEF f, g
  <1>4. ASSUME NEW i \in DOMAIN g, NEW j \in DOMAIN g,
               NEW k \in DOMAIN g[i], NEW l \in DOMAIN g[j], g[i][k] = g[j][l]
        PROVE  i = j /\ k = l
    <2>1. CASE i = 0 /\ j = 0
      <3>1. /\ k + 1 \in DOMAIN f[0] /\ l + 1 \in DOMAIN f[0]
            /\ g[i][k] = f[0][k + 1] /\ g[j][l] = f[0][l + 1]
            /\ k \in Nat /\ l \in Nat
        BY <1>1, <1>2, <2>1
      <3>2. f[0][k + 1] = f[0][l + 1]
        BY <3>1, <1>4
      <3>3. k + 1 = l + 1
        BY <1>1, <1>3, <3>1, <3>2 DEF Distinct
      <3>4. QED
        BY <2>1, <3>1, <3>3
    <2>2. CASE i = 0 /\ j # 0
      BY <1>1, <1>2, <1>3, <1>4, <2>2 DEF Distinct
    <2>3. CASE i # 0 /\ j = 0
      BY <1>1, <1>2, <1>3, <1>4, <2>3 DEF Distinct
    <2>4. CASE i # 0 /\ j # 0
      BY <1>1, <1>3, <1>4, <2>4 DEF Distinct
    <2>5. QED
      BY <2>1, <2>2, <2>3, <2>4
  <1>5. Distinct(g)
    BY <1>4 DEF Distinct
  <1>6. Head(cur) \in Carried(f)
    BY <1>1, <1>2, CarriedAt
  <1>7. ASSUME NEW x PROVE x \in Carried(g) <=> x \in Carried(f) /\ x # Head(cur)
    <2>1. ASSUME NEW i \in DOMAIN g, NEW k \in DOMAIN g[i], x = g[i][k]
          PROVE  x \in Carried(f) /\ x # Head(cur)
      <3>1. CASE i = 0
        <4>1. k + 1 \in DOMAIN f[0] /\ x = f[0][k + 1] /\ k + 1 # 1
          BY <1>1, <1>2, <2>1, <3>1
        <4>2. QED
          BY <1>1, <1>2, <1>3, <4>1, CarriedAt DEF Distinct
      <3>2. CASE i # 0
        BY <1>1, <1>2, <1>3, <2>1, <3>2, CarriedAt DEF Distinct
      <3>3. QED
        BY <3>1, <3>2
    <2>2. ASSUME NEW i \in DOMAIN f, NEW k \in DOMAIN f[i], x = f[i][k], x # Head(cur)
          PROVE  x \in Carried(g)
      <3>1. CASE i = 0
        <4>1. k - 1 \in DOMAIN g[0] /\ x = g[0][k - 1]
          BY <1>1, <1>2, <2>2, <3>1
        <4>2. QED
          BY <1>1, <4>1, CarriedAt
      <3>2. CASE i # 0
        BY <1>1, <2>2, <3>2, CarriedAt
      <3>3. QED
        BY <3>1, <3>2
    <2>3. QED
      BY <2>1, <2>2, CarriedAt
  <1>8. Carried(g) = Carried(f) \ {Head(cur)}
    BY <1>7
  <1>9. QED
    BY <1>5, <1>6, <1>8 DEF f, g

-----------------------------------------------------------------------------
(* Every result id has one origin.  The ids that a thread has taken (ids),  *)
(* the outputs of each operation (out) and the results on their way (src)   *)
(* have no id in common; what was made is known and comes from none of the  *)
(* first, nor from an operation that waits.                                 *)

IdOK(own, known, ids, out, src, made, waits) ==
    /\ own \subseteq known
    /\ \A t \in Threads : ids[t] \subseteq own
    /\ \A t, u \in Threads : t # u => ids[t] \cap ids[u] = {}
    /\ \A o \in OpIds : out[o] \subseteq own
    /\ \A o, p \in OpIds : o # p => out[o] \cap out[p] = {}
    /\ \A t \in Threads, o \in OpIds : ids[t] \cap out[o] = {}
    /\ src \subseteq known
    /\ \A t \in Threads : ids[t] \cap src = {}
    /\ \A o \in OpIds : out[o] \cap src = {}
    /\ made \subseteq known
    /\ made \cap src = {}
    /\ \A t \in Threads : ids[t] \cap made = {}
    /\ \A o \in OpIds : o \in waits => out[o] \cap made = {}

\* Ids may leave every place, and more ids may become known.
LEMMA IdShrink ==
    ASSUME NEW own, NEW known, NEW ids, NEW out, NEW src, NEW made, NEW waits,
           IdOK(own, known, ids, out, src, made, waits),
           NEW own2, NEW known2, NEW ids2, NEW src2, NEW made2, NEW waits2,
           own \subseteq own2, known \subseteq known2, own2 \subseteq known2,
           \A t \in Threads : ids2[t] \subseteq ids[t],
           src2 \subseteq src, made2 \subseteq made, waits2 \subseteq waits
    PROVE  IdOK(own2, known2, ids2, out, src2, made2, waits2)
  <1> USE DEF IdOK
  <1>1. \A t \in Threads : ids2[t] \subseteq own2
    OBVIOUS
  <1>2. \A t, u \in Threads : t # u => ids2[t] \cap ids2[u] = {}
    OBVIOUS
  <1>3. \A o \in OpIds : out[o] \subseteq own2
    OBVIOUS
  <1>4. \A o, p \in OpIds : o # p => out[o] \cap out[p] = {}
    OBVIOUS
  <1>5. \A t \in Threads, o \in OpIds : ids2[t] \cap out[o] = {}
    OBVIOUS
  <1>6. src2 \subseteq known2 /\ made2 \subseteq known2 /\ made2 \cap src2 = {}
    OBVIOUS
  <1>7. \A t \in Threads : ids2[t] \cap src2 = {} /\ ids2[t] \cap made2 = {}
    OBVIOUS
  <1>8. \A o \in OpIds : out[o] \cap src2 = {}
    OBVIOUS
  <1>9. \A o \in OpIds : o \in waits2 => out[o] \cap made2 = {}
    OBVIOUS
  <1>10. QED
    BY <1>1, <1>2, <1>3, <1>4, <1>5, <1>6, <1>7, <1>8, <1>9

\* A thread without ids takes some that nobody knows.
LEMMA IdTake ==
    ASSUME NEW own, NEW known, NEW ids, NEW out, NEW src, NEW made, NEW waits,
           IdOK(own, known, ids, out, src, made, waits),
           NEW n, n \cap known = {}, NEW t \in Threads, NEW ids2,
           ids2[t] = n, \A u \in Threads : u # t => ids2[u] = ids[u],
           NEW own2, own2 = own \cup n, NEW known2, known2 = known \cup n
    PROVE  IdOK(own2, known2, ids2, out, src, made, waits)
  <1> USE DEF IdOK
  <1>1. own2 \subseteq known2 /\ \A u \in Threads : ids2[u] \subseteq own2
    OBVIOUS
  <1>2. ASSUME NEW u \in Threads, NEW v \in Threads, u # v PROVE ids2[u] \cap ids2[v] = {}
    <2>1. CASE u = t
      BY <1>2, <2>1
    <2>2. CASE v = t
      BY <1>2, <2>2
    <2>3. CASE u # t /\ v # t
      BY <1>2, <2>3
    <2>4. QED
      BY <2>1, <2>2, <2>3
  <1>3. \A o \in OpIds : out[o] \subseteq own2
    OBVIOUS
  <1>4. \A o, p \in OpIds : o # p => out[o] \cap out[p] = {}
    OBVIOUS
  <1>5. ASSUME NEW u \in Threads, NEW o \in OpIds PROVE ids2[u] \cap out[o] = {}
    BY <1>5
  <1>6. src \subseteq known2 /\ made \subseteq known2 /\ made \cap src = {}
    OBVIOUS
  <1>7. ASSUME NEW u \in Threads PROVE ids2[u] \cap src = {} /\ ids2[u] \cap made = {}
    BY <1>7
  <1>8. /\ \A o \in OpIds : out[o] \cap src = {}
        /\ \A o \in OpIds : o \in waits => out[o] \cap made = {}
    OBVIOUS
  <1>9. QED
    BY <1>1, <1>2, <1>3, <1>4, <1>5, <1>6, <1>7, <1>8

\* A thread hands the ids it took to the queue.
LEMMA IdHand ==
    ASSUME NEW own, NEW known, NEW ids, NEW out, NEW src, NEW made, NEW waits,
           IdOK(own, known, ids, out, src, made, waits),
           NEW t \in Threads, NEW ids2,
           ids2[t] = {}, \A u \in Threads : u # t => ids2[u] = ids[u],
           NEW src2, src2 = src \cup ids[t]
    PROVE  IdOK(own, known, ids2, out, src2, made, waits)
  <1> USE DEF IdOK
  <1>1. own \subseteq known /\ \A u \in Threads : ids2[u] \subseteq own
    OBVIOUS
  <1>2. ASSUME NEW u \in Threads, NEW v \in Threads, u # v PROVE ids2[u] \cap ids2[v] = {}
    BY <1>2
  <1>3. \A o \in OpIds : out[o] \subseteq own
    OBVIOUS
  <1>4. \A o, p \in OpIds : o # p => out[o] \cap out[p] = {}
    OBVIOUS
  <1>5. ASSUME NEW u \in Threads, NEW o \in OpIds PROVE ids2[u] \cap out[o] = {}
    BY <1>5
  <1>6. src2 \subseteq known /\ made \subseteq known /\ made \cap src2 = {}
    OBVIOUS
  <1>7. ASSUME NEW u \in Threads PROVE ids2[u] \cap src2 = {} /\ ids2[u] \cap made = {}
    <2>1. CASE u = t
      BY <2>1
    <2>2. CASE u # t
      BY <2>2
    <2>3. QED
      BY <2>1, <2>2
  <1>8. /\ \A o \in OpIds : out[o] \cap src2 = {}
        /\ \A o \in OpIds : o \in waits => out[o] \cap made = {}
    OBVIOUS
  <1>9. QED
    BY <1>1, <1>2, <1>3, <1>4, <1>5, <1>6, <1>7, <1>8

\* A result of the peer's becomes known and is queued.
LEMMA IdArrive ==
    ASSUME NEW own, NEW known, NEW ids, NEW out, NEW src, NEW made, NEW waits,
           IdOK(own, known, ids, out, src, made, waits),
           NEW r, r \notin known, NEW known2, known2 = known \cup {r},
           NEW src2, src2 = src \cup {r}
    PROVE  IdOK(own, known2, ids, out, src2, made, waits)
  <1> USE DEF IdOK
  <1>1. /\ own \subseteq known2 /\ src2 \subseteq known2 /\ made \subseteq known2
        /\ made \cap src2 = {}
    OBVIOUS
  <1>2. \A t \in Threads : ids[t] \cap src2 = {}
    OBVIOUS
  <1>3. \A o \in OpIds : out[o] \cap src2 = {}
    OBVIOUS
  <1>4. QED
    BY <1>1, <1>2, <1>3

\* The ids that a thread took become the outputs of the operation it builds, which
\* waits from then on.
LEMMA IdBuild ==
    ASSUME NEW own, NEW known, NEW ids, NEW out, NEW src, NEW made, NEW waits,
           IdOK(own, known, ids, out, src, made, waits),
           NEW t \in Threads, NEW ids2,
           ids2[t] = {}, \A u \in Threads : u # t => ids2[u] = ids[u],
           NEW o \in OpIds, NEW out2,
           out2[o] = ids[t], \A p \in OpIds : p # o => out2[p] = out[p],
           NEW waits2, waits2 \subseteq waits \cup {o}
    PROVE  IdOK(own, known, ids2, out2, src, made, waits2)
  <1> USE DEF IdOK
  <1>1. own \subseteq known /\ \A u \in Threads : ids2[u] \subseteq own
    OBVIOUS
  <1>2. ASSUME NEW u \in Threads, NEW v \in Threads, u # v PROVE ids2[u] \cap ids2[v] = {}
    BY <1>2
  <1>3. \A p \in OpIds : out2[p] \subseteq own
    OBVIOUS
  <1>4. ASSUME NEW p \in OpIds, NEW q \in OpIds, p # q PROVE out2[p] \cap out2[q] = {}
    <2>1. CASE p = o
      BY <1>4, <2>1
    <2>2. CASE q = o
      BY <1>4, <2>2
    <2>3. CASE p # o /\ q # o
      BY <1>4, <2>3
    <2>4. QED
      BY <2>1, <2>2, <2>3
  <1>5. ASSUME NEW u \in Threads, NEW p \in OpIds PROVE ids2[u] \cap out2[p] = {}
    <2>1. CASE u = t
      BY <2>1
    <2>2. CASE u # t /\ p = o
      BY <2>2
    <2>3. CASE u # t /\ p # o
      BY <2>3
    <2>4. QED
      BY <2>1, <2>2, <2>3
  <1>6. src \subseteq known /\ made \subseteq known /\ made \cap src = {}
    OBVIOUS
  <1>7. ASSUME NEW u \in Threads PROVE ids2[u] \cap src = {} /\ ids2[u] \cap made = {}
    BY <1>7
  <1>8. ASSUME NEW p \in OpIds
        PROVE  out2[p] \cap src = {} /\ (p \in waits2 => out2[p] \cap made = {})
    BY <1>8
  <1>9. QED
    BY <1>1, <1>2, <1>3, <1>4, <1>5, <1>6, <1>7, <1>8

\* A result on its way is made.
LEMMA IdInsert ==
    ASSUME NEW own, NEW known, NEW ids, NEW out, NEW src, NEW made, NEW waits,
           IdOK(own, known, ids, out, src, made, waits),
           NEW r, r \in src, NEW src2, src2 \subseteq src, r \notin src2,
           NEW made2, made2 \subseteq made \cup {r}
    PROVE  /\ IdOK(own, known, ids, out, src2, made2, waits)
           /\ r \notin made /\ \A o \in OpIds : r \notin out[o]
  <1> USE DEF IdOK
  <1>1. r \notin made /\ \A o \in OpIds : r \notin out[o]
    OBVIOUS
  <1>2. src2 \subseteq known /\ made2 \subseteq known /\ made2 \cap src2 = {}
    OBVIOUS
  <1>3. \A t \in Threads : ids[t] \cap src2 = {} /\ ids[t] \cap made2 = {}
    OBVIOUS
  <1>4. \A o \in OpIds : out[o] \cap src2 = {} /\ (o \in waits => out[o] \cap made2 = {})
    OBVIOUS
  <1>5. QED
    BY <1>1, <1>2, <1>3, <1>4

\* The outputs of an operation are made; it no longer waits.
LEMMA IdCompute ==
    ASSUME NEW own, NEW known, NEW ids, NEW out, NEW src, NEW made, NEW waits,
           IdOK(own, known, ids, out, src, made, waits),
           NEW o \in OpIds, NEW made2, made2 = made \cup out[o],
           NEW waits2, waits2 \subseteq waits \ {o}
    PROVE  IdOK(own, known, ids, out, src, made2, waits2)
  <1> USE DEF IdOK
  <1>1. made2 \subseteq known /\ made2 \cap src = {}
    OBVIOUS
  <1>2. \A t \in Threads : ids[t] \cap made2 = {}
    OBVIOUS
  <1>3. \A p \in OpIds : p \in waits2 => out[p] \cap made2 = {}
    OBVIOUS
  <1>4. QED
    BY <1>1, <1>2, <1>3

-----------------------------------------------------------------------------
(* The invariant of what flows from the application to an executor.  The    *)
(* executor supplies its part: the ids of the job in progress (cur, of      *)
(* results; ready, of results announced by id), the ids it has made, the    *)
(* operations it holds and has not computed (busy) and all those it has     *)
(* anything about (touched).                                                *)

Ids            == [t \in Threads |-> CallIds(t)]
Outs           == [o \in OpIds |-> Out(o)]
Sources(cur)   == Carried(Flow(SourceIn, cur, job_queue))
Readies(ready) == Carried(Flow(ReadyIn, ready, job_queue))
Queued         == Carried(Flow(OpIn, <<>>, job_queue))
Calling        == {o \in OpIds : \E t \in Threads : InCall(t, o)}

\* A result id has one origin.
OneOrigin(cur, made, busy) ==
    IdOK(Own, Known, Ids, Outs, Sources(cur), made, Calling \cup Queued \cup busy)

\* A result and its announcement come to the executor once.
OneArrival(cur, ready) ==
    Distinct(Flow(SourceIn, cur, job_queue)) /\ Distinct(Flow(ReadyIn, ready, job_queue))

\* An operation is in one place until the executor pops it.
OnePlace(touched) ==
    /\ Distinct(Flow(OpIn, <<>>, job_queue))
    /\ \A o \in OpIds : o >= next_op_id => issued[o] = <<>>
    /\ \A o \in OpIds : o \in touched => issued[o] # <<>>
    /\ \A t, u \in Threads, o \in OpIds : InCall(t, o) /\ InCall(u, o) => t = u
    /\ \A o \in OpIds : o \in Calling => o \notin Queued /\ o \notin touched
    /\ \A o \in OpIds : o \in Queued => o \notin touched

FlowInv(cur, ready, made, busy, touched) ==
    OneOrigin(cur, made, busy) /\ OneArrival(cur, ready) /\ OnePlace(touched)

\* What a job at the end of the queue adds.
LEMMA QueuePush ==
    ASSUME FabricInv, NEW cur, NEW ready, NEW m \in ExecutorMessage,
           job_queue' = Append(job_queue, m)
    PROVE  /\ Sources(cur)' = Sources(cur) \cup Elems(SourceIn[m])
           /\ Readies(ready)' = Readies(ready) \cup Elems(ReadyIn[m])
           /\ Queued' = Queued \cup Elems(OpIn[m])
  <1>1. job_queue \in Seq(ExecutorMessage)
    BY DEF FabricInv, FabricTypeOK
  <1>2. QED
    BY <1>1, FlowPush DEF Sources, Readies, Queued

\* The kinds that a job does not carry.
LEMMA MessageKinds ==
    ASSUME NEW m \in ExecutorMessage
    PROVE  /\ SourceIn[m] = IF m.type = "Results" THEN IdSeq(m.results) ELSE <<>>
           /\ ReadyIn[m] = IF m.type = "ResultsReady" THEN m.ids ELSE <<>>
           /\ OpIn[m] = IF m.type = "Op" THEN <<m.op>> ELSE <<>>
           /\ m.type # "Results" => Elems(SourceIn[m]) = {}
           /\ m.type # "ResultsReady" => Elems(ReadyIn[m]) = {}
           /\ m.type # "Op" => Elems(OpIn[m]) = {}
  <1>1. /\ SourceIn[m] = IF m.type = "Results" THEN IdSeq(m.results) ELSE <<>>
        /\ ReadyIn[m] = IF m.type = "ResultsReady" THEN m.ids ELSE <<>>
        /\ OpIn[m] = IF m.type = "Op" THEN <<m.op>> ELSE <<>>
    BY DEF SourceIn, ReadyIn, OpIn
  <1>2. Elems(<<>>) = {}
    BY DEF Elems
  <1>3. QED
    BY <1>1, <1>2

\* A step that neither takes an id for this party nor brings a result or an operation.
LEMMA QuietFlow ==
    ASSUME FabricInv, NEW cur, NEW ready, NEW made, NEW busy, NEW touched,
           FlowInv(cur, ready, made, busy, touched),
           UNCHANGED <<next_op_id, call, issued, remote, arrived>>,
           next_result_id' \in Nat, next_result_id <= next_result_id',
           \/ \E m \in ExecutorMessage : /\ m.type \notin {"Results", "ResultsReady", "Op"}
                                         /\ job_queue' = Append(job_queue, m)
           \/ UNCHANGED job_queue
    PROVE  FlowInv(cur, ready, made, busy, touched)' /\ Readies(ready)' = Readies(ready)
  <1>1. /\ Sources(cur)' = Sources(cur) /\ Readies(ready)' = Readies(ready) /\ Queued' = Queued
        /\ OneArrival(cur, ready)' /\ Distinct(Flow(OpIn, <<>>, job_queue'))
    <2>1. OneArrival(cur, ready) /\ Distinct(Flow(OpIn, <<>>, job_queue))
      BY DEF FlowInv, OnePlace
    <2>2. CASE UNCHANGED job_queue
      BY <2>1, <2>2 DEF Sources, Readies, Queued, OneArrival
    <2>3. CASE \E m \in ExecutorMessage : /\ m.type \notin {"Results", "ResultsReady", "Op"}
                                          /\ job_queue' = Append(job_queue, m)
      <3>1. PICK m \in ExecutorMessage : /\ m.type \notin {"Results", "ResultsReady", "Op"}
                                         /\ job_queue' = Append(job_queue, m)
        BY <2>3
      <3>2. SourceIn[m] = <<>> /\ ReadyIn[m] = <<>> /\ OpIn[m] = <<>>
        BY <3>1, MessageKinds
      <3>3. job_queue \in Seq(ExecutorMessage)
        BY DEF FabricInv, FabricTypeOK
      <3>4. /\ Sources(cur)' = Sources(cur)
            /\ Distinct(Flow(SourceIn, cur, job_queue))
                 => Distinct(Flow(SourceIn, cur, job_queue'))
        BY <3>1, <3>2, <3>3, FlowSame DEF Sources
      <3>5. /\ Readies(ready)' = Readies(ready)
            /\ Distinct(Flow(ReadyIn, ready, job_queue))
                 => Distinct(Flow(ReadyIn, ready, job_queue'))
        BY <3>1, <3>2, <3>3, FlowSame DEF Readies
      <3>6. /\ Queued' = Queued
            /\ Distinct(Flow(OpIn, <<>>, job_queue)) => Distinct(Flow(OpIn, <<>>, job_queue'))
        BY <3>1, <3>2, <3>3, FlowSame DEF Queued
      <3>7. QED
        BY <2>1, <3>4, <3>5, <3>6 DEF OneArrival
    <2>4. QED
      BY <2>2, <2>3
  <1>2. Ids' = Ids /\ Outs' = Outs /\ Calling' = Calling
    BY DEF Ids, Outs, Calling, CallIds, Out, InCall
  <1>3. Own \subseteq Own' /\ Known \subseteq Known' /\ Own' \subseteq Known'
    BY FabricAssumption DEF FabricInv, FabricTypeOK, Own, Known
  <1>4. OneOrigin(cur, made, busy)'
    <2>1. IdOK(Own, Known, Ids, Outs, Sources(cur), made, Calling \cup Queued \cup busy)
      BY DEF FlowInv, OneOrigin
    <2>2. IdOK(Own', Known', Ids, Outs, Sources(cur), made, Calling \cup Queued \cup busy)
      BY <1>3, <2>1, IdShrink
    <2>3. QED
      BY <1>1, <1>2, <2>2 DEF OneOrigin
  <1>5. OnePlace(touched)'
    BY <1>1, <1>2 DEF FlowInv, OnePlace, InCall
  <1>6. QED
    BY <1>1, <1>4, <1>5 DEF FlowInv

\* A thread takes ids that nobody knows; the queue and the operations stay.
LEMMA TakeFlow ==
    ASSUME FabricInv, NEW cur, NEW ready, NEW made, NEW busy, NEW touched,
           FlowInv(cur, ready, made, busy, touched),
           NEW t \in Threads, NEW n \in 1 .. MaxArity, TakeResultIds(n),
           CallIds(t)' = next_result_id .. next_result_id + n - 1,
           \A u \in Threads \ {t} : CallIds(u)' = CallIds(u),
           \A u \in Threads, o \in OpIds : InCall(u, o)' => InCall(u, o),
           UNCHANGED <<next_op_id, issued, remote, arrived, job_queue>>
    PROVE  FlowInv(cur, ready, made, busy, touched)' /\ Readies(ready)' = Readies(ready)
  <1> DEFINE new == next_result_id .. next_result_id + n - 1
  <1>1. /\ Sources(cur)' = Sources(cur) /\ Readies(ready)' = Readies(ready)
        /\ Queued' = Queued /\ Outs' = Outs /\ Calling' \subseteq Calling
        /\ OneArrival(cur, ready)'
    BY DEF Sources, Readies, Queued, Outs, Out, Calling, FlowInv, OneArrival
  <1>2. Own' = Own \cup new /\ Known' = Known \cup new /\ new \cap Known = {}
    <2>1. /\ next_result_id \in Nat /\ n \in Nat /\ next_result_id' = next_result_id + n
          /\ new \cap remote = {} /\ remote' = remote /\ arrived' = arrived /\ arrived \subseteq remote
      BY FabricAssumption DEF FabricInv, FabricTypeOK, TakeResultIds
    <2>2. 0 .. next_result_id' - 1 = (0 .. next_result_id - 1) \cup new
      BY <2>1
    <2>3. (0 .. next_result_id - 1) \cap new = {}
      BY <2>1
    <2> HIDE DEF new
    <2>4. QED
      BY <2>1, <2>2, <2>3 DEF Own, Known
  <1>3. Ids'[t] = new /\ \A u \in Threads : u # t => Ids'[u] = Ids[u]
    BY DEF Ids
  <1> HIDE DEF new
  <1>4. OneOrigin(cur, made, busy)'
    <2>1. IdOK(Own, Known, Ids, Outs, Sources(cur), made, Calling \cup Queued \cup busy)
      BY DEF FlowInv, OneOrigin
    <2>2. IdOK(Own', Known', Ids', Outs, Sources(cur), made, Calling \cup Queued \cup busy)
      BY <1>2, <1>3, <2>1, IdTake
    <2>3. Own' \subseteq Known'
      BY DEF Known
    <2>4. IdOK(Own', Known', Ids', Outs, Sources(cur), made, Calling' \cup Queued \cup busy)
      BY <1>1, <2>2, <2>3, IdShrink
    <2>5. QED
      BY <1>1, <2>4 DEF OneOrigin
  <1>5. OnePlace(touched)'
    BY <1>1 DEF FlowInv, OnePlace
  <1>6. QED
    BY <1>1, <1>4, <1>5 DEF FlowInv

\* allocate_value(s) takes its ids.
LEMMA AllocateIdsFlow ==
    ASSUME FabricInv, NEW cur, NEW ready, NEW made, NEW busy, NEW touched,
           FlowInv(cur, ready, made, busy, touched),
           NEW t \in Threads, NEW n \in 1 .. MaxArity, AllocateIds(t, n)
    PROVE  FlowInv(cur, ready, made, busy, touched)' /\ Readies(ready)' = Readies(ready)
  <1> DEFINE c == [step |-> "push", first |-> next_result_id, n |-> n]
  <1>1. /\ call' = [call EXCEPT ![t] = <<c>>] /\ TakeResultIds(n)
        /\ UNCHANGED <<next_op_id, issued, remote, arrived, job_queue>>
    BY DEF AllocateIds, netVars
  <1>2. call'[t] = <<c>> /\ \A u \in Threads \ {t} : call'[u] = call[u]
    BY <1>1 DEF FabricInv, FabricTypeOK
  <1>3. CallIds(t)' = next_result_id .. next_result_id + n - 1
    BY <1>2 DEF CallIds
  <1>4. \A u \in Threads \ {t} : CallIds(u)' = CallIds(u)
    BY <1>2 DEF CallIds
  <1>5. \A u \in Threads, o \in OpIds : InCall(u, o)' => InCall(u, o)
    BY <1>2 DEF InCall
  <1>6. QED
    BY <1>1, <1>3, <1>4, <1>5, TakeFlow

\* new_op takes the ids of its outputs.
LEMMA NewOpResultIdsFlow ==
    ASSUME FabricInv, NEW cur, NEW ready, NEW made, NEW busy, NEW touched,
           FlowInv(cur, ready, made, busy, touched),
           NEW t \in Threads, NEW args, NEW arity \in 1 .. MaxArity, NEW type,
           NewOpResultIds(t, args, arity, type)
    PROVE  FlowInv(cur, ready, made, busy, touched)' /\ Readies(ready)' = Readies(ready)
  <1> DEFINE b == [result_id |-> next_result_id, output_arity |-> arity,
                   args |-> args, op_type |-> type]
             c == [step |-> "op_id", body |-> b]
  <1>1. /\ call' = [call EXCEPT ![t] = <<c>>] /\ TakeResultIds(arity)
        /\ UNCHANGED <<next_op_id, issued, remote, arrived, job_queue>>
    BY DEF NewOpResultIds, netVars
  <1>2. call'[t] = <<c>> /\ \A u \in Threads \ {t} : call'[u] = call[u]
    BY <1>1 DEF FabricInv, FabricTypeOK
  <1>3. CallIds(t)' = next_result_id .. next_result_id + arity - 1
    BY <1>2 DEF CallIds, ResultIdsOf
  <1>4. \A u \in Threads \ {t} : CallIds(u)' = CallIds(u)
    BY <1>2 DEF CallIds
  <1>5. \A u \in Threads, o \in OpIds : InCall(u, o)' => InCall(u, o)
    BY <1>2 DEF InCall
  <1>6. QED
    BY <1>1, <1>3, <1>4, <1>5, TakeFlow

\* The ids of the results that the code allocates, in order and without repetition.
LEMMA SourceIds ==
    ASSUME NEW first \in Nat, NEW n \in Nat, SourceResults(first, n) \in Seq(Result),
           NEW m, m = ResultsMsg(SourceResults(first, n))
    PROVE  /\ m \in ExecutorMessage /\ m.type = "Results"
           /\ Elems(SourceIn[m]) = first .. first + n - 1
           /\ OnlyOnce(SourceIn[m])
  <1> DEFINE s == SourceIn[m]
  <1>1. m \in ExecutorMessage /\ m.type = "Results" /\ m.results = SourceResults(first, n)
    BY DEF ResultsMsg, ExecutorMessage
  <1>2. s = IdSeq(SourceResults(first, n))
    BY <1>1, MessageKinds
  <1>3. DOMAIN s = 1 .. n /\ \A k \in 1 .. n : s[k] = first + k - 1
    BY <1>2 DEF IdSeq, SourceResults
  <1> HIDE DEF s
  <1>4. ASSUME NEW x \in first .. first + n - 1 PROVE x \in Elems(s)
    <2>1. x - first + 1 \in 1 .. n /\ first + (x - first + 1) - 1 = x
      OBVIOUS
    <2>2. QED
      BY <1>3, <2>1 DEF Elems
  <1>5. ASSUME NEW x \in Elems(s) PROVE x \in first .. first + n - 1
    <2>1. PICK k \in 1 .. n : x = first + k - 1
      BY <1>3 DEF Elems
    <2>2. QED
      BY <2>1
  <1>6. Elems(s) = first .. first + n - 1
    BY <1>4, <1>5
  <1>7. OnlyOnce(s)
    BY <1>3 DEF OnlyOnce
  <1>8. QED
    BY <1>1, <1>6, <1>7 DEF s

\* Results that are nowhere else join the queue.
LEMMA SourceFlow ==
    ASSUME FabricInv, NEW cur, NEW ready, NEW made, NEW busy, NEW touched,
           FlowInv(cur, ready, made, busy, touched),
           NEW m \in ExecutorMessage, m.type = "Results", OnlyOnce(SourceIn[m]),
           job_queue' = Append(job_queue, m),
           Elems(SourceIn[m]) \cap Sources(cur) = {},
           IdOK(Own', Known', Ids', Outs, Sources(cur) \cup Elems(SourceIn[m]), made,
                Calling \cup Queued \cup busy),
           Calling' = Calling,
           \A u \in Threads, o \in OpIds : InCall(u, o)' => InCall(u, o),
           UNCHANGED <<next_op_id, issued>>
    PROVE  FlowInv(cur, ready, made, busy, touched)' /\ Readies(ready)' = Readies(ready)
  <1>1. job_queue \in Seq(ExecutorMessage)
    BY DEF FabricInv, FabricTypeOK
  <1>2. ReadyIn[m] = <<>> /\ OpIn[m] = <<>>
    BY MessageKinds
  <1>3. OneArrival(cur, ready) /\ OnePlace(touched) /\ Outs' = Outs
    BY DEF FlowInv, Outs, Out
  <1>4. /\ Sources(cur)' = Sources(cur) \cup Elems(SourceIn[m])
        /\ Distinct(Flow(SourceIn, cur, job_queue'))
    BY <1>1, <1>3, FlowPush DEF Sources, OneArrival
  <1>5. Readies(ready)' = Readies(ready) /\ Distinct(Flow(ReadyIn, ready, job_queue'))
    BY <1>1, <1>2, <1>3, FlowSame DEF Readies, OneArrival
  <1>6. Queued' = Queued /\ Distinct(Flow(OpIn, <<>>, job_queue'))
    BY <1>1, <1>2, <1>3, FlowSame DEF Queued, OnePlace
  <1>7. OneOrigin(cur, made, busy)'
    BY <1>3, <1>4, <1>6 DEF OneOrigin
  <1>8. OnePlace(touched)'
    BY <1>3, <1>6 DEF OnePlace
  <1>9. QED
    BY <1>4, <1>5, <1>7, <1>8 DEF FlowInv, OneArrival

\* allocate_value(s) hands its ids on to the queue.
LEMMA AllocatePushFlow ==
    ASSUME FabricInv, NEW cur, NEW ready, NEW made, NEW busy, NEW touched,
           FlowInv(cur, ready, made, busy, touched), NEW t \in Threads, AllocatePush(t)
    PROVE  FlowInv(cur, ready, made, busy, touched)' /\ Readies(ready)' = Readies(ready)
  <1> DEFINE c == call[t][1]
  <1>1. call[t] # <<>> /\ c \in Call /\ c.step = "push"
    BY OptionElim DEF AllocatePush, FabricInv, FabricTypeOK
  <1>2. c.first \in Nat /\ c.n \in Nat /\ SourceResults(c.first, c.n) \in Seq(Result)
    <2>1. c.first \in ResultIds /\ c.n \in 1 .. MaxArity
      BY <1>1 DEF Call
    <2>2. SourceResults(c.first, c.n) \in Seq(Result)
      BY <1>1, CallPushFacts
    <2>3. c.first \in Nat
      BY <2>1, IdsAreNat
    <2>4. c.n \in Nat
      BY <2>1, FabricAssumption
    <2>5. QED
      BY <2>2, <2>3, <2>4
  <1>3. PICK m : m = ResultsMsg(SourceResults(c.first, c.n))
    OBVIOUS
  <1>4. /\ m \in ExecutorMessage /\ m.type = "Results" /\ OnlyOnce(SourceIn[m])
        /\ Elems(SourceIn[m]) = c.first .. c.first + c.n - 1
    BY <1>2, <1>3, SourceIds
  <1>5. /\ job_queue' = Append(job_queue, m) /\ call' = [call EXCEPT ![t] = <<>>]
        /\ UNCHANGED <<next_result_id, next_op_id, issued, remote, arrived>>
    BY <1>3 DEF AllocatePush, Push, netVars
  <1>6. call'[t] = <<>> /\ \A u \in Threads \ {t} : call'[u] = call[u]
    BY <1>5 DEF FabricInv, FabricTypeOK
  <1>7. /\ CallIds(t) = Elems(SourceIn[m]) /\ CallIds(t)' = {}
        /\ \A u \in Threads \ {t} : CallIds(u)' = CallIds(u)
    BY <1>1, <1>4, <1>6 DEF CallIds
  <1>8. /\ Ids[t] = Elems(SourceIn[m]) /\ Ids'[t] = {}
        /\ \A u \in Threads : u # t => Ids'[u] = Ids[u]
    BY <1>7 DEF Ids
  <1>9. \A u \in Threads, o \in OpIds : InCall(u, o)' <=> InCall(u, o)
    BY <1>1, <1>6 DEF InCall
  <1>10. Calling' = Calling
    BY <1>9 DEF Calling
  <1>11. Own' = Own /\ Known' = Known
    BY <1>5 DEF Own, Known
  <1>12. IdOK(Own, Known, Ids, Outs, Sources(cur), made, Calling \cup Queued \cup busy)
    BY DEF FlowInv, OneOrigin
  <1>13. IdOK(Own, Known, Ids', Outs, Sources(cur) \cup Elems(SourceIn[m]), made,
              Calling \cup Queued \cup busy)
    BY <1>8, <1>12, IdHand
  <1>14. Elems(SourceIn[m]) \cap Sources(cur) = {}
    BY <1>8, <1>12 DEF IdOK
  <1>15. QED
    BY <1>4, <1>5, <1>9, <1>10, <1>11, <1>13, <1>14, SourceFlow

\* A message of the peer joins the queue, once.
LEMMA ReadLoopFlow ==
    ASSUME FabricInv, NEW cur, NEW ready, NEW made, NEW busy, NEW touched,
           FlowInv(cur, ready, made, busy, touched), NEW r \in ResultIds, ReadLoop(r)
    PROVE  FlowInv(cur, ready, made, busy, touched)' /\ Readies(ready)' = Readies(ready)
  <1>1. r \in Nat /\ 1 \in Nat /\ r + 1 <= MaxResults
    BY FabricAssumption DEF ResultIds
  <1>2. SourceResults(r, 1) \in Seq(Result)
    BY <1>1, SourceResultsType
  <1>3. PICK m : m = ResultsMsg(SourceResults(r, 1))
    OBVIOUS
  <1>4. /\ m \in ExecutorMessage /\ m.type = "Results" /\ OnlyOnce(SourceIn[m])
        /\ Elems(SourceIn[m]) = r .. r + 1 - 1
    BY <1>1, <1>2, <1>3, SourceIds
  <1>5. Elems(SourceIn[m]) = {r}
    BY <1>1, <1>4
  <1>6. /\ r \in remote /\ r \notin arrived /\ arrived' = arrived \cup {r}
        /\ job_queue' = Append(job_queue, m)
        /\ UNCHANGED <<next_result_id, next_op_id, call, issued, remote>>
    BY <1>3 DEF ReadLoop, Push, callVars
  <1>7. Own' = Own /\ Known' = Known \cup {r} /\ r \notin Known
    BY <1>6 DEF Own, Known
  <1>8. Ids' = Ids /\ \A u \in Threads, o \in OpIds : InCall(u, o)' <=> InCall(u, o)
    BY <1>6 DEF Ids, CallIds, InCall
  <1>9. Calling' = Calling
    BY <1>8 DEF Calling
  <1>10. IdOK(Own, Known, Ids, Outs, Sources(cur), made, Calling \cup Queued \cup busy)
    BY DEF FlowInv, OneOrigin
  <1>11. IdOK(Own, Known', Ids, Outs, Sources(cur) \cup {r}, made, Calling \cup Queued \cup busy)
    BY <1>7, <1>10, IdArrive
  <1>12. Elems(SourceIn[m]) \cap Sources(cur) = {}
    BY <1>5, <1>7, <1>10 DEF IdOK
  <1>13. QED
    BY <1>4, <1>5, <1>6, <1>7, <1>8, <1>9, <1>11, <1>12, SourceFlow

\* The operations in calls and in the queue were built.
LEMMA PlacedIssued ==
    ASSUME FabricInv
    PROVE  \A o \in OpIds : o \in Calling \cup Queued => issued[o] # <<>>
  <1>1. ASSUME NEW o \in OpIds, o \in Calling PROVE issued[o] # <<>>
    BY <1>1 DEF Calling, InCall, FabricInv, OpsIssued
  <1>2. ASSUME NEW o \in OpIds, o \in Queued PROVE issued[o] # <<>>
    <2>1. job_queue \in Seq(ExecutorMessage)
      BY DEF FabricInv, FabricTypeOK
    <2> DEFINE f == Flow(OpIn, <<>>, job_queue)
    <2>2. PICK i \in DOMAIN f : \E k \in DOMAIN f[i] : o = f[i][k]
      BY <1>2, CarriedAt DEF Queued
    <2>3. i # 0
      BY <2>2 DEF Flow
    <2>4. i \in DOMAIN job_queue /\ f[i] = OpIn[job_queue[i]]
      BY <2>1, <2>2, <2>3 DEF Flow
    <2>5. job_queue[i] \in ExecutorMessage
      BY <2>1, <2>4
    <2>6. job_queue[i].type = "Op" /\ job_queue[i].op = o
      <3>1. PICK c : c = OpIn[job_queue[i]]
        OBVIOUS
      <3>2. PICK k \in DOMAIN c : o = c[k]
        BY <2>2, <2>4, <3>1
      <3>3. c = IF job_queue[i].type = "Op" THEN <<job_queue[i].op>> ELSE <<>>
        BY <2>5, <3>1, MessageKinds
      <3>4. QED
        BY <3>2, <3>3
    <2>7. QED
      BY <2>4, <2>6 DEF FabricInv, OpsIssued
  <1>3. QED
    BY <1>1, <1>2

\* new_op takes its op id and the operation is built.
LEMMA NewOpIdFlow ==
    ASSUME FabricInv, NEW cur, NEW ready, NEW made, NEW busy, NEW touched,
           FlowInv(cur, ready, made, busy, touched), NEW t \in Threads, NewOpId(t)
    PROVE  /\ FlowInv(cur, ready, made, busy, touched)' /\ Readies(ready)' = Readies(ready)
           /\ \A o \in OpIds : o \in touched => issued'[o] = issued[o]
  <1> DEFINE b == call[t][1].body
  <1>1. PICK q : q = next_op_id
    OBVIOUS
  <1>2. /\ q \in OpIds /\ q \in Nat /\ next_op_id' = q + 1
        /\ issued' = [issued EXCEPT ![q] = <<b>>]
        /\ call' = [call EXCEPT ![t] = <<[step |-> "push_op", op |-> q]>>]
        /\ call[t] # <<>> /\ call[t][1].step = "op_id"
        /\ UNCHANGED <<next_result_id, remote, arrived, job_queue>>
    BY <1>1, FabricAssumption DEF NewOpId, FabricInv, FabricTypeOK, OpIds, netVars
  <1>3. /\ call'[t] = <<[step |-> "push_op", op |-> q]>>
        /\ \A u \in Threads \ {t} : call'[u] = call[u]
        /\ issued'[q] = <<b>> /\ \A o \in OpIds \ {q} : issued'[o] = issued[o]
    BY <1>2 DEF FabricInv, FabricTypeOK
  <1>4. /\ CallIds(t)' = {} /\ CallIds(t) = ResultIdsOf(b)
        /\ \A u \in Threads \ {t} : CallIds(u)' = CallIds(u)
    BY <1>2, <1>3 DEF CallIds
  <1>5. /\ Ids[t] = ResultIdsOf(b) /\ Ids'[t] = {}
        /\ \A u \in Threads : u # t => Ids'[u] = Ids[u]
    BY <1>4 DEF Ids
  <1>6. Out(q)' = ResultIdsOf(b) /\ \A o \in OpIds \ {q} : Out(o)' = Out(o)
    BY <1>3 DEF Out
  <1>7. Outs'[q] = Ids[t] /\ \A o \in OpIds : o # q => Outs'[o] = Outs[o]
    BY <1>2, <1>5, <1>6 DEF Outs
  <1>8. OneArrival(cur, ready) /\ OnePlace(touched)
    BY DEF FlowInv
  <1>9. issued[q] = <<>> /\ q \notin touched
    BY <1>1, <1>2, <1>8 DEF OnePlace
  <1>10. q \notin Calling /\ q \notin Queued
    BY <1>2, <1>9, PlacedIssued
  <1>11. /\ \A o \in OpIds : InCall(t, o)' <=> o = q
         /\ \A u \in Threads \ {t}, o \in OpIds : InCall(u, o)' <=> InCall(u, o)
         /\ \A o \in OpIds : ~InCall(t, o)
    BY <1>2, <1>3 DEF InCall
  <1>12. \A o \in OpIds : o \in Calling' <=> o \in Calling \/ o = q
    BY <1>11 DEF Calling
  <1>13. Sources(cur)' = Sources(cur) /\ Readies(ready)' = Readies(ready) /\ Queued' = Queued
    BY <1>2 DEF Sources, Readies, Queued
  <1>14. OneArrival(cur, ready)' /\ Distinct(Flow(OpIn, <<>>, job_queue'))
    BY <1>2, <1>8 DEF OneArrival, OnePlace
  <1>15. OneOrigin(cur, made, busy)'
    <2>1. IdOK(Own, Known, Ids, Outs, Sources(cur), made, Calling \cup Queued \cup busy)
      BY DEF FlowInv, OneOrigin
    <2>2. Calling' \cup Queued \cup busy \subseteq (Calling \cup Queued \cup busy) \cup {q}
      <3>1. Calling' \subseteq OpIds
        BY DEF Calling
      <3>2. QED
        BY <1>12, <3>1
    <2>3. IdOK(Own, Known, Ids', Outs', Sources(cur), made, Calling' \cup Queued \cup busy)
      BY <1>2, <1>5, <1>7, <2>1, <2>2, IdBuild
    <2>4. Own' = Own /\ Known' = Known
      BY <1>2 DEF Own, Known
    <2>5. QED
      BY <1>13, <2>3, <2>4 DEF OneOrigin
  <1>16. OnePlace(touched)'
    <2> USE <1>8
    <2>1. \A o \in OpIds : o >= next_op_id' => issued'[o] = <<>>
      <3>1. \A o \in OpIds : o >= q + 1 => o >= q /\ o # q
        BY <1>2, IdsAreNat
      <3>2. \A o \in OpIds : o >= q => issued[o] = <<>>
        BY <1>1 DEF OnePlace
      <3>3. QED
        BY <1>2, <1>3, <3>1, <3>2
    <2>2. \A o \in OpIds : o \in touched => issued'[o] # <<>>
      BY <1>3, <1>9 DEF OnePlace
    <2>3. \A u, v \in Threads, o \in OpIds : InCall(u, o)' /\ InCall(v, o)' => u = v
      BY <1>2, <1>10, <1>11 DEF OnePlace, Calling
    <2>4. \A o \in OpIds : o \in Calling' => o \notin Queued /\ o \notin touched
      BY <1>9, <1>10, <1>12 DEF OnePlace
    <2>5. \A o \in OpIds : o \in Queued => o \notin touched
      BY DEF OnePlace
    <2>6. QED
      BY <1>13, <1>14, <2>1, <2>2, <2>3, <2>4, <2>5 DEF OnePlace
  <1>17. QED
    BY <1>3, <1>9, <1>13, <1>14, <1>15, <1>16 DEF FlowInv

\* new_op pushes the operation to the queue.
LEMMA NewOpPushFlow ==
    ASSUME FabricInv, NEW cur, NEW ready, NEW made, NEW busy, NEW touched,
           FlowInv(cur, ready, made, busy, touched), NEW t \in Threads, NewOpPush(t)
    PROVE  FlowInv(cur, ready, made, busy, touched)' /\ Readies(ready)' = Readies(ready)
  <1>1. PICK q : q = call[t][1].op
    OBVIOUS
  <1>2. q \in OpIds /\ call[t] # <<>> /\ call[t][1].step = "push_op"
    BY <1>1, OptionElim DEF NewOpPush, FabricInv, FabricTypeOK, Call
  <1>3. PICK m : m = OpMsg(q)
    OBVIOUS
  <1>4. m \in ExecutorMessage /\ m.type = "Op" /\ m.op = q
    BY <1>2, <1>3 DEF OpMsg, ExecutorMessage
  <1>5. /\ job_queue' = Append(job_queue, m) /\ call' = [call EXCEPT ![t] = <<>>]
        /\ UNCHANGED <<next_result_id, next_op_id, issued, remote, arrived>>
    BY <1>1, <1>3 DEF NewOpPush, Push, netVars
  <1>6. call'[t] = <<>> /\ \A u \in Threads \ {t} : call'[u] = call[u]
    BY <1>5 DEF FabricInv, FabricTypeOK
  <1>7. InCall(t, q)
    BY <1>1, <1>2 DEF InCall
  <1>8. /\ \A o \in OpIds : ~InCall(t, o)'
        /\ \A u \in Threads \ {t}, o \in OpIds : InCall(u, o)' <=> InCall(u, o)
        /\ \A o \in OpIds : InCall(t, o) => o = q
    BY <1>1, <1>6 DEF InCall
  <1>9. OneArrival(cur, ready) /\ OnePlace(touched)
    BY DEF FlowInv
  <1>10. \A o \in OpIds : o \in Calling' <=> o \in Calling /\ o # q
    BY <1>2, <1>7, <1>8, <1>9 DEF Calling, OnePlace
  <1>11. q \in Calling /\ q \notin Queued /\ q \notin touched
    BY <1>2, <1>7, <1>9 DEF Calling, OnePlace
  <1>12. /\ Ids' = Ids /\ Outs' = Outs /\ Own' = Own /\ Known' = Known
    <2>1. CallIds(t) = {} /\ CallIds(t)' = {} /\ \A u \in Threads \ {t} : CallIds(u)' = CallIds(u)
      BY <1>2, <1>6 DEF CallIds
    <2>2. \A u \in Threads : CallIds(u)' = CallIds(u)
      BY <2>1
    <2>3. Ids' = Ids
      BY <2>2 DEF Ids
    <2>4. QED
      BY <1>5, <2>3 DEF Outs, Out, Own, Known
  <1>13. job_queue \in Seq(ExecutorMessage)
    BY DEF FabricInv, FabricTypeOK
  <1>14. SourceIn[m] = <<>> /\ ReadyIn[m] = <<>> /\ OpIn[m] = <<q>>
    BY <1>4, MessageKinds
  <1>15. Elems(OpIn[m]) = {q} /\ OnlyOnce(OpIn[m])
    BY <1>14 DEF Elems, OnlyOnce
  <1>16. Sources(cur)' = Sources(cur) /\ Distinct(Flow(SourceIn, cur, job_queue'))
    BY <1>4, <1>5, <1>9, <1>13, <1>14, FlowSame DEF Sources, OneArrival
  <1>17. Readies(ready)' = Readies(ready) /\ Distinct(Flow(ReadyIn, ready, job_queue'))
    BY <1>4, <1>5, <1>9, <1>13, <1>14, FlowSame DEF Readies, OneArrival
  <1>18. Queued' = Queued \cup {q} /\ Distinct(Flow(OpIn, <<>>, job_queue'))
    <2>1. Elems(OpIn[m]) \cap Carried(Flow(OpIn, <<>>, job_queue)) = {}
      BY <1>11, <1>15 DEF Queued
    <2>2. QED
      BY <1>4, <1>5, <1>9, <1>13, <1>15, <2>1, FlowPush DEF Queued, OnePlace
  <1>19. OneOrigin(cur, made, busy)'
    <2>1. IdOK(Own, Known, Ids, Outs, Sources(cur), made, Calling \cup Queued \cup busy)
      BY DEF FlowInv, OneOrigin
    <2>2. Calling' \cup Queued' \cup busy \subseteq Calling \cup Queued \cup busy
      <3>1. Calling' \subseteq OpIds
        BY DEF Calling
      <3>2. QED
        BY <1>10, <1>11, <1>18, <3>1
    <2>3. Own \subseteq Known
      BY DEF Known
    <2>4. IdOK(Own, Known, Ids, Outs, Sources(cur), made, Calling' \cup Queued' \cup busy)
      BY <2>1, <2>2, <2>3, IdShrink
    <2>5. QED
      BY <1>12, <1>16, <2>4 DEF OneOrigin
  <1>20. OnePlace(touched)'
    <2> USE <1>9
    <2>1. \A u, v \in Threads, o \in OpIds : InCall(u, o)' /\ InCall(v, o)' => u = v
      BY <1>8 DEF OnePlace
    <2>2. /\ \A o \in OpIds : o \in Calling' => o \notin Queued' /\ o \notin touched
          /\ \A o \in OpIds : o \in Queued' => o \notin touched
      BY <1>10, <1>11, <1>18 DEF OnePlace
    <2>3. QED
      BY <1>5, <1>18, <2>1, <2>2 DEF OnePlace
  <1>21. QED
    BY <1>16, <1>17, <1>19, <1>20 DEF FlowInv, OneArrival

\* Every step of the application and of the network keeps the invariant, announces
\* nothing by id and leaves the operations that the executor knows as they are.
LEMMA FabricFlowStep ==
    ASSUME FabricInv, NEW cur, NEW ready, NEW made, NEW busy, NEW touched,
           FlowInv(cur, ready, made, busy, touched), FabricNext
    PROVE  /\ FlowInv(cur, ready, made, busy, touched)' /\ Readies(ready)' = Readies(ready)
           /\ \A o \in OpIds : o \in touched => issued'[o] = issued[o]
  <1> DEFINE goal == /\ FlowInv(cur, ready, made, busy, touched)'
                     /\ Readies(ready)' = Readies(ready)
  <1>1. next_result_id \in Nat
    BY FabricAssumption DEF FabricInv, FabricTypeOK
  <1>2. ASSUME Shutdown PROVE goal
    <2>1. ShutdownMsg \in ExecutorMessage /\ ShutdownMsg.type = "Shutdown"
      BY DEF ShutdownMsg, ExecutorMessage
    <2>2. /\ job_queue' = Append(job_queue, ShutdownMsg)
          /\ UNCHANGED <<next_result_id, next_op_id, call, issued, remote, arrived>>
      BY <1>2 DEF Shutdown, Push, callVars, netVars
    <2>3. QED
      BY <1>1, <2>1, <2>2, QuietFlow
  <1>3. ASSUME NEW t \in Threads, ReceiveValue(t) PROVE goal
    <2>1. /\ next_result_id' = next_result_id + 1
          /\ UNCHANGED <<next_op_id, call, issued, remote, arrived, job_queue>>
      BY <1>3 DEF ReceiveValue, netVars
    <2>2. QED
      BY <1>1, <2>1, QuietFlow
  <1>4. ASSUME NEW h \in Handles, NEW r \in ResultIds, NEW w \in Wakers, PollRegister(h, r, w)
        PROVE  goal
    <2>1. WaiterMsg(h) \in ExecutorMessage /\ WaiterMsg(h).type = "NewWaiter"
      BY DEF WaiterMsg, ExecutorMessage
    <2>2. /\ job_queue' = Append(job_queue, WaiterMsg(h))
          /\ UNCHANGED <<next_result_id, next_op_id, call, issued, remote, arrived>>
      BY <1>4 DEF PollRegister, Push, callVars, netVars
    <2>3. QED
      BY <1>1, <2>1, <2>2, QuietFlow
  <1>5. ASSUME NEW h \in Handles, PollRead(h) \/ \E w \in Wakers : PollAgain(h, w)
        PROVE  goal
    <2>1. UNCHANGED <<next_result_id, next_op_id, call, issued, remote, arrived, job_queue>>
      BY <1>5 DEF PollRead, PollAgain, callVars, netVars
    <2>2. QED
      BY <1>1, <2>1, QuietFlow
  <1>6. goal
    <2> HIDE DEF goal
    <2>1. ASSUME NEW t \in Threads, AllocatePush(t) PROVE goal
      BY <2>1, AllocatePushFlow DEF goal
    <2>2. ASSUME NEW t \in Threads, NewOpId(t) PROVE goal
      BY <2>2, NewOpIdFlow DEF goal
    <2>3. ASSUME NEW t \in Threads, NewOpPush(t) PROVE goal
      BY <2>3, NewOpPushFlow DEF goal
    <2>4. ASSUME NEW t \in Threads, NEW n \in 1 .. MaxArity, AllocateIds(t, n) PROVE goal
      BY <2>4, AllocateIdsFlow DEF goal
    <2>5. ASSUME NEW t \in Threads, NEW args, NEW arity \in 1 .. MaxArity, NEW type,
                 NewOpResultIds(t, args, arity, type)
          PROVE  goal
      BY <2>5, NewOpResultIdsFlow DEF goal
    <2>6. ASSUME NEW r \in ResultIds, ReadLoop(r) PROVE goal
      BY <2>6, ReadLoopFlow DEF goal
    <2>7. QED
      BY <1>2, <1>3, <1>4, <1>5, <2>1, <2>2, <2>3, <2>4, <2>5, <2>6
      DEF FabricNext, CallStep
  <1>7. \A o \in OpIds : o \in touched => issued'[o] = issued[o]
    <2>1. ASSUME NEW t \in Threads, NewOpId(t)
          PROVE  \A o \in OpIds : o \in touched => issued'[o] = issued[o]
      BY <2>1, NewOpIdFlow
    <2>2. (\A t \in Threads : ~NewOpId(t)) => issued' = issued
      BY DEF FabricNext, CallStep, AllocatePush, NewOpPush, ReceiveValue, AllocateIds,
         NewOpResultIds, Shutdown, ReadLoop, PollRead, PollRegister, PollAgain, callVars
    <2>3. QED
      BY <2>1, <2>2
  <1>8. QED
    BY <1>6, <1>7

\* At the start only the constants are on their way.
LEMMA InitFlowInv == FabricInit => FlowInv(<<>>, <<>>, {}, {}, {}) /\ Readies(<<>>) = {}
  <1> SUFFICES ASSUME FabricInit
               PROVE  FlowInv(<<>>, <<>>, {}, {}, {}) /\ Readies(<<>>) = {}
    OBVIOUS
  <1>1. DOMAIN job_queue = 1 .. NConst /\ Len(job_queue) = NConst /\ NConst \in Nat
    BY FabricAssumption DEF FabricInit
  <1>2. ASSUME NEW i \in 1 .. NConst
        PROVE  SourceIn[job_queue[i]] = <<i - 1>> /\ ReadyIn[job_queue[i]] = <<>>
               /\ OpIn[job_queue[i]] = <<>>
    <2>1. i - 1 \in Nat /\ 1 \in Nat /\ i - 1 + 1 <= MaxResults
      BY FabricAssumption
    <2>2. SourceResults(i - 1, 1) \in Seq(Result)
      BY <2>1, SourceResultsType
    <2>3. PICK m : m = ResultsMsg(SourceResults(i - 1, 1))
      OBVIOUS
    <2>4. /\ m \in ExecutorMessage /\ m.type = "Results"
          /\ m.results = SourceResults(i - 1, 1)
      BY <2>2, <2>3 DEF ResultsMsg, ExecutorMessage
    <2>5. job_queue[i] = m
      BY <2>3 DEF FabricInit
    <2>6. IdSeq(SourceResults(i - 1, 1)) = <<i - 1>>
      <3>1. i - 1 + 1 - 1 = i - 1
        BY <2>1
      <3>2. QED
        BY <3>1 DEF IdSeq, SourceResults
    <2>7. QED
      BY <2>4, <2>5, <2>6, MessageKinds
  <1>3. PICK f, g, h : /\ f = Flow(SourceIn, <<>>, job_queue) /\ g = Flow(ReadyIn, <<>>, job_queue)
                       /\ h = Flow(OpIn, <<>>, job_queue)
    OBVIOUS
  <1>4. /\ DOMAIN f = 0 .. NConst /\ DOMAIN g = 0 .. NConst /\ DOMAIN h = 0 .. NConst
        /\ f[0] = <<>> /\ \A i \in 1 .. NConst : f[i] = <<i - 1>>
        /\ \A i \in 0 .. NConst : g[i] = <<>> /\ h[i] = <<>>
    BY <1>1, <1>2, <1>3 DEF Flow
  <1>5. Carried(g) = {} /\ Distinct(g) /\ Carried(h) = {} /\ Distinct(h)
    <2>1. \A i \in DOMAIN g : DOMAIN g[i] = {}
      BY <1>4
    <2>2. \A i \in DOMAIN h : DOMAIN h[i] = {}
      BY <1>4
    <2>3. Carried(g) = {} /\ Carried(h) = {}
      BY <2>1, <2>2, CarriedAt
    <2>4. QED
      BY <2>1, <2>2, <2>3 DEF Distinct
  <1>6. ASSUME NEW i \in DOMAIN f, NEW k \in DOMAIN f[i]
        PROVE  i \in 1 .. NConst /\ k = 1 /\ f[i][k] = i - 1
    <2>1. i # 0
      BY <1>4, <1>6
    <2>2. i \in 1 .. NConst
      BY <1>1, <1>4, <2>1
    <2>3. QED
      BY <1>4, <1>6, <2>2
  <1>7. Distinct(f)
    <2>1. ASSUME NEW i \in DOMAIN f, NEW j \in DOMAIN f,
                 NEW k \in DOMAIN f[i], NEW l \in DOMAIN f[j], f[i][k] = f[j][l]
          PROVE  i = j /\ k = l
      <3>1. i \in 1 .. NConst /\ j \in 1 .. NConst /\ i - 1 = j - 1 /\ k = 1 /\ l = 1
        BY <1>6, <2>1
      <3>2. QED
        BY <1>1, <3>1
    <2>2. QED
      BY <2>1 DEF Distinct
  <1>8. Carried(f) \subseteq 0 .. NConst - 1
    <2>1. ASSUME NEW x \in Carried(f) PROVE x \in 0 .. NConst - 1
      <3>1. PICK i \in DOMAIN f : \E k \in DOMAIN f[i] : x = f[i][k]
        BY <2>1, CarriedAt
      <3>2. i \in 1 .. NConst /\ x = i - 1
        BY <1>6, <3>1
      <3>3. QED
        BY <1>1, <3>2
    <2>2. QED
      BY <2>1
  <1>9. /\ \A t \in Threads : Ids[t] = {} /\ \A o \in OpIds : ~InCall(t, o)
        /\ \A o \in OpIds : Outs[o] = {} /\ issued[o] = <<>>
    BY DEF FabricInit, Ids, CallIds, Outs, Out, InCall
  <1>10. Calling = {} /\ Queued = {} /\ Readies(<<>>) = {}
    BY <1>3, <1>5, <1>9 DEF Calling, Queued, Readies
  <1>11. 0 .. NConst - 1 \subseteq Own /\ Own \subseteq Known
    BY FabricAssumption DEF FabricInit, Own, Known
  <1>12. Sources(<<>>) \subseteq Known
    BY <1>3, <1>8, <1>11 DEF Sources
  <1>13. OneOrigin(<<>>, {}, {})
    BY <1>9, <1>11, <1>12 DEF OneOrigin, IdOK
  <1>14. OnePlace({})
    BY <1>3, <1>5, <1>9, <1>10 DEF OnePlace
  <1>15. QED
    BY <1>3, <1>5, <1>7, <1>10, <1>13, <1>14 DEF FlowInv, OneArrival

-----------------------------------------------------------------------------
(* The steps of an executor. *)

\* The invariant is about these variables; the executor may forget.
LEMMA ShrinkFlow ==
    ASSUME NEW cur, NEW ready, NEW made, NEW busy, NEW touched,
           FlowInv(cur, ready, made, busy, touched),
           NEW made2, NEW busy2, NEW touched2,
           made2 \subseteq made, busy2 \subseteq busy, touched2 \subseteq touched,
           UNCHANGED <<callVars, netVars, job_queue>>
    PROVE  /\ FlowInv(cur, ready, made2, busy2, touched2)'
           /\ Readies(ready)' = Readies(ready)
  <1>1. UNCHANGED <<next_result_id, next_op_id, call, issued, remote, arrived, job_queue>>
    BY DEF callVars, netVars
  <1>2. /\ Own' = Own /\ Known' = Known /\ Ids' = Ids /\ Outs' = Outs
        /\ Sources(cur)' = Sources(cur) /\ Readies(ready)' = Readies(ready)
        /\ Queued' = Queued /\ Calling' = Calling
    BY <1>1 DEF Own, Known, Ids, CallIds, Outs, Out, Sources, Readies, Queued, Calling, InCall
  <1>3. OneOrigin(cur, made2, busy2)'
    <2>1. IdOK(Own, Known, Ids, Outs, Sources(cur), made, Calling \cup Queued \cup busy)
      BY DEF FlowInv, OneOrigin
    <2>2. Own \subseteq Known /\ Calling \cup Queued \cup busy2 \subseteq Calling \cup Queued \cup busy
      BY DEF Known
    <2>3. IdOK(Own, Known, Ids, Outs, Sources(cur), made2, Calling \cup Queued \cup busy2)
      BY <2>1, <2>2, IdShrink
    <2>4. QED
      BY <1>2, <2>3 DEF OneOrigin
  <1>4. OneArrival(cur, ready)'
    BY <1>1 DEF FlowInv, OneArrival
  <1>5. OnePlace(touched2)'
    BY <1>1, <1>2 DEF FlowInv, OnePlace, InCall
  <1>6. QED
    BY <1>2, <1>3, <1>4, <1>5 DEF FlowInv

\* A popped job is in progress; a popped operation is the executor's from then on.
LEMMA PopFlow ==
    ASSUME FabricInv, NEW made, NEW busy, NEW touched,
           FlowInv(<<>>, <<>>, made, busy, touched),
           job_queue # <<>>, job_queue' = Tail(job_queue), UNCHANGED <<callVars, netVars>>,
           NEW m, m = Head(job_queue), NEW ops, ops = Elems(OpIn[m])
    PROVE  /\ m \in ExecutorMessage
           /\ FlowInv(SourceIn[m], ReadyIn[m], made, busy \cup ops, touched \cup ops)'
           /\ Readies(ReadyIn[m])' = Readies(<<>>)
           /\ \A o \in ops : o \in OpIds /\ o \notin touched /\ issued[o] # <<>>
           /\ m.type = "Op" => ops = {m.op}
  <1>1. job_queue \in Seq(ExecutorMessage)
    BY DEF FabricInv, FabricTypeOK
  <1>2. m \in ExecutorMessage
    BY <1>1
  <1>3. UNCHANGED <<next_result_id, next_op_id, call, issued, remote, arrived>>
    BY DEF callVars, netVars
  <1>4. /\ Own' = Own /\ Known' = Known /\ Ids' = Ids /\ Outs' = Outs /\ Calling' = Calling
        /\ \A t \in Threads, o \in OpIds : InCall(t, o)' <=> InCall(t, o)
    BY <1>3 DEF Own, Known, Ids, CallIds, Outs, Out, Calling, InCall
  <1>5. OneArrival(<<>>, <<>>) /\ OnePlace(touched)
    BY DEF FlowInv
  <1>6. /\ Sources(SourceIn[m])' = Sources(<<>>)
        /\ Distinct(Flow(SourceIn, SourceIn[m], job_queue'))
    BY <1>1, <1>5, FlowPop DEF Sources, OneArrival
  <1>7. /\ Readies(ReadyIn[m])' = Readies(<<>>)
        /\ Distinct(Flow(ReadyIn, ReadyIn[m], job_queue'))
    BY <1>1, <1>5, FlowPop DEF Readies, OneArrival
  <1>8. /\ Carried(Flow(OpIn, OpIn[m], job_queue')) = Queued
        /\ Distinct(Flow(OpIn, OpIn[m], job_queue'))
    BY <1>1, <1>5, FlowPop DEF Queued, OnePlace
  <1>9. /\ Distinct(Flow(OpIn, <<>>, job_queue')) /\ ops \subseteq Queued
        /\ Queued' = Queued \ ops /\ ops \subseteq OpIds
        /\ m.type = "Op" => ops = {m.op}
    <2>1. CASE m.type = "Op"
      <3>1. OpIn[m] = <<m.op>> /\ m.op \in OpIds
        BY <1>2, <2>1, MessageKinds, MessageFacts
      <3>2. ops = {m.op}
        BY <3>1 DEF Elems
      <3>3. PICK c : c = OpIn[m]
        OBVIOUS
      <3>4. c \in Seq(OpIds) /\ c # <<>> /\ Tail(c) = <<>> /\ Head(c) = m.op
        BY <3>1, <3>3
      <3>5. PICK q : q = job_queue'
        OBVIOUS
      <3>6. /\ Distinct(Flow(OpIn, Tail(c), q))
            /\ Head(c) \in Carried(Flow(OpIn, c, q))
            /\ Carried(Flow(OpIn, Tail(c), q)) = Carried(Flow(OpIn, c, q)) \ {Head(c)}
        <4>1. q \in Seq(ExecutorMessage)
          BY <1>1, <3>5
        <4>2. Distinct(Flow(OpIn, c, q))
          BY <1>8, <3>3, <3>5
        <4>3. QED
          BY <3>4, <4>1, <4>2, FlowTail
      <3>7. QED
        BY <1>8, <3>1, <3>2, <3>3, <3>4, <3>5, <3>6 DEF Queued
    <2>2. CASE m.type # "Op"
      <3>1. OpIn[m] = <<>> /\ ops = {}
        BY <1>2, <2>2, MessageKinds
      <3>2. QED
        BY <1>8, <2>2, <3>1 DEF Queued
    <2>3. QED
      BY <2>1, <2>2
  <1>10. \A o \in ops : o \in OpIds /\ o \notin touched /\ issued[o] # <<>> /\ o \notin Calling
    BY <1>5, <1>9, PlacedIssued DEF OnePlace
  <1>11. OneOrigin(SourceIn[m], made, busy \cup ops)'
    <2>1. IdOK(Own, Known, Ids, Outs, Sources(<<>>), made, Calling \cup Queued \cup busy)
      BY DEF FlowInv, OneOrigin
    <2>2. Calling \cup Queued' \cup (busy \cup ops) = Calling \cup Queued \cup busy
      BY <1>9
    <2>3. QED
      BY <1>4, <1>6, <2>1, <2>2 DEF OneOrigin
  <1>12. OnePlace(touched \cup ops)'
    <2>1. \A o \in OpIds : o \in touched \cup ops => issued'[o] # <<>>
      BY <1>3, <1>5, <1>10 DEF OnePlace
    <2>2. /\ \A o \in OpIds : o \in Calling' => o \notin Queued' /\ o \notin touched \cup ops
          /\ \A o \in OpIds : o \in Queued' => o \notin touched \cup ops
      BY <1>4, <1>5, <1>9, <1>10 DEF OnePlace
    <2>3. QED
      BY <1>3, <1>4, <1>5, <1>9, <2>1, <2>2 DEF OnePlace
  <1>13. QED
    BY <1>2, <1>6, <1>7, <1>9, <1>10, <1>11, <1>12 DEF FlowInv, OneArrival

\* The executor handles a result of its job.
LEMMA ResultFlow ==
    ASSUME FabricInv, NEW cur \in Seq(ResultIds), NEW ready, NEW made, NEW busy, NEW touched,
           FlowInv(cur, ready, made, busy, touched), cur # <<>>,
           UNCHANGED <<callVars, netVars, job_queue>>
    PROVE  /\ FlowInv(Tail(cur), ready, made \cup {Head(cur)}, busy, touched)'
           /\ Readies(ready)' = Readies(ready)
           /\ Head(cur) \notin made /\ \A o \in OpIds : Head(cur) \notin Out(o)
  <1>1. UNCHANGED <<next_result_id, next_op_id, call, issued, remote, arrived, job_queue>>
    BY DEF callVars, netVars
  <1>2. /\ Own' = Own /\ Known' = Known /\ Ids' = Ids /\ Outs' = Outs
        /\ Readies(ready)' = Readies(ready) /\ Queued' = Queued /\ Calling' = Calling
    BY <1>1 DEF Own, Known, Ids, CallIds, Outs, Out, Readies, Queued, Calling, InCall
  <1>3. job_queue \in Seq(ExecutorMessage) /\ Distinct(Flow(SourceIn, cur, job_queue))
    BY DEF FabricInv, FabricTypeOK, FlowInv, OneArrival
  <1>4. /\ Distinct(Flow(SourceIn, Tail(cur), job_queue))
        /\ Head(cur) \in Sources(cur) /\ Sources(Tail(cur)) = Sources(cur) \ {Head(cur)}
    BY <1>3, FlowTail DEF Sources
  <1>5. Sources(Tail(cur))' = Sources(Tail(cur))
    BY <1>1 DEF Sources
  <1>6. IdOK(Own, Known, Ids, Outs, Sources(cur), made, Calling \cup Queued \cup busy)
    BY DEF FlowInv, OneOrigin
  <1>7. /\ IdOK(Own, Known, Ids, Outs, Sources(Tail(cur)), made \cup {Head(cur)},
                Calling \cup Queued \cup busy)
        /\ Head(cur) \notin made /\ \A o \in OpIds : Head(cur) \notin Outs[o]
    <2>1. PICK r, S, S2, M2, W : /\ r = Head(cur) /\ S = Sources(cur) /\ S2 = S \ {r}
                                 /\ M2 = made \cup {r} /\ W = Calling \cup Queued \cup busy
      OBVIOUS
    <2>2. IdOK(Own, Known, Ids, Outs, S, made, W) /\ r \in S
      BY <1>4, <1>6, <2>1
    <2>3. /\ IdOK(Own, Known, Ids, Outs, S2, M2, W)
          /\ r \notin made /\ \A o \in OpIds : r \notin Outs[o]
      <3>1. S2 \subseteq S /\ r \notin S2 /\ M2 \subseteq made \cup {r}
        BY <2>1
      <3>2. IdOK(Own, Known, Ids, Outs, S2, M2, W)
        BY <2>2, <3>1, IdInsert
      <3>3. r \notin made /\ \A o \in OpIds : r \notin Outs[o]
        BY <2>2 DEF IdOK
      <3>4. QED
        BY <3>2, <3>3
    <2>4. Sources(Tail(cur)) = S2
      BY <1>4, <2>1
    <2>5. QED
      BY <2>1, <2>3, <2>4
  <1>8. OneOrigin(Tail(cur), made \cup {Head(cur)}, busy)'
    BY <1>2, <1>5, <1>7 DEF OneOrigin
  <1>9. OneArrival(Tail(cur), ready)'
    BY <1>1, <1>4 DEF FlowInv, OneArrival
  <1>10. OnePlace(touched)'
    BY <1>1, <1>2 DEF FlowInv, OnePlace, InCall
  <1>11. QED
    BY <1>2, <1>7, <1>8, <1>9, <1>10 DEF FlowInv, Outs

\* The executor handles an announcement of its job.
LEMMA ReadyFlow ==
    ASSUME FabricInv, NEW cur, NEW ready \in Seq(ResultIds), NEW made, NEW busy, NEW touched,
           FlowInv(cur, ready, made, busy, touched), ready # <<>>,
           UNCHANGED <<callVars, netVars, job_queue>>
    PROVE  /\ FlowInv(cur, Tail(ready), made, busy, touched)'
           /\ Head(ready) \in Readies(ready)
           /\ Readies(Tail(ready))' = Readies(ready) \ {Head(ready)}
  <1>1. job_queue \in Seq(ExecutorMessage) /\ Distinct(Flow(ReadyIn, ready, job_queue))
    BY DEF FabricInv, FabricTypeOK, FlowInv, OneArrival
  <1>2. /\ Distinct(Flow(ReadyIn, Tail(ready), job_queue))
        /\ Head(ready) \in Readies(ready)
        /\ Readies(Tail(ready)) = Readies(ready) \ {Head(ready)}
    BY <1>1, FlowTail DEF Readies
  <1>3. Readies(Tail(ready))' = Readies(Tail(ready))
    BY DEF Readies
  <1>4. FlowInv(cur, ready, made, busy, touched)'
    BY ShrinkFlow
  <1>5. FlowInv(cur, Tail(ready), made, busy, touched)'
    BY <1>2, <1>4 DEF FlowInv, OneArrival
  <1>6. QED
    BY <1>2, <1>3, <1>5

\* The executor computes the outputs of an operation.
LEMMA ComputeFlow ==
    ASSUME NEW cur, NEW ready, NEW made, NEW busy, NEW touched,
           FlowInv(cur, ready, made, busy, touched), NEW o \in OpIds, o \in touched,
           UNCHANGED <<callVars, netVars, job_queue>>
    PROVE  FlowInv(cur, ready, made \cup Out(o), busy \ {o}, touched)'
  <1>1. UNCHANGED <<next_result_id, next_op_id, call, issued, remote, arrived, job_queue>>
    BY DEF callVars, netVars
  <1>2. /\ Own' = Own /\ Known' = Known /\ Ids' = Ids /\ Outs' = Outs /\ Out(o)' = Out(o)
        /\ Sources(cur)' = Sources(cur) /\ Queued' = Queued /\ Calling' = Calling
    BY <1>1 DEF Own, Known, Ids, CallIds, Outs, Out, Sources, Queued, Calling, InCall
  <1>3. FlowInv(cur, ready, made, busy, touched)'
    BY ShrinkFlow
  <1>4. o \notin Calling /\ o \notin Queued
    BY DEF FlowInv, OnePlace
  <1>5. IdOK(Own, Known, Ids, Outs, Sources(cur), made, Calling \cup Queued \cup busy)
    BY DEF FlowInv, OneOrigin
  <1>6. Outs[o] = Out(o)
    BY DEF Outs
  <1>7. Calling \cup Queued \cup (busy \ {o}) \subseteq (Calling \cup Queued \cup busy) \ {o}
    BY <1>4
  <1>8. IdOK(Own, Known, Ids, Outs, Sources(cur), made \cup Out(o),
             Calling \cup Queued \cup (busy \ {o}))
    BY <1>5, <1>6, <1>7, IdCompute
  <1>9. OneOrigin(cur, made \cup Out(o), busy \ {o})'
    BY <1>2, <1>8 DEF OneOrigin
  <1>10. QED
    BY <1>3, <1>9 DEF FlowInv

\* A worker announces results by their ids.
LEMMA AnnounceFlow ==
    ASSUME FabricInv, NEW cur, NEW ready, NEW made, NEW busy, NEW touched,
           FlowInv(cur, ready, made, busy, touched),
           NEW ids \in Seq(ResultIds), OnlyOnce(ids), Elems(ids) \cap Readies(ready) = {},
           job_queue' = Append(job_queue, ReadyMsg(ids)), UNCHANGED <<callVars, netVars>>
    PROVE  /\ FlowInv(cur, ready, made, busy, touched)'
           /\ Readies(ready)' = Readies(ready) \cup Elems(ids)
  <1>1. UNCHANGED <<next_result_id, next_op_id, call, issued, remote, arrived>>
    BY DEF callVars, netVars
  <1>2. PICK m : m = ReadyMsg(ids)
    OBVIOUS
  <1>3. m \in ExecutorMessage /\ m.type = "ResultsReady" /\ m.ids = ids
    BY <1>2 DEF ReadyMsg, ExecutorMessage
  <1>4. SourceIn[m] = <<>> /\ ReadyIn[m] = ids /\ OpIn[m] = <<>>
    BY <1>3, MessageKinds
  <1>5. /\ Own' = Own /\ Known' = Known /\ Ids' = Ids /\ Outs' = Outs /\ Calling' = Calling
        /\ \A t \in Threads, o \in OpIds : InCall(t, o)' <=> InCall(t, o)
    BY <1>1 DEF Own, Known, Ids, CallIds, Outs, Out, Calling, InCall
  <1>6. job_queue \in Seq(ExecutorMessage) /\ job_queue' = Append(job_queue, m)
    BY <1>2 DEF FabricInv, FabricTypeOK
  <1>7. OneArrival(cur, ready) /\ OnePlace(touched)
    BY DEF FlowInv
  <1>8. Sources(cur)' = Sources(cur) /\ Distinct(Flow(SourceIn, cur, job_queue'))
    BY <1>3, <1>4, <1>6, <1>7, FlowSame DEF Sources, OneArrival
  <1>9. Queued' = Queued /\ Distinct(Flow(OpIn, <<>>, job_queue'))
    BY <1>3, <1>4, <1>6, <1>7, FlowSame DEF Queued, OnePlace
  <1>10. /\ Readies(ready)' = Readies(ready) \cup Elems(ids)
         /\ Distinct(Flow(ReadyIn, ready, job_queue'))
    BY <1>3, <1>4, <1>6, <1>7, FlowPush DEF Readies, OneArrival
  <1>11. OneOrigin(cur, made, busy)'
    BY <1>5, <1>8, <1>9 DEF FlowInv, OneOrigin
  <1>12. OnePlace(touched)'
    BY <1>1, <1>5, <1>7, <1>9 DEF OnePlace
  <1>13. QED
    BY <1>8, <1>10, <1>11, <1>12 DEF FlowInv, OneArrival

-----------------------------------------------------------------------------
(* The values that the application and the network bring. *)

\* Every value that an allocation or a message brings is its source's.
LEMMA SourceValues ==
    ASSUME NEW first \in Nat, NEW n \in Nat
    PROVE  \A k \in DOMAIN SourceResults(first, n) :
             SourceResults(first, n)[k].val = Source(SourceResults(first, n)[k].id)
  BY DEF SourceResults

\* A job that brings results brings the values of their sources.
SourceJob(m) == m.type = "Results" =>
                  \A k \in DOMAIN m.results : m.results[k].val = Source(m.results[k].id)
QueueSources == \A i \in DOMAIN job_queue : SourceJob(job_queue[i])

\* A new fabric's queue has the constants.
LEMMA InitSources == FabricInit => QueueSources
  <1> SUFFICES ASSUME FabricInit, NEW i \in DOMAIN job_queue PROVE SourceJob(job_queue[i])
    BY DEF QueueSources
  <1>1. i \in 1 .. NConst /\ job_queue[i] = ResultsMsg(SourceResults(i - 1, 1))
    BY FabricAssumption DEF FabricInit
  <1>2. i - 1 \in Nat /\ 1 \in Nat
    BY <1>1, FabricAssumption
  <1>3. PICK rs : rs = SourceResults(i - 1, 1)
    OBVIOUS
  <1>4. \A k \in DOMAIN rs : rs[k].val = Source(rs[k].id)
    BY <1>2, <1>3, SourceValues
  <1>5. job_queue[i].results = rs
    BY <1>1, <1>3 DEF ResultsMsg
  <1>6. QED
    BY <1>4, <1>5 DEF SourceJob

\* A job is pushed.
LEMMA PushSources ==
    ASSUME FabricInv, QueueSources, NEW m \in ExecutorMessage, SourceJob(m),
           job_queue' = Append(job_queue, m)
    PROVE  QueueSources'
  <1>1. \A i \in DOMAIN job_queue' :
            job_queue'[i] = m \/ (i \in DOMAIN job_queue /\ job_queue'[i] = job_queue[i])
    BY AppendFacts DEF FabricInv, FabricTypeOK
  <1>2. QED
    BY <1>1 DEF QueueSources

\* The application and the network bring sources only.
LEMMA FabricSources ==
    ASSUME FabricInv, QueueSources, FabricNext
    PROVE  QueueSources'
  <1>1. ASSUME NEW t \in Threads, AllocatePush(t) PROVE QueueSources'
    <2>1. PICK c : c = call[t][1]
      OBVIOUS
    <2>2. c \in Call /\ c.step = "push"
      BY <1>1, <2>1, OptionElim DEF AllocatePush, FabricInv, FabricTypeOK
    <2>3. SourceResults(c.first, c.n) \in Seq(Result)
      BY <2>2, CallPushFacts
    <2>4. c.first \in Nat
      BY <2>2, IdsAreNat DEF Call
    <2>5. c.n \in Nat
      BY <2>2, FabricAssumption DEF Call
    <2>6. PICK m, rs : m = ResultsMsg(rs) /\ rs = SourceResults(c.first, c.n)
      OBVIOUS
    <2>7. m \in ExecutorMessage /\ m.results = rs
      BY <2>3, <2>6 DEF ResultsMsg, ExecutorMessage
    <2>8. SourceJob(m)
      BY <2>4, <2>5, <2>6, <2>7, SourceValues DEF SourceJob
    <2>9. job_queue' = Append(job_queue, m)
      BY <1>1, <2>1, <2>6 DEF AllocatePush, Push
    <2>10. QED
      BY <2>7, <2>8, <2>9, PushSources
  <1>2. ASSUME NEW r \in ResultIds, ReadLoop(r) PROVE QueueSources'
    <2>1. r \in Nat /\ r + 1 <= MaxResults /\ 1 \in Nat
      BY FabricAssumption DEF ResultIds
    <2>2. SourceResults(r, 1) \in Seq(Result)
      BY <2>1, SourceResultsType
    <2>3. PICK m, rs : m = ResultsMsg(rs) /\ rs = SourceResults(r, 1)
      OBVIOUS
    <2>4. m \in ExecutorMessage /\ m.results = rs
      BY <2>2, <2>3 DEF ResultsMsg, ExecutorMessage
    <2>5. SourceJob(m)
      BY <2>1, <2>3, <2>4, SourceValues DEF SourceJob
    <2>6. job_queue' = Append(job_queue, m)
      BY <1>2, <2>3 DEF ReadLoop, Push
    <2>7. QED
      BY <2>4, <2>5, <2>6, PushSources
  <1>3. ASSUME NEW t \in Threads, NewOpPush(t) PROVE QueueSources'
    <2>1. PICK m : m = OpMsg(call[t][1].op)
      OBVIOUS
    <2>2. m \in ExecutorMessage /\ m.type = "Op"
      BY <1>3, <2>1, OptionElim DEF NewOpPush, OpMsg, ExecutorMessage, Call, FabricInv, FabricTypeOK
    <2>3. job_queue' = Append(job_queue, m)
      BY <1>3, <2>1 DEF NewOpPush, Push
    <2>4. SourceJob(m)
      BY <2>2 DEF SourceJob
    <2>5. QED
      BY <2>2, <2>3, <2>4, PushSources
  <1>4. CASE Shutdown
    <2>1. PICK m : m = ShutdownMsg
      OBVIOUS
    <2>2. m \in ExecutorMessage /\ m.type = "Shutdown"
      BY <2>1 DEF ShutdownMsg, ExecutorMessage
    <2>3. job_queue' = Append(job_queue, m) /\ SourceJob(m)
      BY <1>4, <2>1, <2>2 DEF Shutdown, Push, SourceJob
    <2>4. QED
      BY <2>2, <2>3, PushSources
  <1>5. ASSUME NEW h \in Handles, NEW r \in ResultIds, NEW w \in Wakers, PollRegister(h, r, w)
        PROVE  QueueSources'
    <2>1. PICK m : m = WaiterMsg(h)
      OBVIOUS
    <2>2. m \in ExecutorMessage /\ m.type = "NewWaiter"
      BY <2>1 DEF WaiterMsg, ExecutorMessage
    <2>3. job_queue' = Append(job_queue, m) /\ SourceJob(m)
      BY <1>5, <2>1, <2>2 DEF PollRegister, Push, SourceJob
    <2>4. QED
      BY <2>2, <2>3, PushSources
  <1>6. ASSUME job_queue' = job_queue PROVE QueueSources'
    BY <1>6 DEF QueueSources
  <1>7. ASSUME \/ \E t \in Threads : \/ NewOpId(t) \/ ReceiveValue(t)
                                     \/ \E n \in 1 .. MaxArity : AllocateIds(t, n)
                                     \/ \E args \in ArgLists(returned), arity \in 1 .. MaxArity,
                                           type \in OpTypes : NewOpResultIds(t, args, arity, type)
               \/ \E h \in Handles : PollRead(h) \/ \E w \in Wakers : PollAgain(h, w)
        PROVE  job_queue' = job_queue
    BY <1>7 DEF NewOpId, ReceiveValue, AllocateIds, NewOpResultIds, PollRead, PollAgain
  <1>8. QED
    BY <1>1, <1>2, <1>3, <1>4, <1>5, <1>6, <1>7 DEF FabricNext, CallStep
=============================================================================
