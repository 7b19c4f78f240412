------------------------ MODULE SerialExecutorProofs ------------------------
(***************************************************************************)
(* Proofs about the single threaded executor, for any number of threads,    *)
(* handles and wakers, any values and gate functions and any bounds.        *)
(***************************************************************************)
EXTENDS SerialExecutor, FabricProofs

-----------------------------------------------------------------------------
(* The inductive invariant of type correctness: besides its type, each      *)
(* reference held somewhere points to something that exists.                *)

\* An op id names an operation that was built, wherever it is held.
OpsBuilt ==
    /\ \A t \in Threads : call[t] # <<>> /\ call[t][1].step = "push_op"
                            => issued[call[t][1].op] # <<>>
    /\ \A i \in DOMAIN job_queue : job_queue[i].type = "Op"
                            => issued[job_queue[i].op] # <<>>
    /\ \A o \in OpIds : inflight_args[o] # <<>> => issued[o] # <<>>
    /\ \A i \in DOMAIN ops_queue : issued[ops_queue[i]] # <<>>

\* A waiter, queued or registered, belongs to a handle that was polled for that
\* result and left its waker; only such handles are ever filled.
WaitersPolled ==
    /\ \A h \in Handles : (task[h] = "unpolled") = (awaits[h] = <<>>)
    /\ \A h \in Handles : awaits[h] # <<>> => registered[h] # <<>>
    /\ \A i \in DOMAIN job_queue : job_queue[i].type = "NewWaiter"
                            => awaits[job_queue[i].handle] # <<>>
    /\ \A r \in ResultIds : \A h \in waiters[r] : awaits[h] = <<r>>

TypeInv == TypeOK /\ OpsBuilt /\ WaitersPolled

\* A new fabric, with its constant results queued, satisfies TypeInv.
LEMMA InitTypeInv == Init => TypeInv
  <1> SUFFICES ASSUME Init PROVE TypeInv
    OBVIOUS
  <1>1. FabricInit
    BY DEF Init
  <1>2. FabricInv
    BY <1>1, InitFabricInv
  <1> USE DEF Init
  <1>3. TypeOK
    BY <1>2, OptionIntro DEF FabricInv, TypeOK
  <1>4. OpsBuilt
    BY <1>2 DEF FabricInv, OpsIssued, OpsBuilt
  <1>5. WaitersPolled
    BY <1>2 DEF FabricInv, HandlesPolled, WaitersPolled
  <1>6. QED
    BY <1>3, <1>4, <1>5 DEF TypeInv

\* TypeInv contains the fabric's invariant.
LEMMA TypeInvFabric == TypeInv => FabricInv
  BY DEF TypeInv, TypeOK, OpsBuilt, WaitersPolled, FabricInv, OpsIssued, HandlesPolled

\* Every step of the application and of the network keeps TypeInv.
LEMMA FabricNextType ==
    ASSUME TypeInv, FabricNext, UNCHANGED executorVars
    PROVE  TypeInv'
  <1>1. /\ FabricInv'
        /\ \A o \in OpIds : issued[o] # <<>> => issued'[o] # <<>>
        /\ \A h \in Handles : awaits[h] # <<>> => awaits'[h] = awaits[h]
    BY TypeInvFabric, FabricInvStep
  <1>2. TypeOK'
    BY <1>1 DEF FabricInv, TypeInv, TypeOK, executorVars
  <1>3. OpsBuilt'
    <2>1. \A o \in OpIds : inflight_args'[o] # <<>> => issued'[o] # <<>>
      BY <1>1 DEF TypeInv, OpsBuilt, executorVars
    <2>2. \A i \in DOMAIN ops_queue' : issued'[ops_queue'[i]] # <<>>
      BY <1>1 DEF TypeInv, TypeOK, OpsBuilt, executorVars
    <2>3. QED
      BY <1>1, <2>1, <2>2 DEF FabricInv, OpsIssued, OpsBuilt
  <1>4. WaitersPolled'
    <2>1. waiters' = waiters /\ waiters \in [ResultIds -> SUBSET Handles]
      BY DEF TypeInv, TypeOK, executorVars
    <2>2. ASSUME NEW r \in ResultIds, NEW h \in waiters[r]
          PROVE  awaits'[h] = <<r>>
      <3>1. h \in Handles /\ awaits[h] = <<r>>
        BY <2>1 DEF TypeInv, WaitersPolled
      <3>2. awaits[h] # <<>>
        BY <3>1, OptionIntro
      <3>3. QED
        BY <1>1, <3>1, <3>2
    <2>3. QED
      BY <1>1, <2>1, <2>2 DEF FabricInv, HandlesPolled, WaitersPolled
  <1>5. QED
    BY <1>2, <1>3, <1>4 DEF TypeInv

-----------------------------------------------------------------------------
(* Each step of the executor keeps TypeInv. *)

\* What a pop tells about the job and what it does to the queue.
LEMMA PopFacts ==
    ASSUME TypeInv, NEW type, Pops(type)
    PROVE  /\ Head(job_queue) = job_queue[1] /\ 1 \in DOMAIN job_queue
           /\ Head(job_queue) \in ExecutorMessage /\ Head(job_queue).type = type
           /\ job_queue' \in Seq(ExecutorMessage)
           /\ \A i \in DOMAIN job_queue' :
                i + 1 \in DOMAIN job_queue /\ job_queue'[i] = job_queue[i + 1]
  <1>1. job_queue \in Seq(ExecutorMessage) /\ job_queue # <<>>
    BY DEF TypeInv, TypeOK, FabricTypeOK, Pops
  <1>2. Head(job_queue).type = type /\ job_queue' = Tail(job_queue)
    BY DEF Pops
  <1>3. QED
    BY <1>1, <1>2, TailFacts

\* Inserting a result keeps the types of all that it changes.
LEMMA InsertType ==
    ASSUME TypeInv, NEW res \in Result, InsertResult(res)
    PROVE  /\ results' \in [ResultIds -> Option(Val)]
           /\ buffer' \in [Handles -> Option(Val)]
           /\ woken' \in [Handles -> SUBSET Wakers]
  <1> USE FabricAssumption
           DEF TypeInv, TypeOK, FabricTypeOK, netVars, callVars, pollVars
  <1>1. res.id \in ResultIds /\ res.val \in Val
    BY DEF Result
  <1>2. results' \in [ResultIds -> Option(Val)]
    BY <1>1, OptionIntro DEF InsertResult
  <1>3. waiters[res.id] \in SUBSET Handles
    BY <1>1
  <1>4. \A h \in waiters[res.id] : registered[h] # <<>>
    <2>1. \A h \in waiters[res.id] : h \in Handles /\ awaits[h] = <<res.id>>
      BY <1>1, <1>3 DEF WaitersPolled
    <2>2. <<res.id>> # <<>>
      BY <1>1, OptionIntro
    <2>3. QED
      BY <2>1, <2>2 DEF WaitersPolled
  <1>5. WakeWaiters(waiters[res.id], res.val)
    BY DEF InsertResult
  <1>6. QED
    BY <1>1, <1>2, <1>3, <1>4, <1>5, TypeInvFabric, WakeType

\* Popping a Result or ResultBatch job keeps TypeInv.
LEMMA PopResultsType ==
    ASSUME TypeInv, PopResults
    PROVE  TypeInv'
  <1> USE FabricAssumption
           DEF TypeInv, TypeOK, FabricTypeOK, netVars, callVars, pollVars
  <1>1. /\ job_queue' \in Seq(ExecutorMessage)
        /\ \A i \in DOMAIN job_queue' :
             i + 1 \in DOMAIN job_queue /\ job_queue'[i] = job_queue[i + 1]
    BY PopFacts DEF PopResults
  <1>2. Head(job_queue).results \in Seq(Result)
    BY PopFacts, MessageFacts DEF PopResults
  <1>3. FabricTypeOK' /\ TypeOK'
    BY <1>1, <1>2 DEF PopResults
  <1>4. OpsBuilt'
    BY <1>1 DEF PopResults, OpsBuilt
  <1>5. WaitersPolled'
    BY <1>1 DEF PopResults, WaitersPolled
  <1>6. QED
    BY <1>3, <1>4, <1>5

\* handle_new_result keeps TypeInv.
LEMMA HandleNewResultType ==
    ASSUME TypeInv, HandleNewResult
    PROVE  TypeInv'
  <1> USE FabricAssumption
           DEF TypeInv, TypeOK, FabricTypeOK, netVars, callVars, pollVars
  <1>1. Head(batch) \in Result /\ Tail(batch) \in Seq(Result)
    BY TailFacts DEF HandleNewResult
  <1>2. /\ results' \in [ResultIds -> Option(Val)]
        /\ buffer' \in [Handles -> Option(Val)]
        /\ woken' \in [Handles -> SUBSET Wakers]
    BY <1>1, InsertType DEF HandleNewResult
  <1>3. scan' \in Seq(OpIds)
    BY <1>1 DEF HandleNewResult, Result
  <1>4. FabricTypeOK' /\ TypeOK'
    BY <1>1, <1>2, <1>3 DEF HandleNewResult
  <1>5. OpsBuilt'
    BY DEF HandleNewResult, OpsBuilt
  <1>6. WaitersPolled'
    BY DEF HandleNewResult, WaitersPolled
  <1>7. QED
    BY <1>4, <1>5, <1>6

\* An iteration of append_ready_ops keeps TypeInv.
LEMMA AppendReadyOpType ==
    ASSUME TypeInv, AppendReadyOp
    PROVE  TypeInv'
  <1> USE FabricAssumption
           DEF TypeInv, TypeOK, FabricTypeOK, netVars, callVars, pollVars
  <1> DEFINE o == Head(scan)
              left == inflight_args[o][1] - 1
  <1>1. o \in OpIds /\ Tail(scan) \in Seq(OpIds)
    BY TailFacts DEF AppendReadyOp
  <1>2. CASE inflight_args[o] = <<>>
    <2>1. status' = "panicked" /\ UNCHANGED <<inflight_args, ops_queue>>
      BY <1>2 DEF AppendReadyOp
    <2>2. FabricTypeOK' /\ TypeOK'
      BY <1>1, <2>1 DEF AppendReadyOp, fabricVars
    <2>3. OpsBuilt' /\ WaitersPolled'
      BY <2>1 DEF AppendReadyOp, fabricVars, OpsBuilt, WaitersPolled
    <2>4. QED
      BY <2>2, <2>3
  <1>3. CASE inflight_args[o] # <<>>
    <2>1. inflight_args[o][1] \in 1 .. MaxArgs
      BY <1>1, <1>3, OptionElim
    <2>2. /\ inflight_args' = [inflight_args EXCEPT ![o] = Buffered(left)]
          /\ ops_queue' = IF left > 0 THEN ops_queue ELSE Append(ops_queue, o)
          /\ UNCHANGED status
      BY <1>3 DEF AppendReadyOp
    <2>3. Buffered(left) \in Option(1 .. MaxArgs)
      <3>1. CASE left > 0
        <4>1. left \in 1 .. MaxArgs
          BY <2>1, <3>1
        <4>2. QED
          BY <3>1, <4>1, OptionIntro DEF Buffered
      <3>2. CASE ~(left > 0)
        BY <3>2, OptionIntro DEF Buffered
      <3>3. QED
        BY <3>1, <3>2
    <2>4. inflight_args' \in [OpIds -> Option(1 .. MaxArgs)]
      BY <1>1, <2>2, <2>3
    <2>5. /\ ops_queue' \in Seq(OpIds)
          /\ \A i \in DOMAIN ops_queue' :
               ops_queue'[i] = o \/ (i \in DOMAIN ops_queue /\ ops_queue'[i] = ops_queue[i])
      BY <1>1, <2>2, AppendFacts
    <2>6. FabricTypeOK' /\ TypeOK'
      BY <1>1, <2>2, <2>4, <2>5 DEF AppendReadyOp, fabricVars
    <2>7. issued[o] # <<>>
      BY <1>1, <1>3 DEF OpsBuilt
    <2>8. \A p \in OpIds : inflight_args'[p] # <<>> => issued[p] # <<>>
      BY <1>1, <2>2, <2>7 DEF OpsBuilt
    <2>9. \A i \in DOMAIN ops_queue' : issued[ops_queue'[i]] # <<>>
      BY <2>5, <2>7 DEF OpsBuilt
    <2>10. OpsBuilt'
      BY <2>8, <2>9 DEF AppendReadyOp, fabricVars, OpsBuilt
    <2>11. WaitersPolled'
      BY DEF AppendReadyOp, fabricVars, WaitersPolled
    <2>12. QED
      BY <2>6, <2>10, <2>11
  <1>4. QED
    BY <1>2, <1>3

\* compute_result keeps TypeInv.
LEMMA ComputeResultType ==
    ASSUME TypeInv, ComputeResult
    PROVE  TypeInv'
  <1> DEFINE o    == ops_queue[Len(ops_queue)]
              op   == issued[o][1]
              args == [k \in DOMAIN op.args |-> results[op.args[k]]]
              vals == [k \in DOMAIN args |-> args[k][1]]
              out  == [j \in 1 .. op.output_arity |->
                         [id  |-> op.result_id + j - 1,
                          val |-> Apply(op.result_id + j - 1, vals)]]
  <1>1. /\ ops_queue \in Seq(OpIds) /\ ops_queue # <<>>
        /\ ops_queue' = SubSeq(ops_queue, 1, Len(ops_queue) - 1)
    BY DEF ComputeResult, TypeInv, TypeOK
  <1>2. /\ Len(ops_queue) \in DOMAIN ops_queue /\ o \in OpIds
        /\ ops_queue' \in Seq(OpIds)
        /\ \A i \in DOMAIN ops_queue' : i \in DOMAIN ops_queue /\ ops_queue'[i] = ops_queue[i]
    BY <1>1, PopLastFacts
  <1>3. op \in Operation
    BY <1>2, OptionElim DEF TypeInv, TypeOK, FabricTypeOK, OpsBuilt
  <1>4. OpsBuilt'
    BY <1>2 DEF TypeInv, ComputeResult, OpsBuilt, callVars
  <1>5. WaitersPolled'
    BY DEF TypeInv, ComputeResult, WaitersPolled, pollVars
  <1>6. CASE \E k \in DOMAIN args : args[k] = <<>>
    <2>1. status' = "panicked" /\ UNCHANGED <<outbound, produced, scan>>
      BY <1>6 DEF ComputeResult
    <2>2. QED
      BY <1>2, <1>4, <1>5, <2>1
      DEF ComputeResult, TypeInv, TypeOK, FabricTypeOK, netVars, callVars, pollVars
  <1>7. CASE ~ \E k \in DOMAIN args : args[k] = <<>>
    <2>1. /\ produced' = out
          /\ scan' = dependencies[op.result_id]
          /\ outbound' = IF op.op_type = "Network" THEN Append(outbound, out[1])
                         ELSE outbound
          /\ UNCHANGED status
      BY <1>7 DEF ComputeResult
    <2>2. /\ op.result_id \in ResultIds
          /\ op.result_id \in Nat /\ op.output_arity \in Nat \ {0}
          /\ op.result_id + op.output_arity <= MaxResults
          /\ op.args \in ArgLists(ResultIds)
      BY <1>3, OperationFacts
    <2>3. \A r \in ResultIds : Apply(r, vals) \in Val
      <3>1. \A k \in DOMAIN op.args : results[op.args[k]] # <<>>
        BY <1>7
      <3>2. vals = [k \in DOMAIN op.args |-> results[op.args[k]][1]]
        OBVIOUS
      <3>3. results \in [ResultIds -> Option(Val)]
        BY DEF TypeInv, TypeOK
      <3>4. QED
        BY <2>2, <3>1, <3>2, <3>3, ApplyType
    <2>4. out \in Seq(Result) /\ out[1] \in Result
      <3> DEFINE v == [r \in ResultIds |-> Apply(r, vals)]
      <3> HIDE DEF vals
      <3>1. v \in [ResultIds -> Val]
        BY <2>3
      <3>2. \A j \in 1 .. op.output_arity : op.result_id + j - 1 \in ResultIds
        BY <2>2, FabricAssumption DEF ResultIds
      <3>3. \A j \in 1 .. op.output_arity :
              v[op.result_id + j - 1] = Apply(op.result_id + j - 1, vals)
        BY <3>2
      <3>4. out = [j \in 1 .. op.output_arity |->
                     [id |-> op.result_id + j - 1, val |-> v[op.result_id + j - 1]]]
        BY <3>3
      <3>5. QED
        BY <2>2, <3>1, <3>4, OutputsType
    <2>5. outbound \in Seq(Result)
      BY DEF TypeInv, TypeOK, FabricTypeOK
    <2>6. outbound' \in Seq(Result)
      <3> HIDE DEF out, op
      <3> QED
        BY <2>1, <2>4, <2>5, AppendFacts
    <2>7. scan' \in Seq(OpIds)
      BY <2>1, <2>2 DEF TypeInv, TypeOK
    <2>8. produced' \in Seq(Result)
      BY <2>1, <2>4
    <2>9. TypeOK'
      BY <1>2, <2>1, <2>6, <2>7, <2>8
      DEF ComputeResult, TypeInv, TypeOK, FabricTypeOK, netVars, callVars, pollVars
    <2>10. QED
      BY <1>4, <1>5, <2>9 DEF TypeInv
  <1>8. QED
    BY <1>6, <1>7

\* Inserting an output in execute_operations keeps TypeInv.
LEMMA InsertProducedType ==
    ASSUME TypeInv, InsertProduced
    PROVE  TypeInv'
  <1> USE FabricAssumption
           DEF TypeInv, TypeOK, FabricTypeOK, netVars, callVars, pollVars
  <1>1. Head(produced) \in Result /\ Tail(produced) \in Seq(Result)
    BY TailFacts DEF InsertProduced
  <1>2. /\ results' \in [ResultIds -> Option(Val)]
        /\ buffer' \in [Handles -> Option(Val)]
        /\ woken' \in [Handles -> SUBSET Wakers]
    BY <1>1, InsertType DEF InsertProduced
  <1>3. scan' \in Seq(OpIds)
    <2>1. CASE Len(produced) > 1
      <3>1. produced[2] \in Result
        BY <2>1
      <3>2. QED
        BY <2>1, <3>1 DEF InsertProduced, Result
    <2>2. CASE ~(Len(produced) > 1)
      BY <2>2 DEF InsertProduced
    <2>3. QED
      BY <2>1, <2>2
  <1>4. FabricTypeOK' /\ TypeOK'
    BY <1>1, <1>2, <1>3 DEF InsertProduced
  <1>5. OpsBuilt'
    BY DEF InsertProduced, OpsBuilt
  <1>6. WaitersPolled'
    BY DEF InsertProduced, WaitersPolled
  <1>7. QED
    BY <1>4, <1>5, <1>6

\* handle_new_operation keeps TypeInv.
LEMMA HandleNewOperationType ==
    ASSUME TypeInv, HandleNewOperation
    PROVE  TypeInv'
  <1> DEFINE o       == Head(job_queue).op
              args    == issued[o][1].args
              missing == Missing(args)
  <1>1. /\ job_queue' \in Seq(ExecutorMessage)
        /\ \A i \in DOMAIN job_queue' :
             i + 1 \in DOMAIN job_queue /\ job_queue'[i] = job_queue[i + 1]
        /\ Head(job_queue) = job_queue[1] /\ 1 \in DOMAIN job_queue
        /\ Head(job_queue) \in ExecutorMessage /\ Head(job_queue).type = "Op"
    BY PopFacts DEF HandleNewOperation
  <1>2. o \in OpIds /\ issued[o] # <<>>
    BY <1>1, MessageFacts DEF TypeInv, OpsBuilt
  <1>3. issued[o][1] \in Operation
    BY <1>2, OptionElim DEF TypeInv, TypeOK, FabricTypeOK
  <1>4. args \in ArgLists(ResultIds)
    BY <1>3, OperationFacts
  <1>5. missing \in 0 .. MaxArgs
    BY <1>4, PositionsBound DEF Missing
  <1>6. \A r \in ResultIds : Uses(args, r) \in Nat
    <2> SUFFICES ASSUME NEW r \in ResultIds PROVE Uses(args, r) \in Nat
      OBVIOUS
    <2>1. {k \in DOMAIN args : args[k] = r} \in SUBSET DOMAIN args
      OBVIOUS
    <2>2. Uses(args, r) \in 0 .. MaxArgs
      BY <1>4, <2>1, PositionsBound DEF Uses
    <2>3. QED
      BY <2>2, FabricAssumption
  <1>7. WaitersPolled'
    BY <1>1 DEF TypeInv, HandleNewOperation, WaitersPolled, pollVars
  <1>8. \A i \in DOMAIN job_queue' : job_queue'[i].type = "Op"
                            => issued[job_queue'[i].op] # <<>>
    BY <1>1 DEF TypeInv, OpsBuilt
  <1> HIDE DEF missing
  <1>9. CASE missing = 0
    <2>1. ops_queue' = <<o>> /\ UNCHANGED <<inflight_args, dependencies>>
      BY <1>9 DEF HandleNewOperation, missing
    <2>2. ops_queue' \in Seq(OpIds) /\ \A i \in DOMAIN ops_queue' : ops_queue'[i] = o
      BY <1>2, <2>1
    <2>3. TypeOK'
      BY <1>1, <2>1, <2>2
      DEF HandleNewOperation, TypeInv, TypeOK, FabricTypeOK, netVars, callVars, pollVars
    <2>4. OpsBuilt'
      BY <1>2, <1>8, <2>1, <2>2 DEF TypeInv, HandleNewOperation, OpsBuilt, callVars
    <2>5. QED
      BY <1>7, <2>3, <2>4 DEF TypeInv
  <1>10. CASE missing # 0
    <2>1. /\ dependencies' = [r \in ResultIds |->
                 dependencies[r] \o [i \in 1 .. Uses(args, r) |-> o]]
          /\ inflight_args' = [inflight_args EXCEPT ![o] = <<missing>>]
          /\ UNCHANGED ops_queue
      BY <1>10 DEF HandleNewOperation, missing
    <2>2. dependencies' \in [ResultIds -> Seq(OpIds)]
      <3> DEFINE n == [r \in ResultIds |-> Uses(args, r)]
      <3>1. n \in [ResultIds -> Nat]
        BY <1>6
      <3>2. dependencies' = [r \in ResultIds |-> dependencies[r] \o [i \in 1 .. n[r] |-> o]]
        BY <2>1
      <3>3. dependencies \in [ResultIds -> Seq(OpIds)]
        BY DEF TypeInv, TypeOK
      <3> HIDE DEF n, o
      <3>4. QED
        BY <1>2, <3>1, <3>2, <3>3, RegisterType
    <2>3. <<missing>> \in Option(1 .. MaxArgs)
      <3>1. missing \in 1 .. MaxArgs
        BY <1>5, <1>10, FabricAssumption
      <3>2. QED
        BY <3>1, OptionIntro
    <2>4. inflight_args' \in [OpIds -> Option(1 .. MaxArgs)]
      BY <1>2, <2>1, <2>3 DEF TypeInv, TypeOK
    <2>5. TypeOK'
      BY <1>1, <2>1, <2>2, <2>4
      DEF HandleNewOperation, TypeInv, TypeOK, FabricTypeOK, netVars, callVars, pollVars
    <2>6. \A p \in OpIds : inflight_args'[p] # <<>> => issued[p] # <<>>
      BY <1>2, <2>1 DEF TypeInv, TypeOK, OpsBuilt
    <2>7. OpsBuilt'
      BY <1>8, <2>1, <2>6 DEF TypeInv, HandleNewOperation, OpsBuilt, callVars
    <2>8. QED
      BY <1>7, <2>5, <2>7 DEF TypeInv
  <1>11. QED
    BY <1>9, <1>10

\* handle_new_waiter keeps TypeInv.
LEMMA HandleNewWaiterType ==
    ASSUME TypeInv, HandleNewWaiter
    PROVE  TypeInv'
  <1> DEFINE h == Head(job_queue).handle
              r == awaits[h][1]
  <1>1. /\ job_queue' \in Seq(ExecutorMessage)
        /\ \A i \in DOMAIN job_queue' :
             i + 1 \in DOMAIN job_queue /\ job_queue'[i] = job_queue[i + 1]
        /\ Head(job_queue) = job_queue[1] /\ 1 \in DOMAIN job_queue
        /\ Head(job_queue) \in ExecutorMessage /\ Head(job_queue).type = "NewWaiter"
    BY PopFacts DEF HandleNewWaiter
  <1>2. h \in Handles /\ awaits[h] # <<>>
    BY <1>1, MessageFacts DEF TypeInv, WaitersPolled
  <1>3. r \in ResultIds /\ awaits[h] = <<r>>
    BY <1>2, OptionElim DEF TypeInv, TypeOK, FabricTypeOK
  <1>4. waiters' = [waiters EXCEPT ![r] = @ \cup {h}]
    BY DEF HandleNewWaiter
  <1>5. waiters' \in [ResultIds -> SUBSET Handles]
    BY <1>2, <1>4 DEF TypeInv, TypeOK
  <1>6. \A q \in ResultIds : \A g \in waiters'[q] : awaits[g] = <<q>>
    BY <1>3, <1>4 DEF TypeInv, TypeOK, WaitersPolled
  <1>7. /\ buffer' \in [Handles -> Option(Val)]
        /\ woken' \in [Handles -> SUBSET Wakers]
    <2>1. CASE results[r] # <<>>
      <3>1. WakeWaiters(waiters[r] \cup {h}, results[r][1])
        BY <2>1 DEF HandleNewWaiter
      <3>2. results[r][1] \in Val
        BY <1>3, <2>1, OptionElim DEF TypeInv, TypeOK
      <3>3. waiters[r] \cup {h} \in SUBSET Handles
        BY <1>2, <1>3 DEF TypeInv, TypeOK
      <3>4. \A g \in waiters[r] \cup {h} : awaits[g] # <<>>
        BY <1>2, <1>3, OptionIntro DEF TypeInv, WaitersPolled
      <3>5. \A g \in waiters[r] \cup {h} : registered[g] # <<>>
        BY <3>3, <3>4 DEF TypeInv, WaitersPolled
      <3>6. QED
        BY <3>1, <3>2, <3>3, <3>5, TypeInvFabric, WakeType
    <2>2. CASE results[r] = <<>>
      BY <2>2 DEF HandleNewWaiter, TypeInv, TypeOK, FabricTypeOK
    <2>3. QED
      BY <2>1, <2>2
  <1>8. TypeOK'
    BY <1>1, <1>5, <1>7
    DEF HandleNewWaiter, TypeInv, TypeOK, FabricTypeOK, netVars, callVars, pollVars
  <1>9. OpsBuilt'
    BY <1>1 DEF TypeInv, HandleNewWaiter, OpsBuilt, callVars
  <1>10. WaitersPolled'
    BY <1>1, <1>6 DEF TypeInv, HandleNewWaiter, WaitersPolled, pollVars
  <1>11. QED
    BY <1>8, <1>9, <1>10 DEF TypeInv

\* A Shutdown job keeps TypeInv.
LEMMA HandleShutdownType ==
    ASSUME TypeInv, HandleShutdown
    PROVE  TypeInv'
  <1>1. /\ job_queue' \in Seq(ExecutorMessage)
        /\ \A i \in DOMAIN job_queue' :
             i + 1 \in DOMAIN job_queue /\ job_queue'[i] = job_queue[i + 1]
    BY PopFacts DEF HandleShutdown
  <1>2. TypeOK'
    BY <1>1
    DEF HandleShutdown, TypeInv, TypeOK, FabricTypeOK, netVars, callVars, pollVars
  <1>3. OpsBuilt'
    BY <1>1 DEF TypeInv, HandleShutdown, OpsBuilt, callVars
  <1>4. WaitersPolled'
    BY <1>1 DEF TypeInv, HandleShutdown, WaitersPolled, pollVars
  <1>5. QED
    BY <1>2, <1>3, <1>4 DEF TypeInv

-----------------------------------------------------------------------------
\* TypeInv is inductive.
LEMMA TypeInvStep == TypeInv /\ [Next]_vars => TypeInv'
  <1> SUFFICES ASSUME TypeInv, [Next]_vars PROVE TypeInv'
    OBVIOUS
  <1>1. CASE ExecutorNext
    BY <1>1, PopResultsType, HandleNewResultType, AppendReadyOpType, ComputeResultType,
       InsertProducedType, HandleNewOperationType, HandleNewWaiterType, HandleShutdownType
    DEF ExecutorNext
  <1>2. CASE FabricNext /\ UNCHANGED executorVars
    BY <1>2, FabricNextType
  <1>3. CASE UNCHANGED vars
    BY <1>3 DEF TypeInv, TypeOK, FabricTypeOK, OpsBuilt, WaitersPolled, vars, fabricVars,
       executorVars, callVars, netVars, pollVars
  <1>4. QED
    BY <1>1, <1>2, <1>3 DEF Next

\* The inductive invariant of type correctness holds in every behaviour.
THEOREM TypeInvariant == Spec => []TypeInv
  BY InitTypeInv, TypeInvStep, PTL DEF Spec

\* Every variable of the fabric and of the executor keeps its type: in particular
\* inflight_args never holds a zero or a negative count, and every result id that
\* is handed out, queued, sent or awaited is in range.
THEOREM TypeCorrect == Spec => []TypeOK
  <1>1. TypeInv => TypeOK
    BY DEF TypeInv
  <1>2. QED
    BY TypeInvariant, <1>1, PTL

-----------------------------------------------------------------------------
(* Delivery: what a handle holds is the result it awaits.  The property is  *)
(* not inductive: a later write to the result must also reach the handle,   *)
(* which it does because a filled handle stays among the waiters.           *)

\* A filled handle was polled, is still registered for the result it awaits, and
\* holds that result.
Filled ==
    \A h \in Handles : buffer[h] # <<>> =>
        /\ awaits[h] # <<>>
        /\ h \in waiters[awaits[h][1]]
        /\ buffer[h] = results[awaits[h][1]]

\* Committing a result, over an earlier value too, keeps Filled: every handle that
\* was filled with this result is filled again.
LEMMA InsertFilled ==
    ASSUME TypeInv, Filled, NEW res \in Result, InsertResult(res),
           UNCHANGED <<awaits, waiters>>
    PROVE  Filled'
  <1>1. res.id \in ResultIds
    BY DEF Result
  <1>2. /\ results' = [results EXCEPT ![res.id] = <<res.val>>]
        /\ buffer' = [h \in Handles |-> IF h \in waiters[res.id] THEN <<res.val>>
                                        ELSE buffer[h]]
    BY DEF InsertResult, WakeWaiters
  <1>3. results'[res.id] = <<res.val>> /\ \A r \in ResultIds : r # res.id => results'[r] = results[r]
    BY <1>1, <1>2 DEF TypeInv, TypeOK
  <1>4. ASSUME NEW h \in Handles, buffer'[h] # <<>>
        PROVE  /\ awaits[h] # <<>>
               /\ h \in waiters[awaits[h][1]]
               /\ buffer'[h] = results'[awaits[h][1]]
    <2>1. CASE h \in waiters[res.id]
      <3>1. awaits[h] = <<res.id>>
        BY <1>1, <2>1 DEF TypeInv, WaitersPolled
      <3>2. awaits[h] # <<>> /\ awaits[h][1] = res.id
        BY <3>1, OptionIntro
      <3>3. QED
        BY <1>2, <1>3, <2>1, <3>2
    <2>2. CASE h \notin waiters[res.id]
      <3>1. buffer'[h] = buffer[h]
        BY <1>2, <2>2
      <3>2. /\ awaits[h] # <<>> /\ h \in waiters[awaits[h][1]]
            /\ buffer[h] = results[awaits[h][1]]
        BY <1>4, <3>1 DEF Filled
      <3>3. awaits[h][1] \in ResultIds
        BY <3>2, OptionElim DEF TypeInv, TypeOK, FabricTypeOK
      <3>4. awaits[h][1] # res.id
        BY <2>2, <3>2
      <3>5. QED
        BY <1>3, <3>1, <3>2, <3>3, <3>4
    <2>3. QED
      BY <2>1, <2>2
  <1>5. QED
    BY <1>4 DEF Filled

\* A waiter that comes after its result is filled with it at once.
LEMMA HandleNewWaiterFilled ==
    ASSUME TypeInv, Filled, HandleNewWaiter
    PROVE  Filled'
  <1> DEFINE h == Head(job_queue).handle
              r == awaits[h][1]
  <1>1. h \in Handles /\ awaits[h] # <<>>
    <2>1. /\ Head(job_queue) = job_queue[1] /\ 1 \in DOMAIN job_queue
          /\ Head(job_queue) \in ExecutorMessage /\ Head(job_queue).type = "NewWaiter"
      BY PopFacts DEF HandleNewWaiter
    <2>2. QED
      BY <2>1, MessageFacts DEF TypeInv, WaitersPolled
  <1>2. r \in ResultIds
    BY <1>1, OptionElim DEF TypeInv, TypeOK, FabricTypeOK
  <1>3. waiters' = [waiters EXCEPT ![r] = @ \cup {h}] /\ results' = results /\ awaits' = awaits
    BY DEF HandleNewWaiter, pollVars
  <1>4. h \in waiters'[r] /\ \A q \in ResultIds : waiters[q] \subseteq waiters'[q]
    BY <1>2, <1>3 DEF TypeInv, TypeOK
  <1>5. ASSUME NEW g \in Handles, buffer'[g] # <<>>
        PROVE  /\ awaits[g] # <<>>
               /\ g \in waiters'[awaits[g][1]]
               /\ buffer'[g] = results[awaits[g][1]]
    <2>1. CASE results[r] # <<>> /\ g \in waiters[r] \cup {h}
      <3>1. buffer'[g] = <<results[r][1]>>
        BY <2>1 DEF HandleNewWaiter, WakeWaiters
      <3>2. buffer'[g] = results[r]
        BY <1>2, <2>1, <3>1, OptionElim DEF TypeInv, TypeOK
      <3>3. awaits[g] # <<>> /\ awaits[g][1] = r
        <4>1. CASE g = h
          BY <1>1, <4>1
        <4>2. CASE g \in waiters[r]
          BY <1>2, <4>2, OptionIntro DEF TypeInv, WaitersPolled
        <4>3. QED
          BY <2>1, <4>1, <4>2
      <3>4. g \in waiters'[r]
        BY <1>2, <1>4, <2>1
      <3>5. QED
        BY <3>2, <3>3, <3>4
    <2>2. CASE ~(results[r] # <<>> /\ g \in waiters[r] \cup {h})
      <3>1. buffer'[g] = buffer[g]
        BY <2>2 DEF HandleNewWaiter, WakeWaiters
      <3>2. /\ awaits[g] # <<>> /\ g \in waiters[awaits[g][1]]
            /\ buffer[g] = results[awaits[g][1]]
        BY <1>5, <3>1 DEF Filled
      <3>3. awaits[g][1] \in ResultIds
        BY <3>2, OptionElim DEF TypeInv, TypeOK, FabricTypeOK
      <3>4. QED
        BY <1>4, <3>1, <3>2, <3>3
    <2>3. QED
      BY <2>1, <2>2
  <1>6. QED
    BY <1>3, <1>5 DEF Filled

\* The first poll of a handle finds it empty.
LEMMA PollRegisterFilled ==
    ASSUME TypeInv, Filled, UNCHANGED executorVars, NEW h \in Handles,
           NEW r \in ResultIds, NEW w \in Wakers, PollRegister(h, r, w)
    PROVE  Filled'
  <1>1. awaits[h] = <<>> /\ buffer[h] = <<>>
    BY DEF PollRegister, TypeInv, WaitersPolled, Filled
  <1>2. /\ buffer' = buffer /\ waiters' = waiters /\ results' = results
        /\ \A g \in Handles : g # h => awaits'[g] = awaits[g]
    BY DEF PollRegister, executorVars, TypeInv, TypeOK, FabricTypeOK
  <1>3. QED
    BY <1>1, <1>2 DEF Filled

\* Filled is inductive, relative to TypeInv.
LEMMA FilledStep == TypeInv /\ Filled /\ [Next]_vars => Filled'
  <1> SUFFICES ASSUME TypeInv, Filled, [Next]_vars PROVE Filled'
    OBVIOUS
  <1>1. CASE HandleNewResult
    <2>1. Head(batch) \in Result
      BY <1>1, TailFacts DEF HandleNewResult, TypeInv, TypeOK
    <2>2. QED
      BY <1>1, <2>1, InsertFilled DEF HandleNewResult, pollVars
  <1>2. CASE InsertProduced
    <2>1. Head(produced) \in Result
      BY <1>2, TailFacts DEF InsertProduced, TypeInv, TypeOK
    <2>2. QED
      BY <1>2, <2>1, InsertFilled DEF InsertProduced, pollVars
  <1>3. CASE HandleNewWaiter
    BY <1>3, HandleNewWaiterFilled
  <1>4. CASE PopResults \/ AppendReadyOp \/ ComputeResult \/ HandleNewOperation \/ HandleShutdown
    <2>1. UNCHANGED <<buffer, awaits, waiters, results>>
      BY <1>4 DEF PopResults, AppendReadyOp, ComputeResult, HandleNewOperation,
         HandleShutdown, fabricVars, pollVars
    <2>2. QED
      BY <2>1 DEF Filled
  <1>5. ASSUME NEW h \in Handles, NEW r \in ResultIds, NEW w \in Wakers,
               PollRegister(h, r, w), UNCHANGED executorVars
        PROVE  Filled'
    BY <1>5, PollRegisterFilled
  <1>6. ASSUME NEW t \in Threads, UNCHANGED executorVars,
               \/ CallStep(t) \/ ReceiveValue(t)
               \/ \E n \in 1 .. MaxArity : AllocateIds(t, n)
               \/ \E args \in ArgLists(returned), arity \in 1 .. MaxArity, type \in OpTypes :
                    NewOpResultIds(t, args, arity, type)
        PROVE  Filled'
    <2>1. UNCHANGED <<buffer, awaits, waiters, results>>
      BY <1>6 DEF CallStep, AllocatePush, NewOpId, NewOpPush, ReceiveValue, AllocateIds,
         NewOpResultIds, executorVars, pollVars
    <2>2. QED
      BY <2>1 DEF Filled
  <1>7. ASSUME UNCHANGED executorVars,
               \/ Shutdown
               \/ \E r \in ResultIds : ReadLoop(r)
               \/ \E h \in Handles : PollRead(h) \/ \E w \in Wakers : PollAgain(h, w)
        PROVE  Filled'
    <2>1. UNCHANGED <<buffer, awaits, waiters, results>>
      BY <1>7 DEF Shutdown, ReadLoop, PollRead, PollAgain, executorVars, pollVars
    <2>2. QED
      BY <2>1 DEF Filled
  <1>8. CASE UNCHANGED vars
    <2>1. UNCHANGED <<buffer, awaits, waiters, results>>
      BY <1>8 DEF vars, fabricVars, executorVars, pollVars
    <2>2. QED
      BY <2>1 DEF Filled
  <1>9. CASE FabricNext /\ UNCHANGED executorVars
    BY <1>5, <1>6, <1>7, <1>9 DEF FabricNext
  <1>10. QED
    BY <1>1, <1>2, <1>3, <1>4, <1>8, <1>9 DEF Next, ExecutorNext

\* A filled handle holds the result it awaits, whatever the order in which the
\* result was inserted (by a batch, an early message or a gate), the waiter was
\* registered and the handle was polled.
THEOREM Delivery == Spec => []DeliveredIsResult
  <1>1. Init => Filled
    BY DEF Init, FabricInit, Filled
  <1>2. Filled => DeliveredIsResult
    BY DEF Filled, DeliveredIsResult
  <1>3. QED
    BY TypeInvariant, <1>1, <1>2, FilledStep, PTL DEF Spec

-----------------------------------------------------------------------------
(***************************************************************************)
(* The single threaded executor never fails an unwrap, counts the missing   *)
(* arguments of every operation exactly, sends every payload once and       *)
(* implements the abstract dataflow graph: for any circuit, any number of   *)
(* threads that build it and any order of the network's messages.           *)
(*                                                                          *)
(* The argument is about uniqueness.  A result id has one origin and is     *)
(* announced once, an operation is in one place on its way from the thread  *)
(* that builds it to its execution, and the registrations of an operation   *)
(* in the dependency map are its uses of each result; so the scans that an  *)
(* operation still has to see are its missing arguments.                    *)
(***************************************************************************)

-----------------------------------------------------------------------------
(* Where result ids are. *)

\* The results on their way to the executor: those of the current job, then those
\* of every job in the queue.
Stream(i) ==
    IF i = 0 THEN batch
    ELSE IF job_queue[i].type = "Results" THEN job_queue[i].results ELSE <<>>
Streams == 0 .. Len(job_queue)
StreamIds == UNION {{Stream(i)[k].id : k \in DOMAIN Stream(i)} : i \in Streams}

\* The ids whose value was handled, computed or sent.
Made ==
    {r \in ResultIds : results[r] # <<>>}
        \cup {produced[j].id : j \in DOMAIN produced}
        \cup {outbound[i].id : i \in DOMAIN outbound}

-----------------------------------------------------------------------------
(* Where operations are. *)

InJob(i, o)  == job_queue[i].type = "Op" /\ job_queue[i].op = o
InOps(o)     == \E i \in DOMAIN ops_queue : ops_queue[i] = o

\* The executor has not seen the operation.
Untouched(o) ==
    inflight_args[o] = <<>> /\ ~InOps(o) /\ \A r \in ResultIds : ~Has(dependencies[r], o)

\* The operation was built and not yet computed.
Waiting(o) ==
    \/ \E t \in Threads : InCall(t, o)
    \/ \E i \in DOMAIN job_queue : InJob(i, o)
    \/ inflight_args[o] # <<>>
    \/ InOps(o)

-----------------------------------------------------------------------------
(* The inductive invariant. *)

\* An id that a thread took, an operation's output and a result on its way have no
\* id in common, and none of them was handled before.
IdInv ==
    /\ \A t \in Threads : CallIds(t) \subseteq Own
    /\ \A t, u \in Threads : t # u => CallIds(t) \cap CallIds(u) = {}
    /\ \A o \in OpIds : Out(o) \subseteq Own
    /\ \A o, p \in OpIds : o # p => Out(o) \cap Out(p) = {}
    /\ \A t \in Threads, o \in OpIds : CallIds(t) \cap Out(o) = {}
    /\ StreamIds \subseteq Known
    /\ \A t \in Threads : CallIds(t) \cap StreamIds = {}
    /\ \A o \in OpIds : Out(o) \cap StreamIds = {}
    /\ Made \subseteq Known
    /\ Made \cap StreamIds = {}
    /\ \A t \in Threads : CallIds(t) \cap Made = {}
    /\ \A o \in OpIds : Waiting(o) => Out(o) \cap Made = {}

\* No result is on its way twice, and those of an operation come one after the other.
StreamInv ==
    /\ \A i, j \in Streams : \A k \in DOMAIN Stream(i), l \in DOMAIN Stream(j) :
          Stream(i)[k].id = Stream(j)[l].id => i = j /\ k = l
    /\ \A j \in DOMAIN produced :
          results[produced[j].id] = <<>> /\ produced[j].id = produced[1].id + (j - 1)

\* An operation is in one place.
PlaceInv ==
    /\ \A o \in OpIds : o >= next_op_id => issued[o] = <<>>
    /\ \A o \in OpIds : issued[o] = <<>> => Untouched(o)
    /\ \A t, u \in Threads, o \in OpIds : InCall(t, o) /\ InCall(u, o) => t = u
    /\ \A i, j \in DOMAIN job_queue, o \in OpIds : InJob(i, o) /\ InJob(j, o) => i = j
    /\ \A i, j \in DOMAIN ops_queue : ops_queue[i] = ops_queue[j] => i = j
    /\ \A t \in Threads, o \in OpIds : InCall(t, o) =>
          Untouched(o) /\ \A i \in DOMAIN job_queue : ~InJob(i, o)
    /\ \A i \in DOMAIN job_queue, o \in OpIds : InJob(i, o) => Untouched(o)
    /\ \A o \in OpIds : InOps(o) => inflight_args[o] = <<>>

\* A buffered operation is registered once per use; one that is not buffered will
\* not be scanned again; one that is ready has its arguments.
CountInv ==
    /\ \A o \in OpIds : inflight_args[o] # <<>> =>
          \A r \in ResultIds : Count(dependencies[r], o) = Uses(issued[o][1].args, r)
    /\ \A o \in OpIds : inflight_args[o] = <<>> =>
          /\ ~Has(scan, o)
          /\ \A r \in ResultIds : Has(dependencies[r], o) => r \in Announced
    /\ \A o \in OpIds : InOps(o) =>
          \A k \in DOMAIN issued[o][1].args : issued[o][1].args[k] \in Announced

DispatchInv ==
    IdInv /\ StreamInv /\ PlaceInv /\ CountInv /\ InflightExact /\ SentOnce /\ NoPanic

-----------------------------------------------------------------------------
(* How the streams of results change. *)

\* A job at the end of the queue adds its results behind all others.
LEMMA StreamPush ==
    ASSUME TypeInv, NEW m \in ExecutorMessage, NEW src, NEW last,
           src = IF m.type = "Results" THEN m.results ELSE <<>>,
           last = Len(job_queue) + 1,
           job_queue' = Append(job_queue, m), batch' = batch
    PROVE  /\ last \in Nat /\ Streams' = Streams \cup {last} /\ last \notin Streams
           /\ \A i \in Streams : Stream(i)' = Stream(i)
           /\ Stream(last)' = src
           /\ StreamIds' = StreamIds \cup {src[k].id : k \in DOMAIN src}
  <1>1. /\ Len(job_queue) \in Nat /\ Len(job_queue') = last
        /\ \A i \in 1 .. Len(job_queue) : job_queue'[i] = job_queue[i]
        /\ job_queue'[last] = m /\ last # 0
    BY DEF TypeInv, TypeOK, FabricTypeOK
  <1>2. Streams' = Streams \cup {last} /\ last \notin Streams
    BY <1>1 DEF Streams
  <1>3. \A i \in Streams : Stream(i)' = Stream(i)
    BY <1>1 DEF Streams, Stream
  <1>4. Stream(last)' = src
    BY <1>1 DEF Stream
  <1>5. StreamIds' = StreamIds \cup {src[k].id : k \in DOMAIN src}
    <2>1. ASSUME NEW x PROVE x \in StreamIds' <=>
                             x \in StreamIds \cup {src[k].id : k \in DOMAIN src}
      <3>1. x \in StreamIds' <=> \E i \in Streams' : \E k \in DOMAIN Stream(i)' : x = Stream(i)'[k].id
        BY DEF StreamIds
      <3>2. x \in StreamIds <=> \E i \in Streams : \E k \in DOMAIN Stream(i) : x = Stream(i)[k].id
        BY DEF StreamIds
      <3>3. QED
        BY <3>1, <3>2, <1>2, <1>3, <1>4
    <2>2. QED
      BY <2>1
  <1>6. QED
    BY <1>1, <1>2, <1>3, <1>4, <1>5

\* A job that the executor pops becomes its current one; the others move up.
LEMMA StreamPop ==
    ASSUME TypeInv, NEW type, Pops(type),
           batch' = IF type = "Results" THEN Head(job_queue).results ELSE <<>>
    PROVE  /\ \A i \in Streams' : i \in Nat /\ i + 1 \in Streams /\ Stream(i)' = Stream(i + 1)
           /\ StreamIds' \subseteq StreamIds
  <1>1. /\ Head(job_queue) = job_queue[1] /\ job_queue[1].type = type
        /\ Len(job_queue) \in Nat \ {0} /\ Len(job_queue') = Len(job_queue) - 1
        /\ \A i \in 1 .. Len(job_queue) - 1 : job_queue'[i] = job_queue[i + 1]
    BY DEF TypeInv, TypeOK, FabricTypeOK, Pops
  <1>2. ASSUME NEW i \in Streams' PROVE i \in Nat /\ i + 1 \in Streams /\ Stream(i)' = Stream(i + 1)
    <2>1. i \in 0 .. Len(job_queue) - 1
      BY <1>1 DEF Streams
    <2>2. i \in Nat /\ i + 1 \in Streams /\ i + 1 # 0
      BY <2>1, <1>1 DEF Streams
    <2>3. CASE i = 0
      <3>1. Stream(i)' = batch' /\ i + 1 = 1
        BY <2>3 DEF Stream
      <3>2. Stream(1) = IF job_queue[1].type = "Results" THEN job_queue[1].results ELSE <<>>
        BY DEF Stream
      <3>3. QED
        BY <2>2, <3>1, <3>2, <1>1
    <2>4. CASE i # 0
      <3>1. i \in 1 .. Len(job_queue) - 1
        BY <2>1, <2>4, <1>1
      <3>2. job_queue'[i] = job_queue[i + 1]
        BY <3>1, <1>1
      <3>3. QED
        BY <2>2, <2>4, <3>2 DEF Stream
    <2>5. QED
      BY <2>2, <2>3, <2>4
  <1>3. ASSUME NEW x \in StreamIds' PROVE x \in StreamIds
    <2>1. PICK i \in Streams' : \E k \in DOMAIN Stream(i)' : x = Stream(i)'[k].id
      BY DEF StreamIds
    <2>2. \E k \in DOMAIN Stream(i + 1) : x = Stream(i + 1)[k].id
      BY <2>1, <1>2
    <2>3. QED
      BY <2>2, <1>2 DEF StreamIds
  <1>4. QED
    BY <1>2, <1>3

\* Operations in the queue, after a push and after a pop.
LEMMA JobPush ==
    ASSUME TypeInv, NEW m \in ExecutorMessage, job_queue' = Append(job_queue, m),
           NEW last, last = Len(job_queue) + 1
    PROVE  /\ \A i \in DOMAIN job_queue, o \in OpIds : i # last /\ (InJob(i, o)' <=> InJob(i, o))
           /\ \A i \in DOMAIN job_queue' : i \in DOMAIN job_queue \/ i = last
           /\ \A i \in DOMAIN job_queue : i \in DOMAIN job_queue'
           /\ last \in DOMAIN job_queue'
           /\ \A o \in OpIds : InJob(last, o)' <=> m.type = "Op" /\ m.op = o
  <1>1. /\ Len(job_queue) \in Nat /\ DOMAIN job_queue = 1 .. Len(job_queue)
        /\ DOMAIN job_queue' = 1 .. last
        /\ \A i \in 1 .. Len(job_queue) : job_queue'[i] = job_queue[i]
        /\ job_queue'[last] = m
    BY DEF TypeInv, TypeOK, FabricTypeOK
  <1>2. QED
    BY <1>1 DEF InJob

\* The queue after its first job was taken: every other job moved up.
LEMMA JobPop ==
    ASSUME TypeInv, NEW type, Pops(type)
    PROVE  /\ \A i \in DOMAIN job_queue' : i \in Nat /\ i # 0 /\ i + 1 \in DOMAIN job_queue
           /\ \A i \in DOMAIN job_queue', o \in OpIds : InJob(i, o)' <=> InJob(i + 1, o)
           /\ 1 \in DOMAIN job_queue /\ Head(job_queue) = job_queue[1]
           /\ \A o \in OpIds : InJob(1, o) <=> type = "Op" /\ Head(job_queue).op = o
  <1>1. /\ Len(job_queue) \in Nat \ {0} /\ DOMAIN job_queue = 1 .. Len(job_queue)
        /\ DOMAIN job_queue' = 1 .. Len(job_queue) - 1
        /\ \A i \in 1 .. Len(job_queue) - 1 : job_queue'[i] = job_queue[i + 1]
        /\ Head(job_queue) = job_queue[1] /\ job_queue[1].type = type
    BY DEF TypeInv, TypeOK, FabricTypeOK, Pops
  <1>2. QED
    BY <1>1 DEF InJob

-----------------------------------------------------------------------------
(* Steps that leave a part of the invariant alone. *)

\* Ids may leave the places where they are counted.
LEMMA IdFrame ==
    ASSUME IdInv, Own \subseteq Own', Known \subseteq Known',
           \A t \in Threads : CallIds(t)' \subseteq CallIds(t),
           \A o \in OpIds : Out(o)' = Out(o),
           StreamIds' \subseteq StreamIds, Made' \subseteq Made,
           \A o \in OpIds : Waiting(o)' => Waiting(o)
    PROVE  IdInv'
  <1> USE DEF IdInv
  <1>1. \A t \in Threads : CallIds(t)' \subseteq Own'
    OBVIOUS
  <1>2. \A t, u \in Threads : t # u => CallIds(t)' \cap CallIds(u)' = {}
    OBVIOUS
  <1>3. /\ \A o \in OpIds : Out(o)' \subseteq Own'
        /\ \A o, p \in OpIds : o # p => Out(o)' \cap Out(p)' = {}
    OBVIOUS
  <1>4. \A t \in Threads, o \in OpIds : CallIds(t)' \cap Out(o)' = {}
    OBVIOUS
  <1>5. StreamIds' \subseteq Known' /\ Made' \subseteq Known' /\ Made' \cap StreamIds' = {}
    OBVIOUS
  <1>6. \A t \in Threads : CallIds(t)' \cap StreamIds' = {} /\ CallIds(t)' \cap Made' = {}
    OBVIOUS
  <1>7. \A o \in OpIds : Out(o)' \cap StreamIds' = {}
    OBVIOUS
  <1>8. \A o \in OpIds : Waiting(o)' => Out(o)' \cap Made' = {}
    OBVIOUS
  <1>9. QED
    BY <1>1, <1>2, <1>3, <1>4, <1>5, <1>6, <1>7, <1>8

\* The streams, when no result joins them.
LEMMA StreamFrame ==
    ASSUME TypeInv, StreamInv, UNCHANGED <<produced, results>>,
           \/ \E m \in ExecutorMessage : /\ m.type # "Results"
                                         /\ job_queue' = Append(job_queue, m) /\ batch' = batch
           \/ UNCHANGED <<job_queue, batch>>
    PROVE  StreamInv' /\ StreamIds' = StreamIds
  <1>1. CASE \E m \in ExecutorMessage : /\ m.type # "Results"
                                        /\ job_queue' = Append(job_queue, m) /\ batch' = batch
    <2>1. PICK m \in ExecutorMessage : /\ m.type # "Results"
                                       /\ job_queue' = Append(job_queue, m) /\ batch' = batch
      BY <1>1
    <2>2. PICK last : last = Len(job_queue) + 1
      OBVIOUS
    <2>3. /\ Streams' = Streams \cup {last} /\ last \notin Streams
          /\ \A i \in Streams : Stream(i)' = Stream(i)
          /\ Stream(last)' = <<>>
          /\ StreamIds' = StreamIds \cup {<<>>[k].id : k \in DOMAIN <<>>}
      BY <2>1, <2>2, StreamPush
    <2>4. StreamIds' = StreamIds
      BY <2>3
    <2>5. DOMAIN Stream(last)' = {}
      BY <2>3
    <2>6. QED
      BY <2>3, <2>4, <2>5 DEF StreamInv
  <1>2. CASE UNCHANGED <<job_queue, batch>>
    <2>1. Streams' = Streams /\ \A i \in Streams : Stream(i)' = Stream(i)
      BY <1>2 DEF Streams, Stream
    <2>2. StreamIds' = StreamIds
      BY <2>1 DEF StreamIds
    <2>3. QED
      BY <2>1, <2>2 DEF StreamInv
  <1>3. QED
    BY <1>1, <1>2

\* The streams, when the executor pops a job.
LEMMA StreamPopInv ==
    ASSUME TypeInv, StreamInv, NEW type, Pops(type), UNCHANGED <<produced, results>>,
           batch' = IF type = "Results" THEN Head(job_queue).results ELSE <<>>
    PROVE  StreamInv' /\ StreamIds' \subseteq StreamIds
  <1>1. /\ \A i \in Streams' : i \in Nat /\ i + 1 \in Streams /\ Stream(i)' = Stream(i + 1)
        /\ StreamIds' \subseteq StreamIds
    BY StreamPop
  <1>2. ASSUME NEW i \in Streams', NEW j \in Streams',
               NEW k \in DOMAIN Stream(i)', NEW l \in DOMAIN Stream(j)',
               Stream(i)'[k].id = Stream(j)'[l].id
        PROVE  i = j /\ k = l
    <2>1. i + 1 = j + 1 /\ k = l
      BY <1>1, <1>2 DEF StreamInv
    <2>2. QED
      BY <2>1, <1>1
  <1>3. QED
    BY <1>1, <1>2 DEF StreamInv

\* The counts, when no scan begins or goes on and no operation is registered.
LEMMA CountFrame ==
    ASSUME CountInv, InflightExact,
           UNCHANGED <<issued, inflight_args, dependencies, scan, ops_queue, results, produced>>
    PROVE  CountInv' /\ InflightExact'
  <1>1. Announced' = Announced
    BY DEF Announced
  <1>2. CountInv'
    BY <1>1 DEF CountInv, InOps, Has, Count
  <1>3. InflightExact'
    BY <1>1 DEF InflightExact
  <1>4. QED
    BY <1>2, <1>3

\* The places of operations, when none is built, moved or computed.
LEMMA PlaceFrame ==
    ASSUME TypeInv, PlaceInv,
           UNCHANGED <<next_op_id, issued, inflight_args, dependencies, ops_queue>>,
           \A t \in Threads, o \in OpIds : InCall(t, o)' => InCall(t, o),
           \/ \E m \in ExecutorMessage : m.type # "Op" /\ job_queue' = Append(job_queue, m)
           \/ \E type : type # "Op" /\ Pops(type)
           \/ UNCHANGED job_queue
    PROVE  PlaceInv' /\ \A o \in OpIds : Waiting(o)' => Waiting(o)
  <1>1. /\ \A o \in OpIds : Untouched(o)' <=> Untouched(o)
        /\ \A o \in OpIds : InOps(o)' <=> InOps(o)
    BY DEF Untouched, InOps, Has
  <1>2. \A i \in DOMAIN job_queue', o \in OpIds : InJob(i, o)' => \E j \in DOMAIN job_queue : InJob(j, o)
    <2>1. CASE \E m \in ExecutorMessage : m.type # "Op" /\ job_queue' = Append(job_queue, m)
      <3>1. PICK m \in ExecutorMessage : m.type # "Op" /\ job_queue' = Append(job_queue, m)
        BY <2>1
      <3>2. PICK last : last = Len(job_queue) + 1
        OBVIOUS
      <3>3. QED
        BY <3>1, <3>2, JobPush
    <2>2. CASE \E type : type # "Op" /\ Pops(type)
      BY <2>2, JobPop
    <2>3. CASE UNCHANGED job_queue
      BY <2>3 DEF InJob
    <2>4. QED
      BY <2>1, <2>2, <2>3
  <1>3. \A i, j \in DOMAIN job_queue', o \in OpIds : InJob(i, o)' /\ InJob(j, o)' => i = j
    <2>1. CASE \E m \in ExecutorMessage : m.type # "Op" /\ job_queue' = Append(job_queue, m)
      <3>1. PICK m \in ExecutorMessage : m.type # "Op" /\ job_queue' = Append(job_queue, m)
        BY <2>1
      <3>2. PICK last : last = Len(job_queue) + 1
        OBVIOUS
      <3>3. QED
        BY <3>1, <3>2, JobPush DEF PlaceInv
    <2>2. CASE \E type : type # "Op" /\ Pops(type)
      <3>1. ASSUME NEW i \in DOMAIN job_queue', NEW j \in DOMAIN job_queue', NEW o \in OpIds,
                   InJob(i, o)', InJob(j, o)'
            PROVE  i = j
        <4>1. i + 1 \in DOMAIN job_queue /\ j + 1 \in DOMAIN job_queue /\ i \in Nat /\ j \in Nat
          BY <2>2, JobPop
        <4>2. InJob(i + 1, o) /\ InJob(j + 1, o)
          BY <2>2, <3>1, JobPop
        <4>3. i + 1 = j + 1
          BY <4>1, <4>2 DEF PlaceInv
        <4>4. QED
          BY <4>1, <4>3
      <3>2. QED
        BY <3>1
    <2>3. CASE UNCHANGED job_queue
      BY <2>3 DEF InJob, PlaceInv
    <2>4. QED
      BY <2>1, <2>2, <2>3
  <1>4. PlaceInv'
    BY <1>1, <1>2, <1>3 DEF PlaceInv
  <1>5. \A o \in OpIds : Waiting(o)' => Waiting(o)
    BY <1>1, <1>2 DEF Waiting
  <1>6. QED
    BY <1>4, <1>5

-----------------------------------------------------------------------------
(* The steps of the application and of the network. *)

\* What the executor has made does not change when it does not take a step.
LEMMA ExecutorIdle ==
    ASSUME DispatchInv, UNCHANGED executorVars, UNCHANGED outbound
    PROVE  /\ Made' = Made /\ SentOnce' /\ NoPanic'
           /\ UNCHANGED issued => CountInv' /\ InflightExact'
  <1>1. Made' = Made /\ SentOnce' /\ NoPanic'
    BY DEF DispatchInv, Made, SentOnce, NoPanic, executorVars
  <1>2. UNCHANGED issued => CountInv' /\ InflightExact'
    BY CountFrame DEF DispatchInv, executorVars
  <1>3. QED
    BY <1>1, <1>2

\* A step that neither takes an id for this party nor brings a result or an operation.
LEMMA QuietStep ==
    ASSUME TypeInv, DispatchInv, UNCHANGED executorVars,
           UNCHANGED <<next_op_id, call, issued, remote, arrived, outbound>>,
           next_result_id' \in Nat, next_result_id <= next_result_id',
           \/ \E m \in ExecutorMessage : /\ m.type \notin {"Results", "Op"}
                                         /\ job_queue' = Append(job_queue, m)
           \/ UNCHANGED job_queue
    PROVE  DispatchInv'
  <1>1. IdInv /\ StreamInv /\ PlaceInv
    BY DEF DispatchInv
  <1>2. Made' = Made /\ SentOnce' /\ NoPanic' /\ CountInv' /\ InflightExact'
    BY ExecutorIdle
  <1>3. StreamInv' /\ StreamIds' = StreamIds
    BY <1>1, StreamFrame DEF executorVars
  <1>4. \A t \in Threads, o \in OpIds : InCall(t, o)' => InCall(t, o)
    BY DEF InCall
  <1>5. PlaceInv' /\ \A o \in OpIds : Waiting(o)' => Waiting(o)
    BY <1>1, <1>4, PlaceFrame DEF executorVars
  <1>6. /\ \A t \in Threads : CallIds(t)' = CallIds(t)
        /\ \A o \in OpIds : Out(o)' = Out(o)
    BY DEF CallIds, Out
  <1>7. Own \subseteq Own' /\ Known \subseteq Known'
    BY FabricAssumption DEF TypeInv, TypeOK, FabricTypeOK, Own, Known
  <1>8. IdInv'
    BY <1>1, <1>2, <1>3, <1>5, <1>6, <1>7, IdFrame
  <1>9. QED
    BY <1>2, <1>3, <1>5, <1>8 DEF DispatchInv

\* Polling a handle, awaiting a result of the peer's and shutting down are quiet.
LEMMA QuietActions ==
    ASSUME TypeInv, DispatchInv, UNCHANGED executorVars,
           \/ Shutdown
           \/ \E t \in Threads : ReceiveValue(t)
           \/ \E h \in Handles : \/ PollRead(h)
                                 \/ \E r \in ResultIds, w \in Wakers : PollRegister(h, r, w)
                                 \/ \E w \in Wakers : PollAgain(h, w)
    PROVE  DispatchInv'
  <1>1. next_result_id \in Nat
    BY FabricAssumption DEF TypeInv, TypeOK, FabricTypeOK
  <1>2. CASE Shutdown
    <2>1. ShutdownMsg \in ExecutorMessage /\ ShutdownMsg.type = "Shutdown"
      BY DEF ShutdownMsg, ExecutorMessage
    <2>2. QED
      BY <1>1, <1>2, <2>1, QuietStep DEF Shutdown, Push, callVars, netVars
  <1>3. CASE \E t \in Threads : ReceiveValue(t)
    BY <1>1, <1>3, QuietStep DEF ReceiveValue, netVars
  <1>4. CASE \E h \in Handles : PollRead(h) \/ \E w \in Wakers : PollAgain(h, w)
    BY <1>1, <1>4, QuietStep DEF PollRead, PollAgain, callVars, netVars
  <1>5. CASE \E h \in Handles, r \in ResultIds, w \in Wakers : PollRegister(h, r, w)
    <2>1. PICK h \in Handles, r \in ResultIds, w \in Wakers : PollRegister(h, r, w)
      BY <1>5
    <2>2. WaiterMsg(h) \in ExecutorMessage /\ WaiterMsg(h).type = "NewWaiter"
      BY DEF WaiterMsg, ExecutorMessage
    <2>3. QED
      BY <1>1, <2>1, <2>2, QuietStep DEF PollRegister, Push, callVars, netVars
  <1>6. QED
    BY <1>2, <1>3, <1>4, <1>5

\* A call that takes fresh ids.
LEMMA TakeIds ==
    ASSUME TypeInv, DispatchInv, UNCHANGED executorVars, NEW t \in Threads,
           NEW n \in 1 .. MaxArity, TakeResultIds(n),
           CallIds(t)' = next_result_id .. next_result_id + n - 1,
           \A u \in Threads \ {t} : CallIds(u)' = CallIds(u),
           \A u \in Threads, o \in OpIds : InCall(u, o)' => InCall(u, o),
           UNCHANGED <<next_op_id, issued, remote, arrived, job_queue, outbound>>
    PROVE  DispatchInv'
  <1> DEFINE new == next_result_id .. next_result_id + n - 1
  <1>1. IdInv /\ StreamInv /\ PlaceInv
    BY DEF DispatchInv
  <1>2. Made' = Made /\ SentOnce' /\ NoPanic' /\ CountInv' /\ InflightExact'
    BY ExecutorIdle
  <1>3. StreamInv' /\ StreamIds' = StreamIds
    BY <1>1, StreamFrame DEF executorVars
  <1>4. PlaceInv' /\ \A o \in OpIds : Waiting(o)' => Waiting(o)
    BY <1>1, PlaceFrame DEF executorVars
  <1>5. \A o \in OpIds : Out(o)' = Out(o)
    BY DEF Out
  <1>6. Own' = Own \cup new /\ Known' = Known \cup new /\ new \cap Known = {}
    <2>1. /\ next_result_id \in Nat /\ n \in Nat /\ next_result_id' = next_result_id + n
          /\ new \cap remote = {} /\ remote' = remote /\ arrived' = arrived /\ arrived \subseteq remote
      BY FabricAssumption DEF TypeInv, TypeOK, FabricTypeOK, TakeResultIds
    <2>2. 0 .. next_result_id' - 1 = (0 .. next_result_id - 1) \cup new
      BY <2>1
    <2>3. (0 .. next_result_id - 1) \cap new = {}
      BY <2>1
    <2> HIDE DEF new
    <2>4. QED
      BY <2>1, <2>2, <2>3 DEF Own, Known
  <1> HIDE DEF new
  <1>7. CallIds(t)' = new
    BY DEF new
  <1>8. Own \subseteq Known
    BY DEF Known
  <1>9. IdInv'
    <2> USE <1>1, <1>2, <1>3, <1>4, <1>5, <1>6, <1>7, <1>8 DEF IdInv
    <2>1. \A u \in Threads : CallIds(u)' \subseteq Own'
      OBVIOUS
    <2>2. \A u, v \in Threads : u # v => CallIds(u)' \cap CallIds(v)' = {}
      <3>1. \A u \in Threads \ {t} : new \cap CallIds(u) = {}
        OBVIOUS
      <3>2. QED
        BY <3>1
    <2>3. /\ \A o \in OpIds : Out(o)' \subseteq Own'
          /\ \A o, p \in OpIds : o # p => Out(o)' \cap Out(p)' = {}
      OBVIOUS
    <2>4. \A u \in Threads, o \in OpIds : CallIds(u)' \cap Out(o)' = {}
      <3>1. \A o \in OpIds : new \cap Out(o) = {}
        OBVIOUS
      <3>2. QED
        BY <3>1
    <2>5. StreamIds' \subseteq Known' /\ Made' \subseteq Known' /\ Made' \cap StreamIds' = {}
      OBVIOUS
    <2>6. \A u \in Threads : CallIds(u)' \cap StreamIds' = {} /\ CallIds(u)' \cap Made' = {}
      <3>1. new \cap StreamIds = {} /\ new \cap Made = {}
        OBVIOUS
      <3>2. QED
        BY <3>1
    <2>7. \A o \in OpIds : Out(o)' \cap StreamIds' = {}
      OBVIOUS
    <2>8. \A o \in OpIds : Waiting(o)' => Out(o)' \cap Made' = {}
      OBVIOUS
    <2>9. QED
      BY <2>1, <2>2, <2>3, <2>4, <2>5, <2>6, <2>7, <2>8
  <1>10. QED
    BY <1>2, <1>3, <1>4, <1>9 DEF DispatchInv

\* allocate_value(s) and new_op take their ids.
LEMMA AllocateIdsStep ==
    ASSUME TypeInv, DispatchInv, UNCHANGED executorVars, NEW t \in Threads,
           NEW n \in 1 .. MaxArity, AllocateIds(t, n)
    PROVE  DispatchInv'
  <1> DEFINE c == [step |-> "push", first |-> next_result_id, n |-> n]
  <1>1. /\ call' = [call EXCEPT ![t] = <<c>>] /\ TakeResultIds(n)
        /\ UNCHANGED <<next_op_id, issued, remote, arrived, job_queue, outbound>>
    BY DEF AllocateIds, netVars
  <1>2. call'[t] = <<c>> /\ \A u \in Threads \ {t} : call'[u] = call[u]
    BY <1>1 DEF TypeInv, TypeOK, FabricTypeOK
  <1>3. CallIds(t)' = next_result_id .. next_result_id + n - 1
    BY <1>2 DEF CallIds
  <1>4. \A u \in Threads \ {t} : CallIds(u)' = CallIds(u)
    BY <1>2 DEF CallIds
  <1>5. \A u \in Threads, o \in OpIds : InCall(u, o)' => InCall(u, o)
    BY <1>2 DEF InCall
  <1>6. QED
    BY <1>1, <1>3, <1>4, <1>5, TakeIds

\* new_op takes the ids of its outputs.
LEMMA NewOpResultIdsStep ==
    ASSUME TypeInv, DispatchInv, UNCHANGED executorVars, NEW t \in Threads,
           NEW args, NEW arity \in 1 .. MaxArity, NEW type,
           NewOpResultIds(t, args, arity, type)
    PROVE  DispatchInv'
  <1> DEFINE b == [result_id |-> next_result_id, output_arity |-> arity,
                   args |-> args, op_type |-> type]
             c == [step |-> "op_id", body |-> b]
  <1>1. /\ call' = [call EXCEPT ![t] = <<c>>] /\ TakeResultIds(arity)
        /\ UNCHANGED <<next_op_id, issued, remote, arrived, job_queue, outbound>>
    BY DEF NewOpResultIds, netVars
  <1>2. call'[t] = <<c>> /\ \A u \in Threads \ {t} : call'[u] = call[u]
    BY <1>1 DEF TypeInv, TypeOK, FabricTypeOK
  <1>3. CallIds(t)' = next_result_id .. next_result_id + arity - 1
    BY <1>2 DEF CallIds, ResultIdsOf
  <1>4. \A u \in Threads \ {t} : CallIds(u)' = CallIds(u)
    BY <1>2 DEF CallIds
  <1>5. \A u \in Threads, o \in OpIds : InCall(u, o)' => InCall(u, o)
    BY <1>2 DEF InCall
  <1>6. QED
    BY <1>1, <1>3, <1>4, <1>5, TakeIds

\* Values that a thread allocated, or the peer sent, join the queue.
LEMMA SourcePush ==
    ASSUME TypeInv, DispatchInv, UNCHANGED executorVars, NEW first \in Nat, NEW n \in Nat,
           SourceResults(first, n) \in Seq(Result),
           job_queue' = Append(job_queue, ResultsMsg(SourceResults(first, n))),
           NEW new, new = first .. first + n - 1,
           Own \subseteq Own', Known \subseteq Known', new \subseteq Known',
           new \cap StreamIds = {}, new \cap Made = {}, \A o \in OpIds : new \cap Out(o) = {},
           \A u \in Threads : CallIds(u)' \subseteq CallIds(u) /\ CallIds(u)' \cap new = {},
           \A u \in Threads, o \in OpIds : InCall(u, o)' => InCall(u, o),
           UNCHANGED <<next_op_id, issued, outbound>>
    PROVE  DispatchInv'
  <1> DEFINE src == SourceResults(first, n)
             m == ResultsMsg(src)
  <1>1. IdInv /\ StreamInv /\ PlaceInv
    BY DEF DispatchInv
  <1>2. Made' = Made /\ SentOnce' /\ NoPanic' /\ CountInv' /\ InflightExact'
    BY ExecutorIdle
  <1>3. m \in ExecutorMessage /\ m.type = "Results" /\ m.results = src
    BY DEF ResultsMsg, ExecutorMessage
  <1>4. DOMAIN src = 1 .. n /\ \A k \in 1 .. n : src[k].id = first + k - 1
    BY DEF SourceResults
  <1>5. {src[k].id : k \in DOMAIN src} = new
    <2>1. ASSUME NEW x \in new PROVE \E k \in 1 .. n : src[k].id = x
      <3>1. x - first + 1 \in 1 .. n /\ first + (x - first + 1) - 1 = x
        OBVIOUS
      <3>2. QED
        BY <3>1, <1>4
    <2>2. \A k \in 1 .. n : src[k].id \in new
      BY <1>4
    <2> HIDE DEF src
    <2>3. {src[k].id : k \in 1 .. n} \subseteq new /\ new \subseteq {src[k].id : k \in 1 .. n}
      BY <2>1, <2>2
    <2>4. {src[k].id : k \in 1 .. n} = new
      BY <2>3
    <2>5. QED
      BY <1>4, <2>4
  <1>6. PICK last : last = Len(job_queue) + 1
    OBVIOUS
  <1> HIDE DEF src, m
  <1>7. /\ Streams' = Streams \cup {last} /\ last \notin Streams
        /\ \A i \in Streams : Stream(i)' = Stream(i)
        /\ Stream(last)' = src
        /\ StreamIds' = StreamIds \cup new
    <2>1. job_queue' = Append(job_queue, m) /\ batch' = batch
      BY DEF m, src, executorVars
    <2>2. QED
      BY <2>1, <1>3, <1>5, <1>6, StreamPush
  <1>8. StreamInv'
    <2>1. ASSUME NEW i \in Streams', NEW j \in Streams',
                 NEW k \in DOMAIN Stream(i)', NEW l \in DOMAIN Stream(j)',
                 Stream(i)'[k].id = Stream(j)'[l].id
          PROVE  i = j /\ k = l
      <3>1. \A x \in DOMAIN src : src[x].id \in new
        BY <1>5
      <3>2. \A x \in Streams : \A y \in DOMAIN Stream(x) : Stream(x)[y].id \in StreamIds
        BY DEF StreamIds
      <3>3. CASE i \in Streams /\ j \in Streams
        BY <3>3, <2>1, <1>7, <1>1 DEF StreamInv
      <3>4. CASE i = last /\ j = last
        BY <3>4, <2>1, <1>4, <1>7
      <3>5. CASE i \in Streams /\ j = last
        BY <3>1, <3>2, <3>5, <2>1, <1>7
      <3>6. CASE i = last /\ j \in Streams
        BY <3>1, <3>2, <3>6, <2>1, <1>7
      <3>7. QED
        BY <3>3, <3>4, <3>5, <3>6, <1>7
    <2>2. UNCHANGED <<produced, results>>
      BY DEF executorVars
    <2>3. QED
      BY <1>1, <2>1, <2>2 DEF StreamInv
  <1>9. PlaceInv' /\ \A o \in OpIds : Waiting(o)' => Waiting(o)
    <2>1. job_queue' = Append(job_queue, m) /\ m \in ExecutorMessage /\ m.type # "Op"
      BY <1>3 DEF m, src
    <2>2. QED
      BY <2>1, <1>1, PlaceFrame DEF executorVars
  <1>10. \A o \in OpIds : Out(o)' = Out(o)
    BY DEF Out
  <1>11. IdInv'
    <2> USE <1>1, <1>2, <1>7, <1>9, <1>10 DEF IdInv
    <2>1. \A u \in Threads : CallIds(u)' \subseteq Own'
      OBVIOUS
    <2>2. \A u, v \in Threads : u # v => CallIds(u)' \cap CallIds(v)' = {}
      OBVIOUS
    <2>3. /\ \A o \in OpIds : Out(o)' \subseteq Own'
          /\ \A o, p \in OpIds : o # p => Out(o)' \cap Out(p)' = {}
      OBVIOUS
    <2>4. \A u \in Threads, o \in OpIds : CallIds(u)' \cap Out(o)' = {}
      OBVIOUS
    <2>5. StreamIds' \subseteq Known' /\ Made' \subseteq Known' /\ Made' \cap StreamIds' = {}
      OBVIOUS
    <2>6. \A u \in Threads : CallIds(u)' \cap StreamIds' = {} /\ CallIds(u)' \cap Made' = {}
      OBVIOUS
    <2>7. \A o \in OpIds : Out(o)' \cap StreamIds' = {}
      OBVIOUS
    <2>8. \A o \in OpIds : Waiting(o)' => Out(o)' \cap Made' = {}
      OBVIOUS
    <2>9. QED
      BY <2>1, <2>2, <2>3, <2>4, <2>5, <2>6, <2>7, <2>8
  <1>12. QED
    BY <1>2, <1>8, <1>9, <1>11 DEF DispatchInv

\* allocate_value(s) hands its ids on to the queue.
LEMMA AllocatePushStep ==
    ASSUME TypeInv, DispatchInv, UNCHANGED executorVars, NEW t \in Threads, AllocatePush(t)
    PROVE  DispatchInv'
  <1> DEFINE c == call[t][1]
  <1>1. call[t] # <<>> /\ c \in Call /\ c.step = "push"
    BY OptionElim DEF AllocatePush, TypeInv, TypeOK, FabricTypeOK
  <1>2. /\ c.first \in Nat /\ c.n \in Nat /\ SourceResults(c.first, c.n) \in Seq(Result)
    <2>1. c.first \in ResultIds /\ c.n \in 1 .. MaxArity
      BY <1>1 DEF Call
    <2>2. SourceResults(c.first, c.n) \in Seq(Result)
      BY <1>1, CallPushFacts
    <2>3. c.first \in Nat
      BY <2>1, IdsAreNat
    <2>4. c.n \in Nat
      BY <2>1, FabricAssumption
    <2>5. QED
      BY <2>2, <2>3, <2>4
  <1>3. /\ job_queue' = Append(job_queue, ResultsMsg(SourceResults(c.first, c.n)))
        /\ call' = [call EXCEPT ![t] = <<>>]
        /\ UNCHANGED <<next_result_id, next_op_id, issued, remote, arrived, outbound>>
    BY DEF AllocatePush, Push, netVars
  <1>4. PICK new : new = c.first .. c.first + c.n - 1
    OBVIOUS
  <1>5. CallIds(t) = new
    BY <1>1, <1>4 DEF CallIds
  <1>6. call'[t] = <<>> /\ \A u \in Threads \ {t} : call'[u] = call[u]
    BY <1>3 DEF TypeInv, TypeOK, FabricTypeOK
  <1>7. CallIds(t)' = {} /\ \A u \in Threads \ {t} : CallIds(u)' = CallIds(u)
    BY <1>6 DEF CallIds
  <1>8. \A u \in Threads, o \in OpIds : InCall(u, o)' => InCall(u, o)
    BY <1>6 DEF InCall
  <1>9. Own' = Own /\ Known' = Known /\ Own \subseteq Known
    BY <1>3 DEF Own, Known
  <1>10. IdInv
    BY DEF DispatchInv
  <1>11. /\ new \subseteq Known' /\ new \cap StreamIds = {} /\ new \cap Made = {}
         /\ \A o \in OpIds : new \cap Out(o) = {}
         /\ \A u \in Threads : CallIds(u)' \subseteq CallIds(u) /\ CallIds(u)' \cap new = {}
    BY <1>5, <1>7, <1>9, <1>10 DEF IdInv
  <1>12. QED
    BY <1>2, <1>3, <1>4, <1>8, <1>9, <1>11, SourcePush

\* A message of the peer joins the queue, once.
LEMMA ReadLoopStep ==
    ASSUME TypeInv, DispatchInv, UNCHANGED executorVars, NEW r \in ResultIds, ReadLoop(r)
    PROVE  DispatchInv'
  <1>1. /\ r \in remote /\ r \notin arrived /\ arrived' = arrived \cup {r}
        /\ job_queue' = Append(job_queue, ResultsMsg(SourceResults(r, 1)))
        /\ UNCHANGED <<next_result_id, next_op_id, call, issued, remote, outbound>>
    BY DEF ReadLoop, Push, callVars
  <1>2. r \in Nat /\ r + 1 <= MaxResults /\ 1 \in Nat
    BY FabricAssumption DEF ResultIds
  <1>3. SourceResults(r, 1) \in Seq(Result)
    BY <1>2, SourceResultsType
  <1>4. PICK new : new = r .. r + 1 - 1
    OBVIOUS
  <1>5. new = {r}
    BY <1>2, <1>4
  <1>6. /\ Own' = Own /\ Known' = Known \cup {r} /\ r \notin Known
        /\ Own \subseteq Known
    BY <1>1 DEF Own, Known
  <1>7. /\ \A u \in Threads : CallIds(u)' = CallIds(u)
        /\ \A u \in Threads, o \in OpIds : InCall(u, o)' => InCall(u, o)
    BY <1>1 DEF CallIds, InCall
  <1>8. IdInv
    BY DEF DispatchInv
  <1>9. /\ new \subseteq Known' /\ new \cap StreamIds = {} /\ new \cap Made = {}
        /\ \A o \in OpIds : new \cap Out(o) = {}
        /\ \A u \in Threads : CallIds(u)' \subseteq CallIds(u) /\ CallIds(u)' \cap new = {}
    BY <1>5, <1>6, <1>7, <1>8 DEF IdInv
  <1>10. Own \subseteq Own' /\ Known \subseteq Known'
    BY <1>6
  <1>11. QED
    BY <1>1, <1>2, <1>3, <1>4, <1>7, <1>9, <1>10, SourcePush

\* new_op takes its op id and the operation is built.
LEMMA NewOpIdStep ==
    ASSUME TypeInv, DispatchInv, UNCHANGED executorVars, NEW t \in Threads, NewOpId(t)
    PROVE  DispatchInv'
  <1> DEFINE b == call[t][1].body
  <1>1. IdInv /\ StreamInv /\ PlaceInv /\ CountInv /\ InflightExact
    BY DEF DispatchInv
  <1>2. PICK q : q = next_op_id
    OBVIOUS
  <1>3. /\ q \in OpIds /\ q \in Nat /\ next_op_id' = q + 1
        /\ issued' = [issued EXCEPT ![q] = <<b>>]
        /\ call' = [call EXCEPT ![t] = <<[step |-> "push_op", op |-> q]>>]
        /\ call[t] # <<>> /\ call[t][1].step = "op_id"
        /\ UNCHANGED <<next_result_id, remote, arrived, job_queue, outbound>>
    BY <1>2, FabricAssumption DEF NewOpId, TypeInv, TypeOK, FabricTypeOK, OpIds, netVars
  <1>4. /\ call'[t] = <<[step |-> "push_op", op |-> q]>>
        /\ \A u \in Threads \ {t} : call'[u] = call[u]
        /\ issued'[q] = <<b>> /\ \A o \in OpIds \ {q} : issued'[o] = issued[o]
    BY <1>3 DEF TypeInv, TypeOK, FabricTypeOK
  <1>5. /\ CallIds(t)' = {} /\ CallIds(t) = ResultIdsOf(b)
        /\ \A u \in Threads \ {t} : CallIds(u)' = CallIds(u)
    BY <1>3, <1>4 DEF CallIds
  <1>6. Out(q)' = ResultIdsOf(b) /\ \A o \in OpIds \ {q} : Out(o)' = Out(o)
    BY <1>4 DEF Out
  <1>7. issued[q] = <<>> /\ Untouched(q)
    BY <1>1, <1>2, <1>3 DEF PlaceInv
  <1>8. /\ \A o \in OpIds : InCall(t, o)' <=> o = q
        /\ \A u \in Threads \ {t}, o \in OpIds : InCall(u, o)' <=> InCall(u, o)
    BY <1>3, <1>4 DEF InCall
  <1>9. \A u \in Threads : ~InCall(u, q)
    BY <1>7, OptionElim DEF InCall, TypeInv, OpsBuilt
  <1>10. \A i \in DOMAIN job_queue : ~InJob(i, q)
    BY <1>7 DEF InJob, TypeInv, OpsBuilt
  <1>11. /\ \A o \in OpIds : Untouched(o)' <=> Untouched(o)
         /\ \A o \in OpIds : InOps(o)' <=> InOps(o)
         /\ \A i \in DOMAIN job_queue, o \in OpIds : InJob(i, o)' <=> InJob(i, o)
    BY <1>3 DEF Untouched, InOps, Has, InJob, executorVars
  <1>12. PlaceInv'
    <2> USE <1>1, <1>3
    <2>1. \A o \in OpIds : o >= next_op_id' => issued'[o] = <<>>
      BY <1>2, <1>4 DEF PlaceInv, OpIds
    <2>2. \A o \in OpIds : issued'[o] = <<>> => Untouched(o)'
      BY <1>4, <1>11 DEF PlaceInv
    <2>3. \A u, v \in Threads, o \in OpIds : InCall(u, o)' /\ InCall(v, o)' => u = v
      BY <1>8, <1>9 DEF PlaceInv
    <2>4. \A i, j \in DOMAIN job_queue', o \in OpIds : InJob(i, o)' /\ InJob(j, o)' => i = j
      BY <1>11 DEF PlaceInv
    <2>5. \A i, j \in DOMAIN ops_queue' : ops_queue'[i] = ops_queue'[j] => i = j
      BY DEF PlaceInv, executorVars
    <2>6. \A u \in Threads, o \in OpIds : InCall(u, o)' =>
              Untouched(o)' /\ \A i \in DOMAIN job_queue' : ~InJob(i, o)'
      BY <1>7, <1>8, <1>10, <1>11 DEF PlaceInv
    <2>7. \A i \in DOMAIN job_queue', o \in OpIds : InJob(i, o)' => Untouched(o)'
      BY <1>11 DEF PlaceInv
    <2>8. \A o \in OpIds : InOps(o)' => inflight_args'[o] = <<>>
      BY <1>11 DEF PlaceInv, executorVars
    <2>9. QED
      BY <2>1, <2>2, <2>3, <2>4, <2>5, <2>6, <2>7, <2>8 DEF PlaceInv
  <1>13. Made' = Made /\ SentOnce' /\ NoPanic'
    BY <1>3, ExecutorIdle
  <1>14. CountInv' /\ InflightExact'
    <2>1. Announced' = Announced
      BY DEF Announced, executorVars
    <2>2. \A o \in OpIds : inflight_args[o] # <<>> \/ InOps(o) => issued'[o] = issued[o]
      BY <1>4, <1>7 DEF Untouched
    <2>3. UNCHANGED <<inflight_args, dependencies, scan, ops_queue, results, produced>>
      BY DEF executorVars
    <2>4. CountInv'
      BY <2>1, <2>2, <2>3, <1>1, <1>11 DEF CountInv, Has, Count
    <2>5. InflightExact'
      BY <2>1, <2>2, <2>3, <1>1 DEF InflightExact
    <2>6. QED
      BY <2>4, <2>5
  <1>15. StreamInv' /\ StreamIds' = StreamIds
    BY <1>1, <1>3, StreamFrame DEF executorVars
  <1>16. \A o \in OpIds \ {q} : Waiting(o)' => Waiting(o)
    BY <1>3, <1>8, <1>11 DEF Waiting, executorVars
  <1>17. Own' = Own /\ Known' = Known
    BY <1>3 DEF Own, Known
  <1>18. IdInv'
    <2> USE <1>1, <1>3, <1>5, <1>6, <1>13, <1>15, <1>16, <1>17 DEF IdInv
    <2>1. \A u \in Threads : CallIds(u)' \subseteq Own'
      OBVIOUS
    <2>2. \A u, v \in Threads : u # v => CallIds(u)' \cap CallIds(v)' = {}
      OBVIOUS
    <2>3. \A o \in OpIds : Out(o)' \subseteq Own'
      OBVIOUS
    <2>4. \A o, p \in OpIds : o # p => Out(o)' \cap Out(p)' = {}
      OBVIOUS
    <2>5. \A u \in Threads, o \in OpIds : CallIds(u)' \cap Out(o)' = {}
      OBVIOUS
    <2>6. StreamIds' \subseteq Known' /\ Made' \subseteq Known' /\ Made' \cap StreamIds' = {}
      OBVIOUS
    <2>7. \A u \in Threads : CallIds(u)' \cap StreamIds' = {} /\ CallIds(u)' \cap Made' = {}
      OBVIOUS
    <2>8. \A o \in OpIds : Out(o)' \cap StreamIds' = {}
      OBVIOUS
    <2>9. \A o \in OpIds : Waiting(o)' => Out(o)' \cap Made' = {}
      OBVIOUS
    <2>10. QED
      BY <2>1, <2>2, <2>3, <2>4, <2>5, <2>6, <2>7, <2>8, <2>9
  <1>19. QED
    BY <1>12, <1>13, <1>14, <1>15, <1>18 DEF DispatchInv

\* new_op pushes the operation to the queue.
LEMMA NewOpPushStep ==
    ASSUME TypeInv, DispatchInv, UNCHANGED executorVars, NEW t \in Threads, NewOpPush(t)
    PROVE  DispatchInv'
  <1>1. IdInv /\ StreamInv /\ PlaceInv
    BY DEF DispatchInv
  <1>2. PICK q : q = call[t][1].op
    OBVIOUS
  <1>3. q \in OpIds /\ call[t] # <<>> /\ call[t][1].step = "push_op"
    BY <1>2, OptionElim DEF NewOpPush, TypeInv, TypeOK, FabricTypeOK, Call
  <1>4. /\ job_queue' = Append(job_queue, OpMsg(q)) /\ call' = [call EXCEPT ![t] = <<>>]
        /\ UNCHANGED <<next_result_id, next_op_id, issued, remote, arrived, outbound>>
    BY <1>2 DEF NewOpPush, Push, netVars
  <1>5. OpMsg(q) \in ExecutorMessage /\ OpMsg(q).type = "Op" /\ OpMsg(q).op = q
    BY <1>3 DEF OpMsg, ExecutorMessage
  <1>6. call'[t] = <<>> /\ \A u \in Threads \ {t} : call'[u] = call[u]
    BY <1>4 DEF TypeInv, TypeOK, FabricTypeOK
  <1>7. InCall(t, q)
    BY <1>2, <1>3 DEF InCall
  <1>8. /\ \A o \in OpIds : ~InCall(t, o)'
        /\ \A u \in Threads \ {t}, o \in OpIds : InCall(u, o)' <=> InCall(u, o)
    BY <1>6 DEF InCall
  <1>9. PICK last : last = Len(job_queue) + 1
    OBVIOUS
  <1>10. /\ \A i \in DOMAIN job_queue, o \in OpIds : i # last /\ (InJob(i, o)' <=> InJob(i, o))
         /\ \A i \in DOMAIN job_queue' : i \in DOMAIN job_queue \/ i = last
         /\ \A o \in OpIds : InJob(last, o)' <=> q = o
    BY <1>4, <1>5, <1>9, JobPush
  <1>11. /\ \A o \in OpIds : Untouched(o)' <=> Untouched(o)
         /\ \A o \in OpIds : InOps(o)' <=> InOps(o)
    BY DEF Untouched, InOps, Has, executorVars
  <1>12. Untouched(q) /\ \A i \in DOMAIN job_queue : ~InJob(i, q)
    BY <1>1, <1>3, <1>7 DEF PlaceInv
  <1>13. \A u \in Threads \ {t} : ~InCall(u, q)
    BY <1>1, <1>3, <1>7 DEF PlaceInv
  <1>14. PlaceInv'
    <2> USE <1>1, <1>3
    <2>1. /\ \A o \in OpIds : o >= next_op_id' => issued'[o] = <<>>
          /\ \A o \in OpIds : issued'[o] = <<>> => Untouched(o)'
      BY <1>4, <1>11 DEF PlaceInv
    <2>2. \A u, v \in Threads, o \in OpIds : InCall(u, o)' /\ InCall(v, o)' => u = v
      BY <1>8 DEF PlaceInv
    <2>3. \A i, j \in DOMAIN job_queue', o \in OpIds : InJob(i, o)' /\ InJob(j, o)' => i = j
      BY <1>10, <1>12 DEF PlaceInv
    <2>4. \A i, j \in DOMAIN ops_queue' : ops_queue'[i] = ops_queue'[j] => i = j
      BY DEF PlaceInv, executorVars
    <2>5. \A u \in Threads, o \in OpIds : InCall(u, o)' =>
              Untouched(o)' /\ \A i \in DOMAIN job_queue' : ~InJob(i, o)'
      BY <1>8, <1>10, <1>11, <1>13 DEF PlaceInv
    <2>6. \A i \in DOMAIN job_queue', o \in OpIds : InJob(i, o)' => Untouched(o)'
      BY <1>10, <1>11, <1>12 DEF PlaceInv
    <2>7. \A o \in OpIds : InOps(o)' => inflight_args'[o] = <<>>
      BY <1>11 DEF PlaceInv, executorVars
    <2>8. QED
      BY <2>1, <2>2, <2>3, <2>4, <2>5, <2>6, <2>7 DEF PlaceInv
  <1>15. Made' = Made /\ SentOnce' /\ NoPanic' /\ CountInv' /\ InflightExact'
    BY <1>4, ExecutorIdle
  <1>16. StreamInv' /\ StreamIds' = StreamIds
    BY <1>1, <1>4, <1>5, StreamFrame DEF executorVars
  <1>17. \A o \in OpIds : Waiting(o)' => Waiting(o)
    BY <1>7, <1>8, <1>10, <1>11 DEF Waiting, executorVars
  <1>18. /\ CallIds(t)' = {} /\ \A u \in Threads \ {t} : CallIds(u)' = CallIds(u)
         /\ \A o \in OpIds : Out(o)' = Out(o)
         /\ Own' = Own /\ Known' = Known
    BY <1>4, <1>6 DEF CallIds, Out, Own, Known
  <1>19. \A u \in Threads : CallIds(u)' \subseteq CallIds(u)
    BY <1>18
  <1>20. IdInv'
    BY <1>1, <1>15, <1>16, <1>17, <1>18, <1>19, IdFrame
  <1>21. QED
    BY <1>14, <1>15, <1>16, <1>20 DEF DispatchInv

\* Every step of the application and of the network keeps the invariant.
LEMMA FabricNextStep ==
    ASSUME TypeInv, DispatchInv, UNCHANGED executorVars, FabricNext
    PROVE  DispatchInv'
  <1>1. CASE \E t \in Threads : CallStep(t)
    BY <1>1, AllocatePushStep, NewOpIdStep, NewOpPushStep DEF CallStep
  <1>2. CASE \E t \in Threads, n \in 1 .. MaxArity : AllocateIds(t, n)
    BY <1>2, AllocateIdsStep
  <1>3. CASE \E t \in Threads, args \in ArgLists(returned), arity \in 1 .. MaxArity,
                type \in OpTypes : NewOpResultIds(t, args, arity, type)
    BY <1>3, NewOpResultIdsStep
  <1>4. CASE \E r \in ResultIds : ReadLoop(r)
    BY <1>4, ReadLoopStep
  <1>5. CASE \/ Shutdown
             \/ \E t \in Threads : ReceiveValue(t)
             \/ \E h \in Handles : \/ PollRead(h)
                                   \/ \E r \in ResultIds, w \in Wakers : PollRegister(h, r, w)
                                   \/ \E w \in Wakers : PollAgain(h, w)
    BY <1>5, QuietActions
  <1>6. QED
    BY <1>1, <1>2, <1>3, <1>4, <1>5 DEF FabricNext

-----------------------------------------------------------------------------
(* The steps of the executor. *)

\* A job other than an operation: its results, if it has any, become the batch.
LEMMA PopStep ==
    ASSUME TypeInv, DispatchInv, NEW type, type # "Op", Pops(type),
           batch' = IF type = "Results" THEN Head(job_queue).results ELSE <<>>,
           status' # "panicked",
           UNCHANGED <<callVars, netVars, outbound, results, inflight_args, dependencies,
                       ops_queue, produced, scan>>
    PROVE  DispatchInv'
  <1> USE DEF callVars, netVars
  <1>1. IdInv /\ StreamInv /\ PlaceInv /\ CountInv /\ InflightExact /\ SentOnce
    BY DEF DispatchInv
  <1>2. CountInv' /\ InflightExact'
    BY <1>1, CountFrame
  <1>3. StreamInv' /\ StreamIds' \subseteq StreamIds
    BY <1>1, StreamPopInv
  <1>4. \A t \in Threads, o \in OpIds : InCall(t, o)' => InCall(t, o)
    BY DEF InCall
  <1>5. PlaceInv' /\ \A o \in OpIds : Waiting(o)' => Waiting(o)
    BY <1>1, <1>4, PlaceFrame
  <1>6. /\ \A t \in Threads : CallIds(t)' = CallIds(t)
        /\ \A o \in OpIds : Out(o)' = Out(o)
        /\ Own' = Own /\ Known' = Known /\ Made' = Made
    BY DEF CallIds, Out, Own, Known, Made
  <1>7. IdInv'
    BY <1>1, <1>3, <1>5, <1>6, IdFrame
  <1>8. SentOnce' /\ NoPanic'
    BY <1>1 DEF SentOnce, NoPanic
  <1>9. QED
    BY <1>2, <1>3, <1>5, <1>7, <1>8 DEF DispatchInv

\* A Result job, a waiter and a shutdown.
LEMMA PopResultsStep == ASSUME TypeInv, DispatchInv, PopResults PROVE DispatchInv'
  BY PopStep DEF PopResults, DispatchInv, NoPanic

\* A waiter is registered or woken: no operation moves.
LEMMA HandleNewWaiterStep == ASSUME TypeInv, DispatchInv, HandleNewWaiter PROVE DispatchInv'
  <1>1. batch = <<>> /\ batch' = batch /\ Pops("NewWaiter") /\ status' = status
    BY DEF HandleNewWaiter, Pops
  <1>2. QED
    BY <1>1, PopStep DEF HandleNewWaiter, DispatchInv, NoPanic

\* The executor stops: no operation moves.
LEMMA HandleShutdownStep == ASSUME TypeInv, DispatchInv, HandleShutdown PROVE DispatchInv'
  <1>1. batch = <<>> /\ batch' = batch /\ Pops("Shutdown") /\ status' = "stopped"
    BY DEF HandleShutdown, Pops
  <1>2. QED
    BY <1>1, PopStep DEF HandleShutdown

\* What is announced was made.
LEMMA AnnouncedMade == ASSUME TypeInv PROVE Announced \subseteq Made /\ Announced \subseteq ResultIds
  <1>1. produced # <<>> => 1 \in DOMAIN produced /\ produced[1] \in Result
    BY TailFacts DEF TypeInv, TypeOK
  <1>2. QED
    BY <1>1 DEF Announced, Made, Result

\* A scan begins: the operations registered for a result that is announced now
\* have as many decrements before them as they have positions with that result.
LEMMA ScanBegins ==
    ASSUME TypeInv, CountInv, InflightExact, NEW r \in ResultIds, r \notin Announced,
           scan = <<>>, scan' = dependencies[r], Announced' = Announced \cup {r},
           UNCHANGED <<issued, inflight_args, dependencies>>,
           \A o \in OpIds : InOps(o)' => InOps(o)
    PROVE  CountInv' /\ InflightExact'
  <1>1. dependencies[r] \in Seq(OpIds) /\ \A q \in ResultIds : dependencies[q] \in Seq(OpIds)
    BY DEF TypeInv, TypeOK
  <1>2. \A o \in OpIds : inflight_args[o] = <<>> => ~Has(dependencies[r], o)
    BY DEF CountInv
  <1>3. CountInv'
    <2>1. \A o \in OpIds : inflight_args'[o] # <<>> =>
              \A q \in ResultIds : Count(dependencies'[q], o) = Uses(issued'[o][1].args, q)
      BY DEF CountInv
    <2>2. \A o \in OpIds : inflight_args'[o] = <<>> =>
              /\ ~Has(scan', o)
              /\ \A q \in ResultIds : Has(dependencies'[q], o) => q \in Announced'
      BY <1>2 DEF CountInv
    <2>3. \A o \in OpIds : InOps(o)' =>
              \A k \in DOMAIN issued'[o][1].args : issued'[o][1].args[k] \in Announced'
      BY DEF CountInv
    <2>4. QED
      BY <2>1, <2>2, <2>3 DEF CountInv
  <1>4. ASSUME NEW o \in OpIds, inflight_args'[o] # <<>>
        PROVE  inflight_args'[o][1] =
                 Cardinality({k \in DOMAIN issued'[o][1].args : issued'[o][1].args[k] \notin Announced'})
                 + Cardinality({i \in DOMAIN scan' : scan'[i] = o})
    <2> DEFINE args == issued[o][1].args
    <2>1. issued[o] # <<>> /\ issued[o][1] \in Operation
      BY <1>4, OptionElim DEF TypeInv, OpsBuilt, TypeOK, FabricTypeOK
    <2>2. args \in ArgLists(ResultIds)
      BY <2>1, OperationFacts
    <2>3. /\ Cardinality({k \in DOMAIN args : args[k] \notin Announced}) =
              Cardinality({k \in DOMAIN args : args[k] \notin Announced \cup {r}}) + Uses(args, r)
          /\ Cardinality({k \in DOMAIN args : args[k] \notin Announced \cup {r}}) \in Nat
          /\ Uses(args, r) \in Nat
      <3> HIDE DEF args
      <3>1. PICK A : A = Announced
        OBVIOUS
      <3>2. r \notin A
        BY <3>1
      <3>3. Cardinality({k \in DOMAIN args : args[k] \notin A}) =
              Cardinality({k \in DOMAIN args : args[k] \notin A \cup {r}}) + Uses(args, r)
        BY <2>2, <3>2, PositionsSplit
      <3>4. Cardinality({k \in DOMAIN args : args[k] \notin A \cup {r}}) \in Nat
        <4> DEFINE P == {k \in DOMAIN args : args[k] \notin A \cup {r}}
        <4>1. P \in SUBSET DOMAIN args
          OBVIOUS
        <4> HIDE DEF P
        <4>2. Cardinality(P) \in 0 .. MaxArgs
          BY <2>2, <4>1, PositionsBound
        <4>3. Cardinality(P) \in Nat
          BY <4>2, FabricAssumption
        <4>4. QED
          BY <4>3 DEF P
      <3>5. Uses(args, r) \in Nat
        BY <2>2, <3>2, PositionsSplit
      <3>6. QED
        BY <3>1, <3>3, <3>4, <3>5
    <2>4. inflight_args[o][1] = Cardinality({k \in DOMAIN args : args[k] \notin Announced}) + 0
      <3>1. {i \in DOMAIN scan : scan[i] = o} = {}
        OBVIOUS
      <3>2. Cardinality({i \in DOMAIN scan : scan[i] = o}) = 0
        BY <3>1, FS_EmptySet
      <3>3. QED
        BY <1>4, <3>2 DEF InflightExact
    <2>5. Uses(args, r) = Count(dependencies[r], o)
      BY <1>4 DEF CountInv
    <2>6. Cardinality({i \in DOMAIN scan' : scan'[i] = o}) = Uses(args, r)
      BY <2>5 DEF Count
    <2>7. inflight_args[o][1] =
              Cardinality({k \in DOMAIN args : args[k] \notin Announced \cup {r}}) + Uses(args, r)
      BY <2>3, <2>4
    <2>8. QED
      BY <2>6, <2>7
  <1>5. InflightExact'
    BY <1>4 DEF InflightExact
  <1>6. QED
    BY <1>3, <1>5

\* No scan begins.
LEMMA NoScanBegins ==
    ASSUME TypeInv, CountInv, InflightExact, Announced' = Announced,
           UNCHANGED <<issued, inflight_args, dependencies, scan>>,
           \A o \in OpIds : InOps(o)' => InOps(o)
    PROVE  CountInv' /\ InflightExact'
  <1>1. CountInv'
    BY DEF CountInv
  <1>2. InflightExact'
    BY DEF InflightExact
  <1>3. QED
    BY <1>1, <1>2

\* Ids are made: no thread, no result on its way and no operation that still waits
\* has them.
LEMMA IdMade ==
    ASSUME IdInv, NEW R, R \subseteq Known, Own' = Own, Known' = Known,
           \A t \in Threads : CallIds(t)' = CallIds(t) /\ CallIds(t) \cap R = {},
           \A o \in OpIds : Out(o)' = Out(o),
           StreamIds' \subseteq StreamIds, StreamIds' \cap R = {},
           Made' \subseteq Made \cup R,
           \A o \in OpIds : Waiting(o)' => Waiting(o) /\ Out(o) \cap R = {}
    PROVE  IdInv'
  <1> USE DEF IdInv
  <1>1. /\ \A t \in Threads : CallIds(t)' \subseteq Own'
        /\ \A t, u \in Threads : t # u => CallIds(t)' \cap CallIds(u)' = {}
    OBVIOUS
  <1>2. /\ \A o \in OpIds : Out(o)' \subseteq Own'
        /\ \A o, p \in OpIds : o # p => Out(o)' \cap Out(p)' = {}
    OBVIOUS
  <1>3. \A t \in Threads, o \in OpIds : CallIds(t)' \cap Out(o)' = {}
    OBVIOUS
  <1>4. StreamIds' \subseteq Known' /\ Made' \subseteq Known'
    OBVIOUS
  <1>5. Made' \cap StreamIds' = {}
    OBVIOUS
  <1>6. \A t \in Threads : CallIds(t)' \cap StreamIds' = {} /\ CallIds(t)' \cap Made' = {}
    OBVIOUS
  <1>7. \A o \in OpIds : Out(o)' \cap StreamIds' = {}
    OBVIOUS
  <1>8. \A o \in OpIds : Waiting(o)' => Out(o)' \cap Made' = {}
    OBVIOUS
  <1>9. QED
    BY <1>1, <1>2, <1>3, <1>4, <1>5, <1>6, <1>7, <1>8

\* handle_new_result: the first result of the batch is new, and the scan of the
\* operations that wait for it begins.
LEMMA HandleNewResultStep == ASSUME TypeInv, DispatchInv, HandleNewResult PROVE DispatchInv'
  <1> USE DEF callVars, netVars
  <1>1. IdInv /\ StreamInv /\ PlaceInv /\ CountInv /\ InflightExact /\ SentOnce /\ NoPanic
    BY DEF DispatchInv
  <1>2. PICK r : r = Head(batch).id
    OBVIOUS
  <1>3. /\ batch # <<>> /\ scan = <<>> /\ produced = <<>> /\ batch' = Tail(batch)
        /\ scan' = dependencies[r]
        /\ UNCHANGED <<next_result_id, next_op_id, call, returned, issued, remote, arrived,
                       job_queue, outbound, status, inflight_args, dependencies, ops_queue,
                       produced>>
    BY <1>2 DEF HandleNewResult
  <1>4. /\ Head(batch) = batch[1] /\ Head(batch) \in Result
        /\ DOMAIN batch = 1 .. Len(batch) /\ Len(batch) \in Nat \ {0}
        /\ DOMAIN batch' = 1 .. Len(batch) - 1
        /\ \A k \in 1 .. Len(batch) - 1 : batch'[k] = batch[k + 1]
    BY <1>3 DEF TypeInv, TypeOK
  <1>5. r \in ResultIds /\ r = batch[1].id
    BY <1>2, <1>4 DEF Result
  <1>6. /\ results'[r] # <<>> /\ \A q \in ResultIds : q # r => results'[q] = results[q]
    <2>1. results' = [results EXCEPT ![r] = <<Head(batch).val>>]
      BY <1>2 DEF HandleNewResult, InsertResult
    <2>2. results'[r] = <<Head(batch).val>>
      BY <2>1, <1>5 DEF TypeInv, TypeOK
    <2>3. <<Head(batch).val>> # <<>>
      OBVIOUS
    <2>4. QED
      BY <2>1, <2>2, <2>3 DEF TypeInv, TypeOK
  <1>7. Made' = Made \cup {r} /\ Announced' = Announced \cup {r}
    BY <1>3, <1>5, <1>6 DEF Made, Announced
  <1>8. /\ Streams' = Streams /\ 0 \in Streams /\ Stream(0) = batch /\ Stream(0)' = batch'
        /\ \A i \in Streams : i # 0 => Stream(i)' = Stream(i)
    <2>1. Len(job_queue) \in Nat
      BY DEF TypeInv, TypeOK, FabricTypeOK
    <2>2. QED
      BY <1>3, <2>1 DEF Streams, Stream
  <1>9. r \in StreamIds
    BY <1>4, <1>5, <1>8 DEF StreamIds
  <1>10. \A i \in Streams : \A k \in DOMAIN Stream(i)' :
            /\ (IF i = 0 THEN k + 1 ELSE k) \in DOMAIN Stream(i)
            /\ Stream(i)'[k] = Stream(i)[IF i = 0 THEN k + 1 ELSE k]
            /\ ~(i = 0 /\ (IF i = 0 THEN k + 1 ELSE k) = 1)
            /\ (i = 0 => k \in Nat)
    <2>1. ASSUME NEW k \in DOMAIN batch' PROVE /\ k + 1 \in DOMAIN batch /\ batch'[k] = batch[k + 1]
                                               /\ k + 1 # 1 /\ k \in Nat
      BY <1>4
    <2>2. QED
      BY <1>8, <2>1
  <1>11. StreamIds' \subseteq StreamIds
    BY <1>8, <1>10 DEF StreamIds
  <1>12. r \notin StreamIds'
    <2>1. SUFFICES ASSUME r \in StreamIds' PROVE FALSE
      OBVIOUS
    <2>2. PICK i \in Streams : \E k \in DOMAIN Stream(i)' : r = Stream(i)'[k].id
      BY <1>8, <2>1 DEF StreamIds
    <2>3. PICK k \in DOMAIN Stream(i)' : r = Stream(i)'[k].id
      BY <2>2
    <2>4. PICK l : l = IF i = 0 THEN k + 1 ELSE k
      OBVIOUS
    <2>5. l \in DOMAIN Stream(i) /\ Stream(i)[l].id = r /\ ~(i = 0 /\ l = 1)
      BY <2>2, <2>3, <2>4, <1>10
    <2>6. 1 \in DOMAIN Stream(0) /\ Stream(0)[1].id = r
      BY <1>4, <1>5, <1>8
    <2>7. i = 0 /\ l = 1
      BY <1>1, <1>8, <2>5, <2>6 DEF StreamInv
    <2>8. QED
      BY <2>5, <2>7
  <1>13. StreamInv'
    <2>1. ASSUME NEW i \in Streams', NEW j \in Streams',
                 NEW k \in DOMAIN Stream(i)', NEW l \in DOMAIN Stream(j)',
                 Stream(i)'[k].id = Stream(j)'[l].id
          PROVE  i = j /\ k = l
      <3>1. i \in Streams /\ j \in Streams
        BY <1>8
      <3>2. PICK m : m = IF i = 0 THEN k + 1 ELSE k
        OBVIOUS
      <3>3. PICK n : n = IF j = 0 THEN l + 1 ELSE l
        OBVIOUS
      <3>4. m \in DOMAIN Stream(i) /\ Stream(i)'[k] = Stream(i)[m] /\ (i = 0 => k \in Nat)
        BY <3>1, <3>2, <1>10
      <3>5. n \in DOMAIN Stream(j) /\ Stream(j)'[l] = Stream(j)[n] /\ (j = 0 => l \in Nat)
        BY <3>1, <3>3, <1>10
      <3>6. i = j /\ m = n
        BY <1>1, <2>1, <3>1, <3>4, <3>5 DEF StreamInv
      <3>7. QED
        BY <3>2, <3>3, <3>4, <3>5, <3>6
    <2>2. DOMAIN produced' = {}
      BY <1>3
    <2>3. QED
      BY <2>1, <2>2 DEF StreamInv
  <1>14. r \notin Made /\ r \in Known
    BY <1>1, <1>9 DEF IdInv
  <1>15. r \notin Announced
    BY <1>14, AnnouncedMade
  <1>16. \A o \in OpIds : InOps(o)' => InOps(o)
    BY <1>3 DEF InOps
  <1>17. CountInv' /\ InflightExact'
    BY <1>1, <1>3, <1>5, <1>7, <1>15, <1>16, ScanBegins
  <1>18. \A t \in Threads, o \in OpIds : InCall(t, o)' => InCall(t, o)
    BY <1>3 DEF InCall
  <1>19. PlaceInv' /\ \A o \in OpIds : Waiting(o)' => Waiting(o)
    BY <1>1, <1>3, <1>18, PlaceFrame
  <1>20. /\ \A t \in Threads : CallIds(t)' = CallIds(t)
         /\ \A o \in OpIds : Out(o)' = Out(o)
         /\ Own' = Own /\ Known' = Known
    BY <1>3 DEF CallIds, Out, Own, Known
  <1>21. IdInv'
    <2>1. {r} \subseteq Known /\ StreamIds' \cap {r} = {} /\ Made' \subseteq Made \cup {r}
      BY <1>7, <1>12, <1>14
    <2>2. /\ \A t \in Threads : CallIds(t) \cap {r} = {}
          /\ \A o \in OpIds : Out(o) \cap {r} = {}
      BY <1>1, <1>9 DEF IdInv
    <2>3. QED
      BY <1>1, <1>11, <1>19, <1>20, <2>1, <2>2, IdMade
  <1>22. SentOnce' /\ NoPanic'
    BY <1>1, <1>3 DEF SentOnce, NoPanic
  <1>23. QED
    BY <1>13, <1>17, <1>19, <1>21, <1>22 DEF DispatchInv

\* What the counter of the operation at the head of the scan says: the operation
\* is buffered, and misses as many arguments as are not announced, after the rest
\* of the scan.
LEMMA ScanHead ==
    ASSUME TypeInv, CountInv, InflightExact, scan # <<>>, NEW o, o = Head(scan),
           NEW args, args = issued[o][1].args
    PROVE  /\ o \in OpIds /\ inflight_args[o] # <<>> /\ args \in ArgLists(ResultIds)
           /\ Tail(scan) \in Seq(OpIds)
           /\ Cardinality({k \in DOMAIN args : args[k] \notin Announced}) \in Nat
           /\ inflight_args[o][1] - 1 = Cardinality({k \in DOMAIN args : args[k] \notin Announced})
                                        + Count(Tail(scan), o)
           /\ Cardinality({k \in DOMAIN args : args[k] \notin Announced}) = 0 =>
                \A k \in DOMAIN args : args[k] \in Announced
  <1> DEFINE P == {k \in DOMAIN args : args[k] \notin Announced}
  <1>1. scan \in Seq(OpIds) /\ 1 \in DOMAIN scan /\ scan[1] = o /\ o \in OpIds
    BY DEF TypeInv, TypeOK
  <1>2. Tail(scan) \in Seq(OpIds)
    BY <1>1, TailFacts
  <1>3. inflight_args[o] # <<>>
    BY <1>1 DEF CountInv, Has
  <1>4. issued[o] # <<>> /\ issued[o][1] \in Operation
    BY <1>1, <1>3, OptionElim DEF TypeInv, OpsBuilt, TypeOK, FabricTypeOK
  <1>5. args \in ArgLists(ResultIds)
    BY <1>4, OperationFacts
  <1>6. P \in SUBSET DOMAIN args
    OBVIOUS
  <1>7. inflight_args[o][1] = Cardinality(P) + Count(scan, o)
    BY <1>1, <1>3 DEF InflightExact, Count
  <1>8. P = {} => \A k \in DOMAIN args : args[k] \in Announced
    OBVIOUS
  <1> HIDE DEF P
  <1>9. IsFiniteSet(P) /\ Cardinality(P) \in 0 .. MaxArgs
    BY <1>5, <1>6, PositionsBound
  <1>10. Cardinality(P) \in Nat
    BY <1>9, FabricAssumption
  <1>11. Cardinality(P) = 0 => P = {}
    BY <1>9, FS_EmptySet
  <1>12. Count(Tail(scan), o) = Count(scan, o) - 1 /\ Count(scan, o) \in Nat
    BY <1>1, CountTail, CountFacts
  <1>13. inflight_args[o][1] - 1 = Cardinality(P) + Count(Tail(scan), o)
    BY <1>7, <1>10, <1>12
  <1>14. QED
    BY <1>1, <1>2, <1>3, <1>5, <1>8, <1>10, <1>11, <1>13 DEF P

\* One iteration of append_ready_ops: the unwrap succeeds, and an operation is taken
\* exactly when all its arguments are announced and no further scan will meet it.
LEMMA AppendReadyOpStep == ASSUME TypeInv, DispatchInv, AppendReadyOp PROVE DispatchInv'
  <1> USE DEF callVars, netVars
  <1>1. IdInv /\ StreamInv /\ PlaceInv /\ CountInv /\ InflightExact /\ SentOnce /\ NoPanic
    BY DEF DispatchInv
  <1>2. PICK o : o = Head(scan)
    OBVIOUS
  <1>3. PICK args : args = issued[o][1].args
    OBVIOUS
  <1>4. PICK left : left = inflight_args[o][1] - 1
    OBVIOUS
  <1>5. PICK miss : miss = Cardinality({k \in DOMAIN args : args[k] \notin Announced})
    OBVIOUS
  <1>6. /\ scan # <<>> /\ scan' = Tail(scan)
        /\ UNCHANGED <<next_result_id, next_op_id, call, returned, issued, remote, arrived,
                       job_queue, outbound, results, dependencies, batch, produced>>
    BY DEF AppendReadyOp, fabricVars
  <1>7. /\ o \in OpIds /\ inflight_args[o] # <<>> /\ args \in ArgLists(ResultIds)
        /\ Tail(scan) \in Seq(OpIds) /\ miss \in Nat
        /\ left = miss + Count(Tail(scan), o)
        /\ miss = 0 => \A k \in DOMAIN args : args[k] \in Announced
    <2>1. scan # <<>>
      BY <1>6
    <2>2. QED
      BY <1>1, <1>2, <1>3, <1>4, <1>5, <2>1, ScanHead
  <1>8. /\ inflight_args' = [inflight_args EXCEPT ![o] = Buffered(left)]
        /\ ops_queue' = IF left > 0 THEN ops_queue ELSE Append(ops_queue, o)
        /\ status' = status
    BY <1>2, <1>4, <1>7 DEF AppendReadyOp
  <1>9. Count(Tail(scan), o) \in Nat /\ (Count(Tail(scan), o) = 0 <=> ~Has(Tail(scan), o))
    BY <1>7, CountFacts
  <1>10. left \in Nat /\ (left = 0 => miss = 0 /\ ~Has(scan', o))
    BY <1>6, <1>7, <1>9
  <1>11. /\ inflight_args'[o] = IF left > 0 THEN <<left>> ELSE <<>>
         /\ \A p \in OpIds : p # o => inflight_args'[p] = inflight_args[p]
    BY <1>7, <1>8 DEF Buffered, TypeInv, TypeOK
  <1>12. Announced' = Announced /\ Made' = Made
    BY <1>6 DEF Announced, Made
  <1>13. /\ ops_queue \in Seq(OpIds)
         /\ \A i \in DOMAIN ops_queue : ops_queue[i] # o
    <2>1. ~InOps(o)
      BY <1>1, <1>7 DEF PlaceInv
    <2>2. QED
      BY <2>1 DEF InOps, TypeInv, TypeOK
  <1>14. /\ \A p \in OpIds : InOps(p)' <=> InOps(p) \/ (p = o /\ left = 0)
         /\ \A i, j \in DOMAIN ops_queue' : ops_queue'[i] = ops_queue'[j] => i = j
    <2>1. CASE left > 0
      BY <1>1, <1>8, <1>10, <2>1 DEF InOps, PlaceInv
    <2>2. CASE left = 0
      <3>1. ops_queue' = Append(ops_queue, o)
        BY <1>8, <2>2
      <3>2. PICK n : n = Len(ops_queue)
        OBVIOUS
      <3>3. /\ n \in Nat /\ DOMAIN ops_queue = 1 .. n /\ DOMAIN ops_queue' = 1 .. n + 1
            /\ ops_queue'[n + 1] = o
            /\ \A i \in 1 .. n : ops_queue'[i] = ops_queue[i]
        BY <1>7, <1>13, <3>1, <3>2
      <3>4. \A i \in DOMAIN ops_queue' : i \in DOMAIN ops_queue \/ i = n + 1
        BY <3>3
      <3>5. \A i \in DOMAIN ops_queue : i \in DOMAIN ops_queue'
        BY <3>3
      <3>6. n + 1 \in DOMAIN ops_queue'
        BY <3>3
      <3>7. \A p \in OpIds : InOps(p)' <=> InOps(p) \/ (p = o /\ left = 0)
        BY <2>2, <3>3, <3>4, <3>5, <3>6 DEF InOps
      <3>8. \A i, j \in DOMAIN ops_queue' : ops_queue'[i] = ops_queue'[j] => i = j
        BY <1>1, <1>13, <3>3, <3>4 DEF PlaceInv
      <3>9. QED
        BY <3>7, <3>8
    <2>3. QED
      BY <1>10, <2>1, <2>2
  <1>15. \A p \in OpIds : Untouched(p)' <=> Untouched(p)
    <2>1. ~Untouched(o) /\ ~Untouched(o)'
      <3>1. left = 0 => InOps(o)'
        BY <1>7, <1>14
      <3>2. left # 0 => inflight_args'[o] # <<>>
        BY <1>10, <1>11
      <3>3. QED
        BY <1>7, <3>1, <3>2 DEF Untouched
    <2>2. QED
      BY <1>6, <1>11, <1>14, <2>1 DEF Untouched
  <1>16. /\ \A t \in Threads, p \in OpIds : InCall(t, p)' <=> InCall(t, p)
         /\ \A i \in DOMAIN job_queue, p \in OpIds : InJob(i, p)' <=> InJob(i, p)
    BY <1>6 DEF InCall, InJob
  <1>17. PlaceInv'
    <2> USE <1>1
    <2>1. /\ \A p \in OpIds : p >= next_op_id' => issued'[p] = <<>>
          /\ \A p \in OpIds : issued'[p] = <<>> => Untouched(p)'
      BY <1>6, <1>15 DEF PlaceInv
    <2>2. \A t, u \in Threads, p \in OpIds : InCall(t, p)' /\ InCall(u, p)' => t = u
      BY <1>16 DEF PlaceInv
    <2>3. \A i, j \in DOMAIN job_queue', p \in OpIds : InJob(i, p)' /\ InJob(j, p)' => i = j
      BY <1>6, <1>16 DEF PlaceInv
    <2>4. \A t \in Threads, p \in OpIds : InCall(t, p)' =>
             Untouched(p)' /\ \A i \in DOMAIN job_queue' : ~InJob(i, p)'
      BY <1>6, <1>15, <1>16 DEF PlaceInv
    <2>5. \A i \in DOMAIN job_queue', p \in OpIds : InJob(i, p)' => Untouched(p)'
      BY <1>6, <1>15, <1>16 DEF PlaceInv
    <2>6. \A p \in OpIds : InOps(p)' => inflight_args'[p] = <<>>
      BY <1>7, <1>10, <1>11, <1>14 DEF PlaceInv
    <2>7. QED
      BY <1>14, <2>1, <2>2, <2>3, <2>4, <2>5, <2>6 DEF PlaceInv
  <1>18. /\ \A p \in OpIds : Has(scan', p) => Has(scan, p)
         /\ \A p \in OpIds : p # o => Count(scan', p) = Count(scan, p)
    <2>1. scan \in Seq(OpIds)
      BY DEF TypeInv, TypeOK
    <2>2. \A p \in OpIds : p # o => Count(scan', p) = Count(scan, p)
      BY <1>2, <1>6, <2>1, CountTail
    <2>3. Has(scan, o)
      BY <1>2, <1>6, <2>1 DEF Has
    <2>4. \A p \in OpIds : /\ Count(scan, p) = 0 <=> ~Has(scan, p)
                           /\ Count(scan', p) = 0 <=> ~Has(scan', p)
      BY <1>6, <1>7, <2>1, CountFacts
    <2>5. QED
      BY <2>2, <2>3, <2>4
  <1>19. CountInv'
    <2>1. \A p \in OpIds : inflight_args'[p] # <<>> =>
             \A r \in ResultIds : Count(dependencies'[r], p) = Uses(issued'[p][1].args, r)
      BY <1>1, <1>6, <1>7, <1>11 DEF CountInv
    <2>2. left = 0 => \A r \in ResultIds : Has(dependencies[r], o) => r \in Announced
      <3>1. SUFFICES ASSUME left = 0, NEW r \in ResultIds, Has(dependencies[r], o)
                     PROVE  r \in Announced
        OBVIOUS
      <3>2. dependencies[r] \in Seq(OpIds)
        BY DEF TypeInv, TypeOK
      <3>3. Count(dependencies[r], o) # 0
        BY <3>1, <3>2, CountFacts
      <3>4. Uses(args, r) # 0
        BY <1>1, <1>3, <1>7, <3>3 DEF CountInv
      <3>5. \E k \in DOMAIN args : args[k] = r
        BY <1>7, <3>4, UsesPositive
      <3>6. QED
        BY <1>7, <1>10, <3>1, <3>5
    <2>3. \A p \in OpIds : inflight_args'[p] = <<>> =>
             /\ ~Has(scan', p)
             /\ \A r \in ResultIds : Has(dependencies'[r], p) => r \in Announced'
      <3>1. inflight_args'[o] = <<>> => left = 0
        BY <1>10, <1>11
      <3>2. QED
        BY <1>1, <1>6, <1>10, <1>11, <1>12, <1>18, <2>2, <3>1 DEF CountInv
    <2>4. \A p \in OpIds : InOps(p)' =>
             \A k \in DOMAIN issued'[p][1].args : issued'[p][1].args[k] \in Announced'
      BY <1>1, <1>3, <1>6, <1>7, <1>10, <1>12, <1>14 DEF CountInv
    <2>5. QED
      BY <2>1, <2>3, <2>4 DEF CountInv
  <1>20. InflightExact'
    <2>1. ASSUME NEW p \in OpIds, inflight_args'[p] # <<>>
          PROVE  inflight_args'[p][1] =
                   Cardinality({k \in DOMAIN issued'[p][1].args : issued'[p][1].args[k] \notin Announced'})
                   + Cardinality({i \in DOMAIN scan' : scan'[i] = p})
      <3>1. CASE p = o
        <4>1. inflight_args'[o] = <<left>>
          BY <1>11, <2>1, <3>1
        <4>2. inflight_args'[o][1] = miss + Count(scan', o)
          BY <1>6, <1>7, <4>1
        <4>3. QED
          BY <1>3, <1>5, <1>6, <1>12, <3>1, <4>2 DEF Count
      <3>2. CASE p # o
        <4>1. inflight_args'[p] = inflight_args[p]
          BY <1>11, <3>2
        <4>2. Cardinality({i \in DOMAIN scan' : scan'[i] = p}) =
              Cardinality({i \in DOMAIN scan : scan[i] = p})
          BY <1>18, <3>2 DEF Count
        <4>3. QED
          BY <1>1, <1>6, <1>12, <2>1, <4>1, <4>2 DEF InflightExact
      <3>3. QED
        BY <3>1, <3>2
    <2>2. QED
      BY <2>1 DEF InflightExact
  <1>21. StreamInv' /\ StreamIds' = StreamIds
    BY <1>1, <1>6, StreamFrame
  <1>22. \A p \in OpIds : Waiting(p)' => Waiting(p)
    BY <1>6, <1>7, <1>11, <1>14, <1>16 DEF Waiting
  <1>23. /\ \A t \in Threads : CallIds(t)' = CallIds(t)
         /\ \A p \in OpIds : Out(p)' = Out(p)
         /\ Own' = Own /\ Known' = Known
    BY <1>6 DEF CallIds, Out, Own, Known
  <1>24. IdInv'
    BY <1>1, <1>12, <1>21, <1>22, <1>23, IdFrame
  <1>25. SentOnce' /\ NoPanic'
    BY <1>1, <1>6, <1>8 DEF SentOnce, NoPanic
  <1>26. QED
    BY <1>17, <1>19, <1>20, <1>21, <1>24, <1>25 DEF DispatchInv

\* The facts about the operation that execute_operations pops: every argument has
\* its value, so compute_result does not panic, and no output was made before.
LEMMA ComputeFacts ==
    ASSUME TypeInv, DispatchInv, ComputeResult, NEW q, q = ops_queue[Len(ops_queue)],
           NEW op, op = issued[q][1]
    PROVE  /\ q \in OpIds /\ InOps(q) /\ issued[q] # <<>> /\ op \in Operation
           /\ \A p \in OpIds : InOps(p)' <=> InOps(p) /\ p # q
           /\ \A i, j \in DOMAIN ops_queue' : ops_queue'[i] = ops_queue'[j] => i = j
           /\ \A k \in DOMAIN op.args : results[op.args[k]] # <<>>
           /\ status' = status /\ scan' = dependencies[op.result_id]
           /\ DOMAIN produced' = 1 .. op.output_arity
           /\ \A j \in DOMAIN produced' :
                /\ produced'[j].id = op.result_id + j - 1
                /\ produced'[j].val = Apply(op.result_id + j - 1,
                                            [k \in DOMAIN op.args |-> results[op.args[k]][1]])
           /\ \/ outbound' = outbound
              \/ outbound' = Append(outbound, produced'[1])
  <1> DEFINE args == [k \in DOMAIN op.args |-> results[op.args[k]]]
             vals == [k \in DOMAIN args |-> args[k][1]]
             out  == [j \in 1 .. op.output_arity |->
                        [id  |-> op.result_id + j - 1,
                         val |-> Apply(op.result_id + j - 1, vals)]]
  <1>1. /\ ops_queue \in Seq(OpIds) /\ ops_queue # <<>> /\ produced = <<>>
        /\ ops_queue' = SubSeq(ops_queue, 1, Len(ops_queue) - 1)
    BY DEF ComputeResult, TypeInv, TypeOK
  <1>2. PICK n : n = Len(ops_queue)
    OBVIOUS
  <1>3. /\ n \in Nat \ {0} /\ DOMAIN ops_queue = 1 .. n /\ DOMAIN ops_queue' = 1 .. n - 1
        /\ ops_queue[n] = q
        /\ \A i \in 1 .. n - 1 : ops_queue'[i] = ops_queue[i]
    BY <1>1, <1>2
  <1>4. q \in OpIds /\ InOps(q)
    BY <1>1, <1>3 DEF InOps
  <1>5. \A i, j \in DOMAIN ops_queue : ops_queue[i] = ops_queue[j] => i = j
    BY DEF DispatchInv, PlaceInv
  <1>6. \A p \in OpIds : InOps(p)' <=> InOps(p) /\ p # q
    <2>1. \A i \in DOMAIN ops_queue' : i \in DOMAIN ops_queue /\ ops_queue[i] # q
      BY <1>3, <1>5
    <2>2. \A i \in DOMAIN ops_queue : ops_queue[i] # q => i \in DOMAIN ops_queue'
      BY <1>3
    <2>3. QED
      BY <1>3, <2>1, <2>2 DEF InOps
  <1>7. \A i, j \in DOMAIN ops_queue' : ops_queue'[i] = ops_queue'[j] => i = j
    BY <1>3, <1>5
  <1>8. issued[q] # <<>> /\ op \in Operation
    BY <1>3, <1>4, OptionElim DEF TypeInv, OpsBuilt, TypeOK, FabricTypeOK
  <1>9. \A k \in DOMAIN op.args : results[op.args[k]] # <<>>
    <2>1. Announced = {r \in ResultIds : results[r] # <<>>}
      BY <1>1 DEF Announced
    <2>2. \A k \in DOMAIN op.args : op.args[k] \in Announced
      BY <1>4 DEF DispatchInv, CountInv
    <2>3. QED
      BY <2>1, <2>2
  <1>10. ~ \E k \in DOMAIN args : args[k] = <<>>
    BY <1>9
  <1>11. /\ produced' = out
         /\ scan' = dependencies[op.result_id]
         /\ outbound' = IF op.op_type = "Network" THEN Append(outbound, out[1]) ELSE outbound
         /\ status' = status
    BY <1>10 DEF ComputeResult
  <1>12. vals = [k \in DOMAIN op.args |-> results[op.args[k]][1]]
    OBVIOUS
  <1> HIDE DEF vals
  <1>13. /\ DOMAIN produced' = 1 .. op.output_arity
         /\ \A j \in DOMAIN produced' :
              /\ produced'[j].id = op.result_id + j - 1
              /\ produced'[j].val = Apply(op.result_id + j - 1, vals)
    BY <1>11
  <1>14. outbound' = outbound \/ outbound' = Append(outbound, produced'[1])
    BY <1>11
  <1> HIDE DEF args, out
  <1>15. QED
    BY <1>4, <1>6, <1>7, <1>8, <1>9, <1>11, <1>12, <1>13, <1>14

\* compute_result runs an operation that is ready.
LEMMA ComputeResultStep == ASSUME TypeInv, DispatchInv, ComputeResult PROVE DispatchInv'
  <1> USE DEF callVars, netVars
  <1>1. IdInv /\ StreamInv /\ PlaceInv /\ CountInv /\ InflightExact /\ SentOnce /\ NoPanic
    BY DEF DispatchInv
  <1>2. PICK q : q = ops_queue[Len(ops_queue)]
    OBVIOUS
  <1>3. PICK op : op = issued[q][1]
    OBVIOUS
  <1>4. PICK r : r = op.result_id
    OBVIOUS
  <1>5. /\ scan = <<>> /\ produced = <<>>
        /\ UNCHANGED <<next_result_id, next_op_id, call, returned, issued, remote, arrived,
                       job_queue, results, inflight_args, dependencies, batch>>
    BY DEF ComputeResult
  <1>6. /\ q \in OpIds /\ InOps(q) /\ issued[q] # <<>> /\ op \in Operation
        /\ \A p \in OpIds : InOps(p)' <=> InOps(p) /\ p # q
        /\ \A i, j \in DOMAIN ops_queue' : ops_queue'[i] = ops_queue'[j] => i = j
        /\ status' = status /\ scan' = dependencies[r]
        /\ DOMAIN produced' = 1 .. op.output_arity
        /\ \A j \in DOMAIN produced' : produced'[j].id = r + j - 1
        /\ \/ outbound' = outbound
           \/ outbound' = Append(outbound, produced'[1])
    BY <1>2, <1>3, <1>4, ComputeFacts
  <1>7. /\ r \in ResultIds /\ r \in Nat /\ op.output_arity \in Nat \ {0}
    BY <1>4, <1>6, OperationFacts
  <1>8. /\ Out(q) = r .. r + op.output_arity - 1 /\ r \in Out(q)
    BY <1>3, <1>4, <1>6, <1>7 DEF Out, ResultIdsOf
  <1>9. Out(q) \cap Made = {} /\ Out(q) \subseteq Known /\ Out(q) \cap StreamIds = {}
    BY <1>1, <1>6 DEF IdInv, Waiting, Known
  <1>10. \A j \in DOMAIN produced' : produced'[j].id \in Out(q) /\ produced'[j].id = r + (j - 1)
    BY <1>6, <1>7, <1>8
  <1>11. produced' # <<>> /\ 1 \in DOMAIN produced' /\ produced'[1].id = r
    BY <1>6, <1>7
  <1>12. Announced' = Announced \cup {r}
    BY <1>5, <1>11 DEF Announced
  <1>13. r \notin Announced
    BY <1>8, <1>9, AnnouncedMade
  <1>14. \A i \in DOMAIN outbound' : \/ i \in DOMAIN outbound /\ outbound'[i] = outbound[i]
                                     \/ i = Len(outbound) + 1 /\ outbound'[i] = produced'[1]
    <2>1. outbound \in Seq(Result)
      BY DEF TypeInv, TypeOK, FabricTypeOK
    <2>2. PICK x : x = produced'[1]
      OBVIOUS
    <2>3. CASE outbound' = outbound
      BY <2>3
    <2>4. CASE outbound' = Append(outbound, x)
      <3>1. DOMAIN outbound' = 1 .. Len(outbound) + 1 /\ DOMAIN outbound = 1 .. Len(outbound)
        BY <2>1, <2>4
      <3>2. \A i \in 1 .. Len(outbound) : outbound'[i] = outbound[i]
        BY <2>1, <2>4
      <3>3. outbound'[Len(outbound) + 1] = x /\ Len(outbound) \in Nat
        BY <2>1, <2>4
      <3>4. QED
        BY <2>2, <3>1, <3>2, <3>3
    <2>5. QED
      BY <1>6, <2>2, <2>3, <2>4
  <1>15. Made' \subseteq Made \cup Out(q)
    <2>1. \A i \in DOMAIN outbound' : outbound'[i].id \in Made \cup Out(q)
      BY <1>10, <1>11, <1>14 DEF Made
    <2>2. QED
      BY <1>5, <1>10, <2>1 DEF Made
  <1>16. SentOnce'
    <2>1. \A i \in DOMAIN outbound : outbound[i].id # r
      BY <1>8, <1>9 DEF Made
    <2>2. \A i, j \in DOMAIN outbound' : outbound'[i].id = outbound'[j].id => i = j
      BY <1>1, <1>11, <1>14, <2>1 DEF SentOnce
    <2>3. QED
      BY <2>2 DEF SentOnce
  <1>17. CountInv' /\ InflightExact'
    BY <1>1, <1>5, <1>6, <1>7, <1>12, <1>13, ScanBegins
  <1>18. /\ \A t \in Threads, p \in OpIds : InCall(t, p)' <=> InCall(t, p)
         /\ \A i \in DOMAIN job_queue, p \in OpIds : InJob(i, p)' <=> InJob(i, p)
         /\ \A p \in OpIds : Untouched(p) => Untouched(p)'
    BY <1>5, <1>6 DEF InCall, InJob, Untouched
  <1>19. PlaceInv'
    <2> USE <1>1
    <2>1. /\ \A p \in OpIds : p >= next_op_id' => issued'[p] = <<>>
          /\ \A p \in OpIds : issued'[p] = <<>> => Untouched(p)'
      BY <1>5, <1>18 DEF PlaceInv
    <2>2. \A t, u \in Threads, p \in OpIds : InCall(t, p)' /\ InCall(u, p)' => t = u
      BY <1>18 DEF PlaceInv
    <2>3. \A i, j \in DOMAIN job_queue', p \in OpIds : InJob(i, p)' /\ InJob(j, p)' => i = j
      BY <1>5, <1>18 DEF PlaceInv
    <2>4. \A t \in Threads, p \in OpIds : InCall(t, p)' =>
             Untouched(p)' /\ \A i \in DOMAIN job_queue' : ~InJob(i, p)'
      BY <1>5, <1>18 DEF PlaceInv
    <2>5. \A i \in DOMAIN job_queue', p \in OpIds : InJob(i, p)' => Untouched(p)'
      BY <1>5, <1>18 DEF PlaceInv
    <2>6. \A p \in OpIds : InOps(p)' => inflight_args'[p] = <<>>
      BY <1>5, <1>6 DEF PlaceInv
    <2>7. QED
      BY <1>6, <2>1, <2>2, <2>3, <2>4, <2>5, <2>6 DEF PlaceInv
  <1>20. \A p \in OpIds : Waiting(p)' => Waiting(p) /\ p # q
    <2>1. /\ \A t \in Threads : ~InCall(t, q)
          /\ \A i \in DOMAIN job_queue : ~InJob(i, q)
          /\ inflight_args[q] = <<>> /\ ~InOps(q)'
      BY <1>1, <1>6 DEF PlaceInv, Untouched
    <2>2. QED
      BY <1>5, <1>6, <1>18, <2>1 DEF Waiting
  <1>21. StreamIds' = StreamIds /\ Streams' = Streams /\ \A i \in Streams : Stream(i)' = Stream(i)
    <2>1. Streams' = Streams /\ \A i \in Streams : Stream(i)' = Stream(i)
      BY <1>5 DEF Streams, Stream
    <2>2. QED
      BY <2>1 DEF StreamIds
  <1>22. StreamInv'
    <2>1. \A j \in DOMAIN produced' : results'[produced'[j].id] = <<>>
      <3>1. \A j \in DOMAIN produced' : produced'[j].id \in ResultIds
        <4>1. produced' \in Seq(Result)
          BY ComputeResultType DEF TypeInv, TypeOK
        <4>2. \A j \in DOMAIN produced' : produced'[j] \in Result
          BY <4>1
        <4>3. QED
          BY <4>2 DEF Result
      <3>2. QED
        BY <1>5, <1>9, <1>10, <3>1 DEF Made
    <2>2. QED
      BY <1>1, <1>10, <1>11, <1>21, <2>1 DEF StreamInv
  <1>23. /\ \A t \in Threads : CallIds(t)' = CallIds(t)
         /\ \A p \in OpIds : Out(p)' = Out(p)
         /\ Own' = Own /\ Known' = Known
    BY <1>5 DEF CallIds, Out, Own, Known
  <1>24. IdInv'
    <2>1. PICK R : R = Out(q)
      OBVIOUS
    <2>2. \A t \in Threads : CallIds(t) \cap R = {}
      BY <1>1, <1>6, <2>1 DEF IdInv
    <2>3. \A p \in OpIds : Waiting(p)' => Waiting(p) /\ Out(p) \cap R = {}
      BY <1>1, <1>6, <1>20, <2>1 DEF IdInv
    <2>4. R \subseteq Known /\ StreamIds' \cap R = {} /\ Made' \subseteq Made \cup R
      BY <1>9, <1>15, <1>21, <2>1
    <2>5. QED
      BY <1>1, <1>21, <1>23, <2>2, <2>3, <2>4, IdMade
  <1>25. NoPanic'
    BY <1>1, <1>6 DEF NoPanic
  <1>26. QED
    BY <1>16, <1>17, <1>19, <1>22, <1>24, <1>25 DEF DispatchInv

\* Inserting an output, and announcing the next one.
LEMMA InsertProducedStep == ASSUME TypeInv, DispatchInv, InsertProduced PROVE DispatchInv'
  <1> USE DEF callVars, netVars
  <1>1. IdInv /\ StreamInv /\ PlaceInv /\ CountInv /\ InflightExact /\ SentOnce /\ NoPanic
    BY DEF DispatchInv
  <1>2. PICK r : r = Head(produced).id
    OBVIOUS
  <1>3. /\ produced # <<>> /\ scan = <<>> /\ produced' = Tail(produced)
        /\ scan' = IF Len(produced) > 1 THEN dependencies[produced[2].id] ELSE <<>>
        /\ UNCHANGED <<next_result_id, next_op_id, call, returned, issued, remote, arrived,
                       job_queue, outbound, status, inflight_args, dependencies, batch, ops_queue>>
    BY DEF InsertProduced
  <1>4. /\ Head(produced) = produced[1] /\ Head(produced) \in Result
        /\ DOMAIN produced = 1 .. Len(produced) /\ Len(produced) \in Nat \ {0}
        /\ DOMAIN produced' = 1 .. Len(produced) - 1
        /\ \A k \in 1 .. Len(produced) - 1 : produced'[k] = produced[k + 1]
        /\ \A k \in DOMAIN produced : produced[k] \in Result
    BY <1>3 DEF TypeInv, TypeOK
  <1>5. r \in ResultIds /\ r = produced[1].id /\ r \in Nat
        /\ \A k \in DOMAIN produced : produced[k].id \in ResultIds
    BY <1>2, <1>4, IdsAreNat DEF Result
  <1>6. /\ results'[r] # <<>> /\ \A p \in ResultIds : p # r => results'[p] = results[p]
    <2>1. results' = [results EXCEPT ![r] = <<Head(produced).val>>]
      BY <1>2 DEF InsertProduced, InsertResult
    <2>2. results'[r] = <<Head(produced).val>>
      BY <2>1, <1>5 DEF TypeInv, TypeOK
    <2>3. <<Head(produced).val>> # <<>>
      OBVIOUS
    <2>4. QED
      BY <2>1, <2>2, <2>3 DEF TypeInv, TypeOK
  <1>7. \A j \in DOMAIN produced' :
           /\ j \in Nat \ {0} /\ j + 1 \in DOMAIN produced /\ produced'[j] = produced[j + 1]
           /\ produced[j + 1].id = r + j /\ results[produced[j + 1].id] = <<>>
    <2>1. \A j \in DOMAIN produced' :
             j \in Nat \ {0} /\ j + 1 \in DOMAIN produced /\ produced'[j] = produced[j + 1]
      BY <1>4
    <2>2. \A j \in DOMAIN produced' : produced[j + 1].id = r + ((j + 1) - 1)
                                      /\ results[produced[j + 1].id] = <<>>
      BY <1>1, <1>5, <2>1 DEF StreamInv
    <2>3. QED
      BY <1>5, <2>1, <2>2
  <1>8. Made' \subseteq Made
    <2>1. r \in Made
      BY <1>3, <1>4, <1>5 DEF Made
    <2>2. QED
      BY <1>3, <1>6, <1>7, <2>1 DEF Made
  <1>9. Streams' = Streams /\ (\A i \in Streams : Stream(i)' = Stream(i)) /\ StreamIds' = StreamIds
    <2>1. Streams' = Streams /\ \A i \in Streams : Stream(i)' = Stream(i)
      BY <1>3 DEF Streams, Stream
    <2>2. QED
      BY <2>1 DEF StreamIds
  <1>10. StreamInv'
    <2>1. ASSUME NEW j \in DOMAIN produced'
          PROVE  results'[produced'[j].id] = <<>> /\ produced'[j].id = produced'[1].id + (j - 1)
      <3>1. 1 \in DOMAIN produced' /\ produced'[1].id = r + 1
        <4>1. 1 \in DOMAIN produced'
          BY <1>4, <2>1
        <4>2. QED
          BY <1>7, <4>1
      <3>2. produced'[j].id = r + j /\ j \in Nat \ {0}
        BY <1>7, <2>1
      <3>3. produced'[j].id \in ResultIds /\ produced'[j].id # r
        BY <1>5, <1>7, <2>1
      <3>4. QED
        BY <1>5, <1>6, <1>7, <3>1, <3>2, <3>3
    <2>2. QED
      BY <1>1, <1>9, <2>1 DEF StreamInv
  <1>11. \A o \in OpIds : InOps(o)' => InOps(o)
    BY <1>3 DEF InOps
  <1>12. Announced = {p \in ResultIds : results[p] # <<>>} \cup {r}
    BY <1>3, <1>5 DEF Announced
  <1>13. CountInv' /\ InflightExact'
    <2>1. CASE Len(produced) > 1
      <3>1. PICK s : s = produced[2].id
        OBVIOUS
      <3>2. 1 \in DOMAIN produced' /\ produced'[1].id = s /\ s = r + 1 /\ results[s] = <<>>
        BY <1>4, <1>7, <2>1, <3>1
      <3>3. s \in ResultIds /\ s # r
        BY <1>4, <1>5, <2>1, <3>1, <3>2
      <3>4. Announced' = Announced \cup {s}
        <4>1. produced' # <<>>
          BY <3>2
        <4>2. Announced' = {p \in ResultIds : results'[p] # <<>>} \cup {s}
          BY <3>2, <4>1 DEF Announced
        <4>3. {p \in ResultIds : results'[p] # <<>>} = {p \in ResultIds : results[p] # <<>>} \cup {r}
          BY <1>5, <1>6
        <4>4. QED
          BY <1>12, <4>2, <4>3
      <3>5. s \notin Announced
        BY <1>12, <3>2, <3>3
      <3>6. scan' = dependencies[s]
        BY <1>3, <2>1, <3>1
      <3>7. QED
        BY <1>1, <1>3, <1>11, <3>3, <3>4, <3>5, <3>6, ScanBegins
    <2>2. CASE ~(Len(produced) > 1)
      <3>1. produced' = <<>>
        BY <1>3, <1>4, <2>2 DEF TypeInv, TypeOK
      <3>2. Announced' = Announced
        BY <1>5, <1>6, <1>12, <3>1 DEF Announced
      <3>3. scan' = scan
        BY <1>3, <2>2
      <3>4. QED
        BY <1>1, <1>3, <1>11, <3>2, <3>3, NoScanBegins
    <2>3. QED
      BY <2>1, <2>2
  <1>14. \A t \in Threads, o \in OpIds : InCall(t, o)' => InCall(t, o)
    BY <1>3 DEF InCall
  <1>15. PlaceInv' /\ \A o \in OpIds : Waiting(o)' => Waiting(o)
    BY <1>1, <1>3, <1>14, PlaceFrame
  <1>16. /\ \A t \in Threads : CallIds(t)' = CallIds(t)
         /\ \A o \in OpIds : Out(o)' = Out(o)
         /\ Own' = Own /\ Known' = Known
    BY <1>3 DEF CallIds, Out, Own, Known
  <1>17. IdInv'
    BY <1>1, <1>8, <1>9, <1>15, <1>16, IdFrame
  <1>18. SentOnce' /\ NoPanic'
    BY <1>1, <1>3 DEF SentOnce, NoPanic
  <1>19. QED
    BY <1>10, <1>13, <1>15, <1>17, <1>18 DEF DispatchInv

\* The operation that handle_new_operation takes from the queue is nowhere else.
LEMMA NewOperationFacts ==
    ASSUME TypeInv, DispatchInv, HandleNewOperation, NEW o, o = Head(job_queue).op,
           NEW args, args = issued[o][1].args
    PROVE  /\ o \in OpIds /\ issued[o] # <<>> /\ args \in ArgLists(ResultIds)
           /\ Untouched(o) /\ Waiting(o)
           /\ \A t \in Threads : ~InCall(t, o)
           /\ \A i \in DOMAIN job_queue' : ~InJob(i, o)'
           /\ \A i \in DOMAIN job_queue', p \in OpIds :
                InJob(i, p)' => \E j \in DOMAIN job_queue : InJob(j, p)
           /\ \A i, j \in DOMAIN job_queue', p \in OpIds : InJob(i, p)' /\ InJob(j, p)' => i = j
           /\ \A p \in OpIds : ~InOps(p) /\ ~Has(scan, p)
           /\ Announced = {r \in ResultIds : results[r] # <<>>}
           /\ Missing(args) = Cardinality({k \in DOMAIN args : args[k] \notin Announced})
           /\ Missing(args) = 0 => \A k \in DOMAIN args : args[k] \in Announced
  <1>1. IdInv /\ StreamInv /\ PlaceInv /\ CountInv
    BY DEF DispatchInv
  <1>2. Pops("Op") /\ ops_queue = <<>> /\ produced = <<>> /\ scan = <<>>
    BY DEF HandleNewOperation, Pops
  <1>3. /\ \A i \in DOMAIN job_queue' : i \in Nat /\ i # 0 /\ i + 1 \in DOMAIN job_queue
        /\ \A i \in DOMAIN job_queue', p \in OpIds : InJob(i, p)' <=> InJob(i + 1, p)
        /\ 1 \in DOMAIN job_queue /\ Head(job_queue) = job_queue[1]
        /\ \A p \in OpIds : InJob(1, p) <=> Head(job_queue).op = p
    BY <1>2, JobPop
  <1>4. o \in OpIds /\ issued[o] # <<>>
    <2>1. Head(job_queue) \in ExecutorMessage /\ Head(job_queue).type = "Op"
      BY <1>2, PopFacts DEF HandleNewOperation
    <2>2. QED
      BY <1>3, <2>1, MessageFacts DEF TypeInv, OpsBuilt
  <1>5. args \in ArgLists(ResultIds)
    <2>1. issued[o][1] \in Operation
      BY <1>4, OptionElim DEF TypeInv, TypeOK, FabricTypeOK
    <2>2. QED
      BY <2>1, OperationFacts
  <1>6. InJob(1, o)
    BY <1>3, <1>4
  <1>7. Untouched(o) /\ Waiting(o) /\ \A t \in Threads : ~InCall(t, o)
    BY <1>1, <1>3, <1>4, <1>6 DEF PlaceInv, Waiting
  <1>8. \A i \in DOMAIN job_queue' : ~InJob(i, o)'
    <2>1. SUFFICES ASSUME NEW i \in DOMAIN job_queue', InJob(i, o)' PROVE FALSE
      OBVIOUS
    <2>2. i + 1 = 1
      BY <1>1, <1>3, <1>4, <1>6, <2>1 DEF PlaceInv
    <2>3. QED
      BY <1>3, <2>2
  <1>9. \A i, j \in DOMAIN job_queue', p \in OpIds : InJob(i, p)' /\ InJob(j, p)' => i = j
    <2>1. SUFFICES ASSUME NEW i \in DOMAIN job_queue', NEW j \in DOMAIN job_queue',
                          NEW p \in OpIds, InJob(i, p)', InJob(j, p)'
                   PROVE  i = j
      OBVIOUS
    <2>2. i + 1 = j + 1
      BY <1>1, <1>3, <2>1 DEF PlaceInv
    <2>3. QED
      BY <1>3, <2>2
  <1>10. \A p \in OpIds : ~InOps(p) /\ ~Has(scan, p)
    BY <1>2 DEF InOps, Has
  <1>11. Announced = {r \in ResultIds : results[r] # <<>>}
    BY <1>2 DEF Announced
  <1>12. \A k \in DOMAIN args : args[k] \in ResultIds
    BY <1>5 DEF ArgLists
  <1>13. PICK M : M = {k \in DOMAIN args : results[args[k]] = <<>>}
    OBVIOUS
  <1>14. M = {k \in DOMAIN args : args[k] \notin Announced}
    BY <1>11, <1>12, <1>13
  <1>15. Missing(args) = Cardinality(M)
    BY <1>13 DEF Missing
  <1>16. M \in SUBSET DOMAIN args
    BY <1>13
  <1>17. IsFiniteSet(M)
    BY <1>5, <1>16, PositionsBound
  <1>18. Cardinality(M) = 0 => M = {}
    BY <1>17, FS_EmptySet
  <1>19. Missing(args) = 0 => \A k \in DOMAIN args : args[k] \in Announced
    BY <1>14, <1>15, <1>18
  <1>20. QED
    BY <1>3, <1>4, <1>5, <1>7, <1>8, <1>9, <1>10, <1>11, <1>14, <1>15, <1>19

\* handle_new_operation: the operation is ready, or it is registered once per use and
\* buffered with the number of arguments that are not announced.
LEMMA HandleNewOperationStep ==
    ASSUME TypeInv, DispatchInv, HandleNewOperation
    PROVE  DispatchInv'
  <1> USE DEF callVars, netVars
  <1>1. IdInv /\ StreamInv /\ PlaceInv /\ CountInv /\ InflightExact /\ SentOnce /\ NoPanic
    BY DEF DispatchInv
  <1>2. PICK o : o = Head(job_queue).op
    OBVIOUS
  <1>3. PICK args : args = issued[o][1].args
    OBVIOUS
  <1>4. PICK missing : missing = Missing(args)
    OBVIOUS
  <1>5. /\ Pops("Op") /\ batch = <<>> /\ scan = <<>> /\ produced = <<>> /\ ops_queue = <<>>
        /\ UNCHANGED <<next_result_id, next_op_id, call, returned, issued, remote, arrived,
                       outbound, status, results, batch, produced, scan>>
    BY DEF HandleNewOperation, Pops
  <1>6. /\ o \in OpIds /\ issued[o] # <<>> /\ args \in ArgLists(ResultIds)
        /\ Untouched(o) /\ Waiting(o)
        /\ \A t \in Threads : ~InCall(t, o)
        /\ \A i \in DOMAIN job_queue' : ~InJob(i, o)'
        /\ \A i \in DOMAIN job_queue', p \in OpIds :
             InJob(i, p)' => \E j \in DOMAIN job_queue : InJob(j, p)
        /\ \A i, j \in DOMAIN job_queue', p \in OpIds : InJob(i, p)' /\ InJob(j, p)' => i = j
        /\ \A p \in OpIds : ~InOps(p) /\ ~Has(scan, p)
        /\ missing = Cardinality({k \in DOMAIN args : args[k] \notin Announced})
        /\ missing = 0 => \A k \in DOMAIN args : args[k] \in Announced
    BY <1>2, <1>3, <1>4, NewOperationFacts
  <1>7. Announced' = Announced /\ Made' = Made
    BY <1>5 DEF Announced, Made
  <1>8. \A t \in Threads, p \in OpIds : InCall(t, p)' <=> InCall(t, p)
    BY <1>5 DEF InCall
  <1>9. StreamInv' /\ StreamIds' \subseteq StreamIds
    BY <1>1, <1>5, StreamPopInv
  <1>10. inflight_args[o] = <<>> /\ \A r \in ResultIds : ~Has(dependencies[r], o)
    BY <1>6 DEF Untouched
  <1>11. \/ /\ missing = 0 /\ ops_queue' = <<o>> /\ UNCHANGED <<inflight_args, dependencies>>
         \/ /\ missing # 0
            /\ dependencies' = [r \in ResultIds |->
                     dependencies[r] \o [i \in 1 .. Uses(args, r) |-> o]]
            /\ inflight_args' = [inflight_args EXCEPT ![o] = <<missing>>]
            /\ UNCHANGED ops_queue
    BY <1>2, <1>3, <1>4 DEF HandleNewOperation
  <1>12. /\ \A p \in OpIds : p # o => inflight_args'[p] = inflight_args[p]
         /\ missing = 0 => inflight_args'[o] = <<>>
         /\ missing # 0 => inflight_args'[o] = <<missing>>
    BY <1>6, <1>10, <1>11 DEF TypeInv, TypeOK
  <1>13. /\ \A p \in OpIds : InOps(p)' <=> p = o /\ missing = 0
         /\ \A i, j \in DOMAIN ops_queue' : ops_queue'[i] = ops_queue'[j] => i = j
    <2>1. CASE missing = 0
      <3>1. DOMAIN ops_queue' = {1} /\ ops_queue'[1] = o
        BY <1>11, <2>1
      <3>2. QED
        BY <2>1, <3>1 DEF InOps
    <2>2. CASE missing # 0
      <3>1. DOMAIN ops_queue' = {}
        BY <1>5, <1>11, <2>2
      <3>2. QED
        BY <2>2, <3>1 DEF InOps
    <2>3. QED
      BY <2>1, <2>2
  <1>14. ASSUME NEW r \in ResultIds
         PROVE  /\ \A p \in OpIds : p # o => /\ Has(dependencies'[r], p) <=> Has(dependencies[r], p)
                                             /\ Count(dependencies'[r], p) = Count(dependencies[r], p)
                /\ missing = 0 => ~Has(dependencies'[r], o)
                /\ missing # 0 => Count(dependencies'[r], o) = Uses(args, r)
    <2>1. CASE missing = 0
      BY <1>10, <1>11, <1>14, <2>1
    <2>2. CASE missing # 0
      <3>1. PICK n : n = Uses(args, r)
        OBVIOUS
      <3>2. PICK s : s = dependencies[r]
        OBVIOUS
      <3>3. n \in Nat /\ s \in Seq(OpIds)
        BY <1>6, <3>1, <3>2, UsesPositive DEF TypeInv, TypeOK
      <3>4. dependencies'[r] = s \o [i \in 1 .. n |-> o]
        BY <1>11, <2>2, <3>1, <3>2
      <3>5. \A p \in OpIds :
              /\ Count(dependencies'[r], p) = Count(s, p) + (IF p = o THEN n ELSE 0)
              /\ Has(dependencies'[r], p) <=> Has(s, p) \/ (p = o /\ n > 0)
        BY <1>6, <3>3, <3>4, CountRegister
      <3>6. Count(s, o) = 0 /\ \A p \in OpIds : Count(s, p) \in Nat
        BY <1>10, <3>2, <3>3, CountFacts
      <3>7. Count(dependencies'[r], o) = n
        BY <1>6, <3>3, <3>5, <3>6
      <3>8. \A p \in OpIds : p # o => Count(dependencies'[r], p) = Count(s, p)
        BY <3>5, <3>6
      <3>9. QED
        BY <2>2, <3>1, <3>2, <3>5, <3>7, <3>8
    <2>3. QED
      BY <2>1, <2>2
  <1>15. \A p \in OpIds : p # o => (Untouched(p)' <=> Untouched(p))
    BY <1>6, <1>12, <1>13, <1>14 DEF Untouched
  <1>16. PlaceInv'
    <2> USE <1>1
    <2>1. \A p \in OpIds : p >= next_op_id' => issued'[p] = <<>>
      BY <1>5 DEF PlaceInv
    <2>2. \A p \in OpIds : issued'[p] = <<>> => Untouched(p)'
      BY <1>5, <1>6, <1>15 DEF PlaceInv
    <2>3. \A t, u \in Threads, p \in OpIds : InCall(t, p)' /\ InCall(u, p)' => t = u
      BY <1>8 DEF PlaceInv
    <2>4. \A t \in Threads, p \in OpIds : InCall(t, p)' =>
             Untouched(p)' /\ \A i \in DOMAIN job_queue' : ~InJob(i, p)'
      BY <1>6, <1>8, <1>15 DEF PlaceInv
    <2>5. \A i \in DOMAIN job_queue', p \in OpIds : InJob(i, p)' => Untouched(p)'
      BY <1>6, <1>15 DEF PlaceInv
    <2>6. \A p \in OpIds : InOps(p)' => inflight_args'[p] = <<>>
      BY <1>12, <1>13
    <2>7. QED
      BY <1>6, <1>13, <2>1, <2>2, <2>3, <2>4, <2>5, <2>6 DEF PlaceInv
  <1>17. CountInv'
    <2>1. \A p \in OpIds : inflight_args'[p] # <<>> =>
             \A r \in ResultIds : Count(dependencies'[r], p) = Uses(issued'[p][1].args, r)
      BY <1>1, <1>3, <1>5, <1>12, <1>14 DEF CountInv
    <2>2. \A p \in OpIds : inflight_args'[p] = <<>> =>
             /\ ~Has(scan', p)
             /\ \A r \in ResultIds : Has(dependencies'[r], p) => r \in Announced'
      <3>1. inflight_args'[o] = <<>> => missing = 0
        BY <1>12
      <3>2. QED
        BY <1>1, <1>5, <1>6, <1>7, <1>12, <1>14, <3>1 DEF CountInv
    <2>3. \A p \in OpIds : InOps(p)' =>
             \A k \in DOMAIN issued'[p][1].args : issued'[p][1].args[k] \in Announced'
      BY <1>3, <1>5, <1>6, <1>7, <1>13
    <2>4. QED
      BY <2>1, <2>2, <2>3 DEF CountInv
  <1>18. InflightExact'
    <2>1. ASSUME NEW p \in OpIds, inflight_args'[p] # <<>>
          PROVE  inflight_args'[p][1] =
                   Cardinality({k \in DOMAIN issued'[p][1].args : issued'[p][1].args[k] \notin Announced'})
                   + Cardinality({i \in DOMAIN scan' : scan'[i] = p})
      <3>1. CASE p = o
        <4>1. inflight_args'[o] = <<missing>>
          BY <1>12, <2>1, <3>1
        <4>2. {i \in DOMAIN scan' : scan'[i] = p} = {}
          BY <1>5
        <4>3. Cardinality({i \in DOMAIN scan' : scan'[i] = p}) = 0
          BY <4>2, FS_EmptySet
        <4>4. missing \in Nat
          <5>1. {k \in DOMAIN args : results[args[k]] = <<>>} \in SUBSET DOMAIN args
            OBVIOUS
          <5>2. missing \in 0 .. MaxArgs
            BY <1>4, <1>6, <5>1, PositionsBound DEF Missing
          <5>3. QED
            BY <5>2, FabricAssumption
        <4>5. missing = Cardinality({k \in DOMAIN issued'[p][1].args : issued'[p][1].args[k] \notin Announced'})
          BY <1>3, <1>5, <1>6, <1>7, <3>1
        <4>6. inflight_args'[p][1] = missing
          BY <3>1, <4>1
        <4>7. missing = missing + 0
          BY <4>4
        <4>8. QED
          BY <4>3, <4>5, <4>6, <4>7
      <3>2. CASE p # o
        <4>1. inflight_args'[p] = inflight_args[p]
          BY <1>12, <3>2
        <4>2. QED
          BY <1>1, <1>5, <1>7, <2>1, <4>1 DEF InflightExact
      <3>3. QED
        BY <3>1, <3>2
    <2>2. QED
      BY <2>1 DEF InflightExact
  <1>19. \A p \in OpIds : Waiting(p)' => Waiting(p)
    BY <1>6, <1>8, <1>12, <1>13 DEF Waiting
  <1>20. /\ \A t \in Threads : CallIds(t)' = CallIds(t)
         /\ \A p \in OpIds : Out(p)' = Out(p)
         /\ Own' = Own /\ Known' = Known
    BY <1>5 DEF CallIds, Out, Own, Known
  <1>21. IdInv'
    BY <1>1, <1>7, <1>9, <1>19, <1>20, IdFrame
  <1>22. SentOnce' /\ NoPanic'
    BY <1>1, <1>5 DEF SentOnce, NoPanic
  <1>23. QED
    BY <1>9, <1>16, <1>17, <1>18, <1>21, <1>22 DEF DispatchInv

-----------------------------------------------------------------------------
(* The invariant, and what follows from it. *)

\* At the start the constants are on their way and no id was taken twice.
LEMMA InitDispatchInv == Init => DispatchInv
  <1> SUFFICES ASSUME Init PROVE DispatchInv
    OBVIOUS
  <1> USE FabricAssumption
  <1>1. TypeInv
    BY InitTypeInv
  <1>2. /\ \A t \in Threads : call[t] = <<>>
        /\ \A o \in OpIds : issued[o] = <<>> /\ inflight_args[o] = <<>>
        /\ \A r \in ResultIds : results[r] = <<>> /\ dependencies[r] = <<>>
        /\ batch = <<>> /\ ops_queue = <<>> /\ produced = <<>> /\ scan = <<>> /\ outbound = <<>>
        /\ status = "running" /\ next_op_id = 0 /\ next_result_id = NConst
        /\ remote \in SUBSET (NConst .. MaxResults - 1)
        /\ job_queue = [i \in 1 .. NConst |-> ResultsMsg(SourceResults(i - 1, 1))]
    BY DEF Init, FabricInit
  <1>3. /\ \A t \in Threads : CallIds(t) = {}
        /\ \A o \in OpIds : Out(o) = {}
        /\ Made = {} /\ Announced = {}
    BY <1>2 DEF CallIds, Out, Made, Announced
  <1>4. Streams = 0 .. NConst /\ Stream(0) = <<>>
    <2>1. Len(job_queue) = NConst
      BY <1>2
    <2>2. QED
      BY <1>2, <2>1 DEF Streams, Stream
  <1>5. ASSUME NEW i \in Streams, i # 0
        PROVE  i \in 1 .. NConst /\ DOMAIN Stream(i) = {1} /\ Stream(i)[1].id = i - 1
    <2>1. i \in 1 .. NConst
      BY <1>4, <1>5
    <2>2. job_queue[i] = ResultsMsg(SourceResults(i - 1, 1))
      BY <1>2, <2>1
    <2>3. Stream(i) = SourceResults(i - 1, 1)
      BY <1>5, <2>2 DEF Stream, ResultsMsg
    <2>4. DOMAIN SourceResults(i - 1, 1) = {1} /\ SourceResults(i - 1, 1)[1].id = (i - 1) + 1 - 1
      BY DEF SourceResults
    <2>5. QED
      BY <2>1, <2>3, <2>4
  <1>6. \A i \in Streams : \A k \in DOMAIN Stream(i) :
            i \in 1 .. NConst /\ k = 1 /\ Stream(i)[k].id = i - 1
    BY <1>4, <1>5
  <1>7. StreamInv
    <2>1. \A i, j \in Streams : \A k \in DOMAIN Stream(i), l \in DOMAIN Stream(j) :
            Stream(i)[k].id = Stream(j)[l].id => i = j /\ k = l
      BY <1>6
    <2>2. QED
      BY <1>2, <2>1 DEF StreamInv
  <1>8. IdInv
    <2>1. StreamIds \subseteq 0 .. NConst - 1
      BY <1>6 DEF StreamIds
    <2>2. 0 .. NConst - 1 \subseteq Known
      BY <1>2 DEF Known, Own
    <2>3. QED
      BY <1>3, <2>1, <2>2 DEF IdInv
  <1>9. /\ \A t \in Threads, o \in OpIds : ~InCall(t, o)
        /\ \A i \in DOMAIN job_queue, o \in OpIds : ~InJob(i, o)
        /\ \A o \in OpIds : Untouched(o) /\ ~InOps(o)
    BY <1>2 DEF InCall, InJob, Untouched, InOps, Has, ResultsMsg
  <1>10. PlaceInv
    BY <1>2, <1>9 DEF PlaceInv
  <1>11. CountInv
    BY <1>2, <1>9 DEF CountInv, Has
  <1>12. InflightExact /\ SentOnce /\ NoPanic
    BY <1>2 DEF InflightExact, SentOnce, NoPanic
  <1>13. QED
    BY <1>7, <1>8, <1>10, <1>11, <1>12 DEF DispatchInv

\* DispatchInv is inductive, relative to TypeInv.
LEMMA DispatchInvStep == TypeInv /\ DispatchInv /\ [Next]_vars => DispatchInv'
  <1> SUFFICES ASSUME TypeInv, DispatchInv, [Next]_vars PROVE DispatchInv'
    OBVIOUS
  <1>1. CASE ExecutorNext
    BY <1>1, PopResultsStep, HandleNewResultStep, AppendReadyOpStep, ComputeResultStep,
       InsertProducedStep, HandleNewOperationStep, HandleNewWaiterStep, HandleShutdownStep
    DEF ExecutorNext
  <1>2. CASE FabricNext /\ UNCHANGED executorVars
    BY <1>2, FabricNextStep
  <1>3. CASE UNCHANGED vars
    <2>1. /\ UNCHANGED executorVars /\ UNCHANGED job_queue
          /\ UNCHANGED <<next_result_id, next_op_id, call, issued, remote, arrived, outbound>>
      BY <1>3 DEF vars, fabricVars, callVars, netVars
    <2>2. next_result_id \in Nat
      BY FabricAssumption DEF TypeInv, TypeOK, FabricTypeOK
    <2>3. QED
      BY <2>1, <2>2, QuietStep
  <1>4. QED
    BY <1>1, <1>2, <1>3 DEF Next

\* In every behaviour each result id has one origin and is made once, and each
\* operation is in one place from new_op to execute_operations.
THEOREM DispatchInvariant == Spec => []DispatchInv
  BY TypeInvariant, InitDispatchInv, DispatchInvStep, PTL DEF Spec

\* No unwrap of the single threaded executor fails, for any circuit: an operation
\* found in the dependency map is buffered, and an operation that compute_result
\* runs has all its argument values.
THEOREM NeverPanics == Spec => []NoPanic
  <1>1. DispatchInv => NoPanic
    BY DEF DispatchInv
  <1>2. QED
    BY DispatchInvariant, <1>1, PTL

\* The inflight_args counter of every buffered operation is exact, with repeated
\* arguments and with arguments that were ready when the operation was registered.
THEOREM InflightIsExact == Spec => []InflightExact
  <1>1. DispatchInv => InflightExact
    BY DEF DispatchInv
  <1>2. QED
    BY DispatchInvariant, <1>1, PTL

\* No network operation hands its payload to the outbound queue twice.
THEOREM SendsOnce == Spec => []SentOnce
  <1>1. DispatchInv => SentOnce
    BY DEF DispatchInv
  <1>2. QED
    BY DispatchInvariant, <1>1, PTL

-----------------------------------------------------------------------------
(* The refinement of the dataflow graph: results are written once, with the *)
(* value of their origin, an output only after all the arguments of its     *)
(* operation, and a handle is handed the result it awaits.  The steps of    *)
(* the graph need what DispatchInv says about ids (a result that is         *)
(* inserted is new, a source is no operation's output), what Filled says    *)
(* about handles, and that values travel unchanged: ValueInv.               *)

\* A result on its way to the executor carries its source's value.
SourcesInv ==
    \A i \in Streams : \A k \in DOMAIN Stream(i) : Stream(i)[k].val = Source(Stream(i)[k].id)

\* The values that an operation computes from the results of its arguments.
ArgVals(args) == [k \in DOMAIN args |-> results[args[k]][1]]

\* The outputs not yet inserted are those of one operation, whose arguments all
\* have their values, computed from these values.
OutputsInv ==
    produced # <<>> => \E o \in OpIds :
        /\ issued[o] # <<>>
        /\ \A k \in DOMAIN issued[o][1].args : results[issued[o][1].args[k]] # <<>>
        /\ \A j \in DOMAIN produced :
             /\ produced[j].id \in ResultIdsOf(issued[o][1])
             /\ produced[j].val = Apply(produced[j].id, ArgVals(issued[o][1].args))

ValueInv == SourcesInv /\ OutputsInv

RefineInv == TypeInv /\ Filled /\ DispatchInv /\ ValueInv

-----------------------------------------------------------------------------
(* Values travel unchanged. *)

\* A job is pushed: its results, if it has any, are sources.
LEMMA SourcesPush ==
    ASSUME TypeInv, SourcesInv, NEW m \in ExecutorMessage,
           job_queue' = Append(job_queue, m), batch' = batch,
           m.type = "Results" =>
              \A k \in DOMAIN m.results : m.results[k].val = Source(m.results[k].id)
    PROVE  SourcesInv'
  <1>1. PICK last : last = Len(job_queue) + 1
    OBVIOUS
  <1>2. PICK src : src = IF m.type = "Results" THEN m.results ELSE <<>>
    OBVIOUS
  <1>3. /\ Streams' = Streams \cup {last}
        /\ \A i \in Streams : Stream(i)' = Stream(i)
        /\ Stream(last)' = src
    BY <1>1, <1>2, StreamPush
  <1>4. \A k \in DOMAIN src : src[k].val = Source(src[k].id)
    BY <1>2
  <1>5. QED
    BY <1>3, <1>4 DEF SourcesInv

\* The streams are left alone.
LEMMA SourcesSame ==
    ASSUME SourcesInv, UNCHANGED <<job_queue, batch>>
    PROVE  SourcesInv'
  <1>1. Streams' = Streams /\ \A i \in Streams : Stream(i)' = Stream(i)
    BY DEF Streams, Stream
  <1>2. QED
    BY <1>1 DEF SourcesInv

\* A job is popped.
LEMMA SourcesPop ==
    ASSUME TypeInv, SourcesInv, NEW type, Pops(type),
           batch' = IF type = "Results" THEN Head(job_queue).results ELSE <<>>
    PROVE  SourcesInv'
  <1>1. \A i \in Streams' : i + 1 \in Streams /\ Stream(i)' = Stream(i + 1)
    BY StreamPop
  <1>2. QED
    BY <1>1 DEF SourcesInv

\* The outputs being inserted are left alone, and operations are only added.
LEMMA OutputsSame ==
    ASSUME OutputsInv, UNCHANGED <<produced, results>>,
           \A o \in OpIds : issued[o] # <<>> => issued'[o] = issued[o]
    PROVE  OutputsInv'
  <1>1. CASE produced = <<>>
    BY <1>1 DEF OutputsInv
  <1>2. CASE produced # <<>>
    <2>1. PICK o \in OpIds :
             /\ issued[o] # <<>>
             /\ \A k \in DOMAIN issued[o][1].args : results[issued[o][1].args[k]] # <<>>
             /\ \A j \in DOMAIN produced :
                  /\ produced[j].id \in ResultIdsOf(issued[o][1])
                  /\ produced[j].val = Apply(produced[j].id, ArgVals(issued[o][1].args))
      BY <1>2 DEF OutputsInv
    <2>2. issued'[o] = issued[o]
      BY <2>1
    <2>3. ArgVals(issued[o][1].args)' = ArgVals(issued[o][1].args)
      BY <2>2 DEF ArgVals
    <2>4. QED
      BY <2>1, <2>2, <2>3 DEF OutputsInv
  <1>3. QED
    BY <1>1, <1>2

\* The batch loses its first result.
LEMMA SourcesTail ==
    ASSUME TypeInv, SourcesInv, batch # <<>>, batch' = Tail(batch), job_queue' = job_queue
    PROVE  SourcesInv'
  <1>1. /\ DOMAIN batch = 1 .. Len(batch) /\ DOMAIN batch' = 1 .. Len(batch) - 1
        /\ Len(batch) \in Nat
        /\ \A k \in 1 .. Len(batch) - 1 : batch'[k] = batch[k + 1]
    BY DEF TypeInv, TypeOK
  <1>2. /\ Streams' = Streams /\ Stream(0) = batch /\ Stream(0)' = batch' /\ 0 \in Streams
        /\ \A i \in Streams : i # 0 => Stream(i)' = Stream(i)
    <2>1. Len(job_queue) \in Nat
      BY DEF TypeInv, TypeOK, FabricTypeOK
    <2>2. QED
      BY <2>1 DEF Streams, Stream
  <1>3. \A k \in DOMAIN batch' : k + 1 \in DOMAIN batch /\ batch'[k] = batch[k + 1]
    BY <1>1
  <1>4. \A k \in DOMAIN batch : batch[k].val = Source(batch[k].id)
    BY <1>2 DEF SourcesInv
  <1>5. \A k \in DOMAIN batch' : batch'[k].val = Source(batch'[k].id)
    BY <1>3, <1>4
  <1>6. QED
    BY <1>2, <1>5 DEF SourcesInv

\* compute_result computes its outputs from the values of the arguments.
LEMMA ComputeOutputs ==
    ASSUME TypeInv, DispatchInv, ComputeResult
    PROVE  OutputsInv'
  <1>1. PICK q : q = ops_queue[Len(ops_queue)]
    OBVIOUS
  <1>2. PICK op : op = issued[q][1]
    OBVIOUS
  <1>3. /\ q \in OpIds /\ issued[q] # <<>> /\ op \in Operation
        /\ \A k \in DOMAIN op.args : results[op.args[k]] # <<>>
        /\ DOMAIN produced' = 1 .. op.output_arity
        /\ \A j \in DOMAIN produced' :
             /\ produced'[j].id = op.result_id + j - 1
             /\ produced'[j].val = Apply(op.result_id + j - 1,
                                         [k \in DOMAIN op.args |-> results[op.args[k]][1]])
    BY <1>1, <1>2, ComputeFacts
  <1>4. results' = results /\ issued' = issued
    BY DEF ComputeResult, callVars
  <1>5. ArgVals(op.args)' = [k \in DOMAIN op.args |-> results[op.args[k]][1]]
    BY <1>4 DEF ArgVals
  <1>6. op.result_id \in Nat /\ op.output_arity \in Nat
    BY <1>3, OperationFacts
  <1>7. \A j \in DOMAIN produced' : produced'[j].id \in ResultIdsOf(op)
    <2>1. \A j \in 1 .. op.output_arity :
             op.result_id + j - 1 \in op.result_id .. op.result_id + op.output_arity - 1
      BY <1>6
    <2>2. \A j \in DOMAIN produced' : produced'[j].id = op.result_id + j - 1
      BY <1>3
    <2>3. QED
      BY <1>3, <2>1, <2>2 DEF ResultIdsOf
  <1>8. \A j \in DOMAIN produced' :
           produced'[j].val = Apply(produced'[j].id, ArgVals(op.args)')
    BY <1>3, <1>5
  <1>9. QED
    BY <1>2, <1>3, <1>4, <1>7, <1>8 DEF OutputsInv

\* Inserting an output changes no argument of its operation.
LEMMA InsertOutputs ==
    ASSUME TypeInv, DispatchInv, OutputsInv, InsertProduced
    PROVE  OutputsInv'
  <1>1. PICK r : r = Head(produced).id
    OBVIOUS
  <1>2. produced # <<>> /\ produced' = Tail(produced) /\ issued' = issued
    BY DEF InsertProduced, callVars
  <1>3. /\ Head(produced) = produced[1] /\ 1 \in DOMAIN produced /\ produced[1] \in Result
        /\ \A j \in DOMAIN produced' : j + 1 \in DOMAIN produced /\ produced'[j] = produced[j + 1]
    BY <1>2 DEF TypeInv, TypeOK
  <1>4. results[r] = <<>> /\ r \in ResultIds
    BY <1>1, <1>3 DEF DispatchInv, StreamInv, Result
  <1>5. \A p \in ResultIds : p # r => results'[p] = results[p]
    BY <1>1 DEF InsertProduced, InsertResult, TypeInv, TypeOK
  <1>6. PICK o \in OpIds :
             /\ issued[o] # <<>>
             /\ \A k \in DOMAIN issued[o][1].args : results[issued[o][1].args[k]] # <<>>
             /\ \A j \in DOMAIN produced :
                  /\ produced[j].id \in ResultIdsOf(issued[o][1])
                  /\ produced[j].val = Apply(produced[j].id, ArgVals(issued[o][1].args))
    BY <1>2 DEF OutputsInv
  <1>7. PICK args : args = issued[o][1].args
    OBVIOUS
  <1>8. args \in ArgLists(ResultIds)
    <2>1. issued[o][1] \in Operation
      BY <1>6, OptionElim DEF TypeInv, TypeOK, FabricTypeOK
    <2>2. QED
      BY <1>7, <2>1, OperationFacts
  <1>9. \A k \in DOMAIN args : args[k] \in ResultIds
    BY <1>8 DEF ArgLists
  <1>10. \A k \in DOMAIN args : results'[args[k]] = results[args[k]]
    BY <1>4, <1>5, <1>6, <1>7, <1>9
  <1>11. ArgVals(args)' = ArgVals(args)
    BY <1>10 DEF ArgVals
  <1>12. \A j \in DOMAIN produced' :
           /\ produced'[j].id \in ResultIdsOf(issued[o][1])
           /\ produced'[j].val = Apply(produced'[j].id, ArgVals(args))
    BY <1>3, <1>6, <1>7
  <1>13. QED
    BY <1>2, <1>6, <1>7, <1>10, <1>11, <1>12 DEF OutputsInv

\* The application and the network bring sources only.
LEMMA FabricValues ==
    ASSUME TypeInv, DispatchInv, ValueInv, FabricNext, UNCHANGED executorVars
    PROVE  ValueInv'
  <1>1. SourcesInv /\ OutputsInv
    BY DEF ValueInv
  <1>2. produced' = produced /\ results' = results /\ batch' = batch
    BY DEF executorVars
  <1>3. ASSUME NEW t \in Threads, AllocatePush(t) PROVE ValueInv'
    <2>1. PICK c : c = call[t][1]
      OBVIOUS
    <2>2. c \in Call /\ c.step = "push"
      BY <1>3, <2>1, OptionElim DEF AllocatePush, TypeInv, TypeOK, FabricTypeOK
    <2>3. SourceResults(c.first, c.n) \in Seq(Result)
      BY <2>2, CallPushFacts
    <2>4. c.first \in Nat
      BY <2>2, IdsAreNat DEF Call
    <2>5. c.n \in Nat
      BY <2>2, FabricAssumption DEF Call
    <2>6. PICK m : m = ResultsMsg(SourceResults(c.first, c.n))
      OBVIOUS
    <2>7. m \in ExecutorMessage /\ m.type = "Results" /\ m.results = SourceResults(c.first, c.n)
      BY <2>3, <2>6 DEF ResultsMsg, ExecutorMessage
    <2>8. \A k \in DOMAIN m.results : m.results[k].val = Source(m.results[k].id)
      BY <2>4, <2>5, <2>7, SourceValues
    <2>9. job_queue' = Append(job_queue, m) /\ issued' = issued
      BY <1>3, <2>1, <2>6 DEF AllocatePush, Push
    <2>10. QED
      BY <1>1, <1>2, <2>7, <2>8, <2>9, SourcesPush, OutputsSame DEF ValueInv
  <1>4. ASSUME NEW r \in ResultIds, ReadLoop(r) PROVE ValueInv'
    <2>1. r \in Nat /\ r + 1 <= MaxResults /\ 1 \in Nat
      BY FabricAssumption DEF ResultIds
    <2>2. SourceResults(r, 1) \in Seq(Result)
      BY <2>1, SourceResultsType
    <2>3. PICK m : m = ResultsMsg(SourceResults(r, 1))
      OBVIOUS
    <2>4. m \in ExecutorMessage /\ m.type = "Results" /\ m.results = SourceResults(r, 1)
      BY <2>2, <2>3 DEF ResultsMsg, ExecutorMessage
    <2>5. \A k \in DOMAIN m.results : m.results[k].val = Source(m.results[k].id)
      BY <2>1, <2>4, SourceValues
    <2>6. job_queue' = Append(job_queue, m) /\ issued' = issued
      BY <1>4, <2>3 DEF ReadLoop, Push, callVars
    <2>7. QED
      BY <1>1, <1>2, <2>4, <2>5, <2>6, SourcesPush, OutputsSame DEF ValueInv
  <1>5. ASSUME NEW t \in Threads, NewOpId(t) PROVE ValueInv'
    <2>1. \A o \in OpIds : o >= next_op_id => issued[o] = <<>>
      BY DEF DispatchInv, PlaceInv
    <2>2. /\ job_queue' = job_queue
          /\ issued' = [issued EXCEPT ![next_op_id] = <<call[t][1].body>>]
          /\ next_op_id < MaxOps /\ next_op_id \in 0 .. MaxOps
      BY <1>5 DEF NewOpId, TypeInv, TypeOK, FabricTypeOK
    <2>3. next_op_id \in OpIds /\ next_op_id >= next_op_id
      BY <2>2, FabricAssumption DEF OpIds
    <2>4. issued[next_op_id] = <<>>
      BY <2>1, <2>3
    <2>5. \A o \in OpIds : issued[o] # <<>> => issued'[o] = issued[o]
      BY <2>2, <2>4 DEF TypeInv, TypeOK, FabricTypeOK
    <2>6. QED
      BY <1>1, <1>2, <2>2, <2>5, SourcesSame, OutputsSame DEF ValueInv
  <1>6. ASSUME NEW t \in Threads, NewOpPush(t) PROVE ValueInv'
    <2>1. PICK m : m = OpMsg(call[t][1].op)
      OBVIOUS
    <2>2. call[t][1] \in Call /\ call[t][1].step = "push_op"
      BY <1>6, OptionElim DEF NewOpPush, TypeInv, TypeOK, FabricTypeOK
    <2>3. call[t][1].op \in OpIds
      BY <2>2 DEF Call
    <2>4. m \in ExecutorMessage /\ m.type = "Op"
      BY <2>1, <2>3 DEF OpMsg, ExecutorMessage
    <2>5. job_queue' = Append(job_queue, m) /\ issued' = issued
      BY <1>6, <2>1 DEF NewOpPush, Push
    <2>6. QED
      BY <1>1, <1>2, <2>4, <2>5, SourcesPush, OutputsSame DEF ValueInv
  <1>7. CASE Shutdown
    <2>1. ShutdownMsg \in ExecutorMessage /\ ShutdownMsg.type = "Shutdown"
      BY DEF ShutdownMsg, ExecutorMessage
    <2>2. job_queue' = Append(job_queue, ShutdownMsg) /\ issued' = issued
      BY <1>7 DEF Shutdown, Push, callVars
    <2>3. QED
      BY <1>1, <1>2, <2>1, <2>2, SourcesPush, OutputsSame DEF ValueInv
  <1>8. ASSUME NEW h \in Handles, NEW r \in ResultIds, NEW w \in Wakers, PollRegister(h, r, w)
        PROVE  ValueInv'
    <2>1. WaiterMsg(h) \in ExecutorMessage /\ WaiterMsg(h).type = "NewWaiter"
      BY DEF WaiterMsg, ExecutorMessage
    <2>2. job_queue' = Append(job_queue, WaiterMsg(h)) /\ issued' = issued
      BY <1>8 DEF PollRegister, Push, callVars
    <2>3. QED
      BY <1>1, <1>2, <2>1, <2>2, SourcesPush, OutputsSame DEF ValueInv
  <1>9. ASSUME \/ \E t \in Threads :
                    \/ ReceiveValue(t)
                    \/ \E n \in 1 .. MaxArity : AllocateIds(t, n)
                    \/ \E args \in ArgLists(returned), arity \in 1 .. MaxArity, type \in OpTypes :
                         NewOpResultIds(t, args, arity, type)
               \/ \E h \in Handles : PollRead(h) \/ \E w \in Wakers : PollAgain(h, w)
        PROVE  ValueInv'
    <2>1. job_queue' = job_queue /\ issued' = issued
      BY <1>9 DEF ReceiveValue, AllocateIds, NewOpResultIds, PollRead, PollAgain, callVars
    <2>2. QED
      BY <1>1, <1>2, <2>1, SourcesSame, OutputsSame DEF ValueInv
  <1>10. QED
    BY <1>3, <1>4, <1>5, <1>6, <1>7, <1>8, <1>9 DEF FabricNext, CallStep

\* ValueInv is inductive, relative to TypeInv and DispatchInv.
LEMMA ValueInvStep == TypeInv /\ DispatchInv /\ ValueInv /\ [Next]_vars => ValueInv'
  <1> SUFFICES ASSUME TypeInv, DispatchInv, ValueInv, [Next]_vars PROVE ValueInv'
    OBVIOUS
  <1>1. SourcesInv /\ OutputsInv
    BY DEF ValueInv
  <1>2. CASE PopResults
    <2>1. Pops("Results") /\ batch' = Head(job_queue).results
          /\ UNCHANGED <<produced, results, issued>>
      BY <1>2 DEF PopResults, callVars
    <2>2. QED
      BY <1>1, <2>1, SourcesPop, OutputsSame DEF ValueInv
  <1>3. CASE HandleNewOperation \/ HandleNewWaiter \/ HandleShutdown
    <2>1. /\ \E type : type # "Results" /\ Pops(type)
          /\ batch = <<>> /\ batch' = batch /\ UNCHANGED <<produced, results, issued>>
      BY <1>3 DEF HandleNewOperation, HandleNewWaiter, HandleShutdown, Pops, callVars
    <2>2. SourcesInv'
      BY <1>1, <2>1, SourcesPop
    <2>3. OutputsInv'
      BY <1>1, <2>1, OutputsSame
    <2>4. QED
      BY <2>2, <2>3 DEF ValueInv
  <1>4. CASE HandleNewResult
    <2>1. /\ batch # <<>> /\ batch' = Tail(batch) /\ job_queue' = job_queue
          /\ produced' = <<>>
      BY <1>4 DEF HandleNewResult
    <2>2. OutputsInv'
      BY <2>1 DEF OutputsInv
    <2>3. QED
      BY <1>1, <2>1, <2>2, SourcesTail DEF ValueInv
  <1>5. CASE AppendReadyOp
    <2>1. UNCHANGED <<job_queue, batch, produced, results, issued>>
      BY <1>5 DEF AppendReadyOp, fabricVars, callVars
    <2>2. QED
      BY <1>1, <2>1, SourcesSame, OutputsSame DEF ValueInv
  <1>6. CASE ComputeResult
    <2>1. UNCHANGED <<job_queue, batch>>
      BY <1>6 DEF ComputeResult
    <2>2. QED
      BY <1>1, <1>6, <2>1, SourcesSame, ComputeOutputs DEF ValueInv
  <1>7. CASE InsertProduced
    <2>1. UNCHANGED <<job_queue, batch>>
      BY <1>7 DEF InsertProduced
    <2>2. QED
      BY <1>1, <1>7, <2>1, SourcesSame, InsertOutputs DEF ValueInv
  <1>8. CASE FabricNext /\ UNCHANGED executorVars
    BY <1>8, FabricValues
  <1>9. CASE UNCHANGED vars
    <2>1. UNCHANGED <<job_queue, batch, produced, results, issued>>
      BY <1>9 DEF vars, fabricVars, callVars, executorVars
    <2>2. QED
      BY <1>1, <2>1, SourcesSame, OutputsSame DEF ValueInv
  <1>10. QED
    BY <1>2, <1>3, <1>4, <1>5, <1>6, <1>7, <1>8, <1>9 DEF Next, ExecutorNext

\* At the start every constant carries its value.
LEMMA InitValueInv == Init => ValueInv
  <1> SUFFICES ASSUME Init PROVE ValueInv
    OBVIOUS
  <1> USE FabricAssumption
  <1>1. /\ batch = <<>> /\ produced = <<>>
        /\ job_queue = [i \in 1 .. NConst |-> ResultsMsg(SourceResults(i - 1, 1))]
    BY DEF Init, FabricInit
  <1>2. Len(job_queue) = NConst
    BY <1>1
  <1>3. ASSUME NEW i \in Streams, NEW k \in DOMAIN Stream(i)
        PROVE  Stream(i)[k].val = Source(Stream(i)[k].id)
    <2>1. i # 0
      BY <1>1, <1>3 DEF Stream
    <2>2. i \in 1 .. NConst
      BY <1>2, <2>1 DEF Streams
    <2>3. job_queue[i] = ResultsMsg(SourceResults(i - 1, 1)) /\ i - 1 \in Nat
      BY <1>1, <2>2
    <2>4. Stream(i) = SourceResults(i - 1, 1)
      BY <2>1, <2>3 DEF Stream, ResultsMsg
    <2>5. QED
      BY <1>3, <2>3, <2>4, SourceValues
  <1>4. QED
    BY <1>1, <1>3 DEF ValueInv, SourcesInv, OutputsInv

\* RefineInv holds in every behaviour.
THEOREM RefineInvariant == Spec => []RefineInv
  <1>1. Init => Filled
    BY DEF Init, FabricInit, Filled
  <1>2. TypeInv /\ Filled /\ DispatchInv /\ ValueInv => RefineInv
    BY DEF RefineInv
  <1>3. QED
    BY TypeInvariant, DispatchInvariant, <1>1, <1>2, FilledStep, InitValueInv, ValueInvStep,
       PTL DEF Spec

-----------------------------------------------------------------------------
(* Every step of the executor and of the fabric is one of the graph. *)

\* An output of an operation that was built is computed in the graph, nothing else is.
LEMMA ComputedFacts == \A r : Graph!Computed(r) <=> \E o \in OpIds : r \in Out(o)
  BY DEF Graph!Computed, Graph!Outputs, Out, ResultIdsOf

\* insert_result hands the value to the handles that wait for this result, none of
\* which has a value yet.
LEMMA InsertDelivers ==
    ASSUME TypeInv, Filled, NEW res \in Result, results[res.id] = <<>>, InsertResult(res),
           UNCHANGED awaits
    PROVE  DOMAIN buffer' = Handles /\ Graph!Deliver
  <1>1. res.id \in ResultIds
    BY DEF Result
  <1>2. /\ results' = [results EXCEPT ![res.id] = <<res.val>>]
        /\ buffer' = [h \in Handles |-> IF h \in waiters[res.id] THEN <<res.val>>
                                        ELSE buffer[h]]
    BY DEF InsertResult, WakeWaiters
  <1>3. results'[res.id] = <<res.val>> /\ <<res.val>> # <<>>
    BY <1>1, <1>2 DEF TypeInv, TypeOK
  <1>4. ASSUME NEW h \in Handles, h \in waiters[res.id]
        PROVE  /\ awaits[h] # <<>> /\ buffer[h] = <<>>
               /\ buffer'[h] = results'[awaits[h][1]] /\ buffer'[h] # <<>>
    <2>1. awaits[h] = <<res.id>>
      BY <1>1, <1>4 DEF TypeInv, WaitersPolled
    <2>2. awaits[h] # <<>> /\ awaits[h][1] = res.id
      BY <2>1, OptionIntro
    <2>3. buffer[h] = <<>>
      BY <2>2 DEF Filled
    <2>4. QED
      BY <1>2, <1>3, <1>4, <2>2, <2>3
  <1>5. \A h \in Handles : h \notin waiters[res.id] => buffer'[h] = buffer[h]
    BY <1>2
  <1>6. DOMAIN buffer' = Handles
    BY <1>2
  <1>7. QED
    BY <1>4, <1>5, <1>6 DEF Graph!Deliver

\* handle_new_result provides a source that was not there.
LEMMA HandleNewResultRefines == ASSUME RefineInv, HandleNewResult PROVE Graph!Next
  <1>1. TypeInv /\ Filled /\ DispatchInv /\ SourcesInv
    BY DEF RefineInv, ValueInv
  <1>2. PICK res : res = Head(batch)
    OBVIOUS
  <1>3. PICK r : r = res.id
    OBVIOUS
  <1>4. res \in Result /\ 1 \in DOMAIN batch /\ batch[1] = res
    BY <1>1, <1>2 DEF HandleNewResult, TypeInv, TypeOK
  <1>5. r \in ResultIds
    BY <1>3, <1>4 DEF Result
  <1>6. InsertResult(res) /\ issued' = issued /\ awaits' = awaits
    BY <1>2 DEF HandleNewResult, callVars, pollVars
  <1>7. 0 \in Streams /\ Stream(0) = batch
    <2>1. Len(job_queue) \in Nat
      BY <1>1 DEF TypeInv, TypeOK, FabricTypeOK
    <2>2. QED
      BY <2>1 DEF Streams, Stream
  <1>8. r \in StreamIds /\ res.val = Source(r)
    BY <1>1, <1>3, <1>4, <1>7 DEF StreamIds, SourcesInv
  <1>9. r \notin Made /\ \A o \in OpIds : r \notin Out(o)
    BY <1>1, <1>8 DEF DispatchInv, IdInv
  <1>10. results[r] = <<>>
    BY <1>5, <1>9 DEF Made
  <1>11. DOMAIN buffer' = Handles /\ Graph!Deliver
    BY <1>1, <1>3, <1>4, <1>6, <1>10, InsertDelivers
  <1>12. Graph!Provide(r)
    <2>1. ~Graph!Computed(r)
      BY <1>9, ComputedFacts
    <2>2. results' = [results EXCEPT ![r] = <<Source(r)>>]
      BY <1>3, <1>6, <1>8 DEF InsertResult
    <2>3. QED
      BY <1>10, <2>1, <2>2 DEF Graph!Provide
  <1>13. QED
    BY <1>5, <1>6, <1>11, <1>12 DEF Graph!Next

\* Inserting an output resolves it: its operation's arguments all have values.
LEMMA InsertProducedRefines == ASSUME RefineInv, InsertProduced PROVE Graph!Next
  <1>1. TypeInv /\ Filled /\ DispatchInv /\ OutputsInv
    BY DEF RefineInv, ValueInv
  <1>2. PICK res : res = Head(produced)
    OBVIOUS
  <1>3. PICK r : r = res.id
    OBVIOUS
  <1>4. /\ produced # <<>> /\ InsertResult(res) /\ issued' = issued /\ awaits' = awaits
    BY <1>2 DEF InsertProduced, callVars, pollVars
  <1>5. res \in Result /\ 1 \in DOMAIN produced /\ produced[1] = res
    BY <1>1, <1>2, <1>4 DEF TypeInv, TypeOK
  <1>6. r \in ResultIds
    BY <1>3, <1>5 DEF Result
  <1>7. results[r] = <<>>
    BY <1>1, <1>3, <1>5 DEF DispatchInv, StreamInv
  <1>8. DOMAIN buffer' = Handles /\ Graph!Deliver
    BY <1>1, <1>3, <1>4, <1>5, <1>7, InsertDelivers
  <1>9. PICK o \in OpIds :
           /\ issued[o] # <<>>
           /\ \A k \in DOMAIN issued[o][1].args : results[issued[o][1].args[k]] # <<>>
           /\ r \in ResultIdsOf(issued[o][1])
           /\ res.val = Apply(r, ArgVals(issued[o][1].args))
    BY <1>1, <1>3, <1>4, <1>5 DEF OutputsInv
  <1>10. Graph!Resolve(r)
    <2>1. results' = [results EXCEPT ![r] = <<res.val>>]
      BY <1>3, <1>4 DEF InsertResult
    <2>2. PICK args : args = issued[o][1].args
      OBVIOUS
    <2>3. ArgVals(args) = [k \in DOMAIN args |-> results[args[k]][1]]
      BY DEF ArgVals
    <2>4. results' = [results EXCEPT ![r] = <<Apply(r, ArgVals(args))>>]
      BY <1>9, <2>1, <2>2
    <2>5. results' = [results EXCEPT ![r] =
                        <<Apply(r, [k \in DOMAIN args |-> results[args[k]][1]])>>]
      BY <2>3, <2>4
    <2>6. QED
      BY <1>7, <1>9, <2>2, <2>5 DEF Graph!Resolve, Graph!Outputs, ResultIdsOf
  <1>11. QED
    BY <1>4, <1>6, <1>8, <1>10 DEF Graph!Next

\* handle_new_waiter hands an available result to its waiters, none of which had
\* another value.
LEMMA HandleNewWaiterRefines == ASSUME RefineInv, HandleNewWaiter PROVE Graph!Next
  <1>1. TypeInv /\ Filled
    BY DEF RefineInv
  <1>2. PICK h : h = Head(job_queue).handle
    OBVIOUS
  <1>3. PICK r : r = awaits[h][1]
    OBVIOUS
  <1>4. h \in Handles /\ awaits[h] # <<>>
    <2>1. /\ Head(job_queue) = job_queue[1] /\ 1 \in DOMAIN job_queue
          /\ Head(job_queue) \in ExecutorMessage /\ Head(job_queue).type = "NewWaiter"
      BY <1>1, PopFacts DEF HandleNewWaiter
    <2>2. QED
      BY <1>1, <1>2, <2>1, MessageFacts DEF TypeInv, WaitersPolled
  <1>5. r \in ResultIds
    BY <1>1, <1>3, <1>4, OptionElim DEF TypeInv, TypeOK, FabricTypeOK
  <1>6. results' = results /\ awaits' = awaits /\ issued' = issued
    BY DEF HandleNewWaiter, pollVars, callVars
  <1>7. CASE results[r] # <<>>
    <2>1. buffer' = [g \in Handles |-> IF g \in waiters[r] \cup {h} THEN <<results[r][1]>>
                                       ELSE buffer[g]]
      BY <1>2, <1>3, <1>7 DEF HandleNewWaiter, WakeWaiters
    <2>2. <<results[r][1]>> = results[r]
      BY <1>1, <1>5, <1>7, OptionElim DEF TypeInv, TypeOK
    <2>3. \A g \in waiters[r] \cup {h} : awaits[g] # <<>> /\ awaits[g][1] = r
      <3>1. \A g \in waiters[r] : awaits[g] = <<r>>
        BY <1>1, <1>5 DEF TypeInv, WaitersPolled
      <3>2. QED
        BY <1>3, <1>4, <3>1, OptionIntro
    <2>4. ASSUME NEW g \in Handles, g \in waiters[r] \cup {h}
          PROVE  \/ buffer'[g] = buffer[g]
                 \/ /\ awaits[g] # <<>> /\ buffer[g] = <<>>
                    /\ buffer'[g] = results'[awaits[g][1]] /\ buffer'[g] # <<>>
      <3>1. buffer'[g] = results[r] /\ awaits[g] # <<>> /\ awaits[g][1] = r
        BY <2>1, <2>2, <2>3, <2>4
      <3>2. buffer[g] # <<>> => buffer[g] = results[r]
        BY <1>1, <3>1 DEF Filled
      <3>3. QED
        BY <1>6, <1>7, <3>1, <3>2
    <2>5. \A g \in Handles : g \notin waiters[r] \cup {h} => buffer'[g] = buffer[g]
      BY <2>1
    <2>6. DOMAIN buffer' = Handles
      BY <2>1
    <2>7. Graph!Deliver
      BY <2>4, <2>5 DEF Graph!Deliver
    <2>8. QED
      BY <1>6, <2>6, <2>7 DEF Graph!Next
  <1>8. CASE results[r] = <<>>
    <2>1. buffer' = buffer
      BY <1>2, <1>3, <1>8 DEF HandleNewWaiter
    <2>2. DOMAIN buffer' = Handles
      BY <1>1, <2>1 DEF TypeInv, TypeOK, FabricTypeOK
    <2>3. Graph!Deliver
      BY <2>1 DEF Graph!Deliver
    <2>4. QED
      BY <1>6, <2>2, <2>3 DEF Graph!Next
  <1>9. QED
    BY <1>7, <1>8

\* new_op adds an operation whose outputs are new and nothing else's.
LEMMA NewOpIdRefines ==
    ASSUME RefineInv, UNCHANGED executorVars, NEW t \in Threads, NewOpId(t)
    PROVE  Graph!Next
  <1>1. TypeInv /\ IdInv /\ PlaceInv
    BY DEF RefineInv, DispatchInv
  <1>2. PICK q : q = next_op_id
    OBVIOUS
  <1>3. PICK op : op = call[t][1].body
    OBVIOUS
  <1>4. /\ call[t] # <<>> /\ call[t][1].step = "op_id"
        /\ issued' = [issued EXCEPT ![q] = <<op>>]
        /\ q < MaxOps /\ q \in 0 .. MaxOps
        /\ UNCHANGED <<results, awaits, buffer>>
    BY <1>1, <1>2, <1>3 DEF NewOpId, TypeInv, TypeOK, FabricTypeOK, executorVars, pollVars
  <1>5. q \in OpIds /\ q >= next_op_id
    BY <1>2, <1>4, FabricAssumption DEF OpIds
  <1>6. issued[q] = <<>> /\ issued'[q] = <<op>>
    BY <1>1, <1>4, <1>5 DEF PlaceInv, TypeInv, TypeOK, FabricTypeOK
  <1>7. op \in Operation
    <2>1. call[t][1] \in Call
      BY <1>1, <1>4, OptionElim DEF TypeInv, TypeOK, FabricTypeOK
    <2>2. QED
      BY <1>3, <1>4, <2>1 DEF Call
  <1>8. ResultIdsOf(op) \subseteq ResultIds
    BY <1>7, OperationFacts
  <1>9. CallIds(t) = ResultIdsOf(op)
    BY <1>3, <1>4 DEF CallIds
  <1>10. \A r \in ResultIdsOf(op) : ~Graph!Computed(r) /\ results[r] = <<>>
    <2>1. \A r \in ResultIdsOf(op) : r \notin Made /\ \A o \in OpIds : r \notin Out(o)
      BY <1>1, <1>9 DEF IdInv
    <2>2. \A r \in ResultIdsOf(op) : results[r] = <<>>
      BY <1>8, <2>1 DEF Made
    <2>3. QED
      BY <2>1, <2>2, ComputedFacts
  <1>11. Graph!Issue(q, op)
    BY <1>4, <1>6, <1>10 DEF Graph!Issue, Graph!Outputs, ResultIdsOf
  <1>12. 1 \in DOMAIN issued'[q] /\ issued'[q][1] = op
    BY <1>6
  <1>13. op \in {issued'[q][i] : i \in DOMAIN issued'[q]}
    BY <1>12
  <1>14. QED
    BY <1>5, <1>11, <1>13 DEF Graph!Next

\* The first poll of a handle is the graph's Await.
LEMMA PollRegisterRefines ==
    ASSUME RefineInv, UNCHANGED executorVars, NEW h \in Handles,
           NEW r \in ResultIds, NEW w \in Wakers, PollRegister(h, r, w)
    PROVE  Graph!Next
  <1>1. awaits[h] = <<>>
    BY DEF RefineInv, PollRegister, TypeInv, WaitersPolled
  <1>2. awaits' = [awaits EXCEPT ![h] = <<r>>] /\ UNCHANGED <<issued, results, buffer>>
    BY DEF PollRegister, executorVars, callVars
  <1>3. Graph!Await(h, r)
    BY <1>1, <1>2 DEF Graph!Await
  <1>4. QED
    BY <1>3 DEF Graph!Next

\* Every step is a step of the graph, or leaves the graph alone.
LEMMA StepRefines == RefineInv /\ [Next]_vars => [Graph!Next]_(Graph!vars)
  <1> SUFFICES ASSUME RefineInv, [Next]_vars PROVE Graph!Next \/ UNCHANGED Graph!vars
    OBVIOUS
  <1>1. CASE HandleNewResult \/ InsertProduced \/ HandleNewWaiter
    BY <1>1, HandleNewResultRefines, InsertProducedRefines, HandleNewWaiterRefines
  <1>2. CASE PopResults \/ AppendReadyOp \/ ComputeResult \/ HandleNewOperation \/ HandleShutdown
    BY <1>2 DEF PopResults, AppendReadyOp, ComputeResult, HandleNewOperation,
       HandleShutdown, fabricVars, callVars, pollVars, Graph!vars
  <1>3. ASSUME UNCHANGED executorVars,
               \/ \E t \in Threads : NewOpId(t)
               \/ \E h \in Handles, r \in ResultIds, w \in Wakers : PollRegister(h, r, w)
        PROVE  Graph!Next
    BY <1>3, NewOpIdRefines, PollRegisterRefines
  <1>4. ASSUME UNCHANGED executorVars, NEW t \in Threads,
               \/ AllocatePush(t) \/ NewOpPush(t) \/ ReceiveValue(t)
               \/ \E n \in 1 .. MaxArity : AllocateIds(t, n)
               \/ \E args \in ArgLists(returned), arity \in 1 .. MaxArity, type \in OpTypes :
                    NewOpResultIds(t, args, arity, type)
        PROVE  UNCHANGED Graph!vars
    BY <1>4 DEF AllocatePush, NewOpPush, ReceiveValue, AllocateIds, NewOpResultIds,
       executorVars, pollVars, Graph!vars
  <1>5. ASSUME UNCHANGED executorVars,
               \/ Shutdown
               \/ \E r \in ResultIds : ReadLoop(r)
               \/ \E h \in Handles : PollRead(h) \/ \E w \in Wakers : PollAgain(h, w)
        PROVE  UNCHANGED Graph!vars
    BY <1>5 DEF Shutdown, ReadLoop, PollRead, PollAgain, executorVars, callVars, pollVars,
       Graph!vars
  <1>6. CASE FabricNext /\ UNCHANGED executorVars
    BY <1>3, <1>4, <1>5, <1>6 DEF FabricNext, CallStep
  <1>7. CASE UNCHANGED vars
    BY <1>7 DEF vars, fabricVars, callVars, pollVars, executorVars, Graph!vars
  <1>8. QED
    BY <1>1, <1>2, <1>6, <1>7 DEF Next, ExecutorNext

\* The single threaded executor implements the write-once dataflow graph: an output
\* appears only after all the arguments of its operation, once, with the operation's
\* value, and a handle is handed the value of the result it awaits.
THEOREM SerialImplementsDataflow == Spec => ImplementsDataflow
  <1>1. Init => Graph!Init
    BY DEF Init, FabricInit, Graph!Init
  <1>2. QED
    BY RefineInvariant, <1>1, StepRefines, PTL DEF Spec, ImplementsDataflow, Graph!Spec
=============================================================================
