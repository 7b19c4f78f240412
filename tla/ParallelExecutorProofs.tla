----------------------- MODULE ParallelExecutorProofs -----------------------
(***************************************************************************)
(* The multi threaded executor, for any circuit, any number of threads and  *)
(* workers and any order in which they take their steps: no unwrap or       *)
(* assertion fails, a result that is marked ready is written and not being  *)
(* written, the count of missing arguments is exact, an operation runs once *)
(* and a cell is written once.  If a read that overlaps a write sees None   *)
(* or the value, the executor implements the abstract dataflow graph.       *)
(*                                                                          *)
(* What flows to the executor is the fabric's (FlowInv); this module adds   *)
(* the way of an output: computed by a worker, written, announced by id in  *)
(* the job queue, marked by the coordinator.  Each output is at one point   *)
(* of that way, so no cell is written twice, nothing is marked twice, and   *)
(* the registrations that an operation still has to see are its missing     *)
(* arguments.                                                               *)
(***************************************************************************)
EXTENDS ParallelExecutor, FabricProofs, ResultBuffer

-----------------------------------------------------------------------------
(* Type correctness. *)

\* The operations that are buffered or in the pool were built.
OpsHeld == \A o \in OpIds : inflight_args[o] # <<>> \/ pool[o] # <<>> => issued[o] # <<>>

\* A waiter belongs to a handle that was polled for that result.
WaitersPolled == \A r \in ResultIds : \A h \in waiters[r] : awaits[h] = <<r>>

TypeInv == TypeOK /\ FabricInv /\ OpsHeld /\ WaitersPolled

\* A new fabric, with nothing in its executor.
LEMMA InitTypeInv == Init => TypeInv
  <1> SUFFICES ASSUME Init PROVE TypeInv
    OBVIOUS
  <1>1. FabricInit
    BY DEF Init
  <1>2. FabricInv
    BY <1>1, InitFabricInv
  <1> USE DEF Init
  <1>3. TypeOK
    BY <1>2, OptionIntro DEF FabricInv, TypeOK
  <1>4. OpsHeld /\ WaitersPolled
    BY DEF OpsHeld, WaitersPolled
  <1>5. QED
    BY <1>2, <1>3, <1>4 DEF TypeInv

\* Every step of the application and of the network keeps TypeInv.
LEMMA FabricNextType ==
    ASSUME TypeInv, FabricNext, UNCHANGED executorVars
    PROVE  TypeInv'
  <1>1. /\ FabricInv'
        /\ \A o \in OpIds : issued[o] # <<>> => issued'[o] # <<>>
        /\ \A h \in Handles : awaits[h] # <<>> => awaits'[h] = awaits[h]
    BY FabricInvStep DEF TypeInv
  <1>2. TypeOK'
    BY <1>1 DEF FabricInv, TypeInv, TypeOK, executorVars
  <1>3. OpsHeld'
    BY <1>1 DEF TypeInv, OpsHeld, executorVars
  <1>4. WaitersPolled'
    <2>1. waiters' = waiters /\ waiters \in [ResultIds -> SUBSET Handles]
      BY DEF TypeInv, TypeOK, executorVars
    <2>2. ASSUME NEW r \in ResultIds, NEW h \in waiters[r]
          PROVE  awaits'[h] = <<r>>
      <3>1. h \in Handles /\ awaits[h] = <<r>>
        BY <2>1 DEF TypeInv, WaitersPolled
      <3>2. awaits[h] # <<>>
        BY <3>1, OptionIntro
      <3>3. QED
        BY <1>1, <3>1, <3>2
    <2>3. QED
      BY <2>1, <2>2 DEF WaitersPolled
  <1>5. QED
    BY <1>1, <1>2, <1>3, <1>4 DEF TypeInv

\* The fabric's part, when the executor pops, announces or delivers.
LEMMA FabricKept ==
    ASSUME FabricInv, UNCHANGED <<callVars, netVars, shutdown_sent, pollVars>>,
           job_queue' \in Seq(ExecutorMessage),
           \A i \in DOMAIN job_queue' : \/ job_queue'[i].type = "ResultsReady"
                                        \/ \E j \in DOMAIN job_queue : job_queue'[i] = job_queue[j],
           outbound' \in Seq(Result), buffer' \in [Handles -> Option(Val)],
           woken' \in [Handles -> SUBSET Wakers]
    PROVE  FabricInv'
  <1>1. FabricTypeOK'
    BY DEF FabricInv, FabricTypeOK, callVars, netVars, pollVars
  <1>2. OpsIssued'
    BY DEF FabricInv, OpsIssued, callVars
  <1>3. HandlesPolled'
    BY DEF FabricInv, HandlesPolled, pollVars
  <1>4. QED
    BY <1>1, <1>2, <1>3 DEF FabricInv

\* What a pop tells about the job and what it does to the queue.
LEMMA PopFacts ==
    ASSUME TypeInv, NEW type, Pops(type)
    PROVE  /\ Head(job_queue) = job_queue[1] /\ 1 \in DOMAIN job_queue
           /\ Head(job_queue) \in ExecutorMessage /\ Head(job_queue).type = type
           /\ job_queue' \in Seq(ExecutorMessage)
           /\ \A i \in DOMAIN job_queue' : \E j \in DOMAIN job_queue : job_queue'[i] = job_queue[j]
  <1>1. job_queue \in Seq(ExecutorMessage) /\ job_queue # <<>>
    BY DEF TypeInv, TypeOK, FabricTypeOK, Pops
  <1>2. Head(job_queue).type = type /\ job_queue' = Tail(job_queue)
    BY DEF Pops
  <1>3. QED
    BY <1>1, <1>2, TailFacts

\* The steps of the coordinator that only move the queue.
LEMMA PopType ==
    ASSUME TypeInv, PopResults \/ PopResultsReady \/ HandleShutdown
    PROVE  TypeInv'
  <1>1. PICK type : Pops(type) /\ type = Head(job_queue).type
    BY DEF PopResults, PopResultsReady, HandleShutdown, Pops
  <1>2. /\ UNCHANGED <<callVars, netVars, shutdown_sent, pollVars, outbound, buffer, woken>>
        /\ UNCHANGED <<results, ready_mask, inflight_args, dependencies, waiters, pool>>
    BY DEF PopResults, PopResultsReady, HandleShutdown
  <1>3. FabricInv'
    BY <1>1, <1>2, PopFacts, FabricKept DEF TypeInv, FabricInv, FabricTypeOK
  <1>4. /\ status' \in {"running", "stopped", "panicked"}
        /\ batch' \in Seq(Result) /\ ready_ids' \in Seq(ResultIds)
    <2>1. CASE PopResults
      <3>1. Pops("Results") /\ batch' = Head(job_queue).results /\ UNCHANGED <<status, ready_ids>>
        BY <2>1 DEF PopResults
      <3>2. Head(job_queue).results \in Seq(Result)
        BY <3>1, PopFacts, MessageFacts
      <3>3. QED
        BY <3>1, <3>2 DEF TypeInv, TypeOK
    <2>2. CASE PopResultsReady
      <3>1. Pops("ResultsReady") /\ ready_ids' = Head(job_queue).ids /\ UNCHANGED <<status, batch>>
        BY <2>2 DEF PopResultsReady
      <3>2. Head(job_queue).ids \in Seq(ResultIds)
        BY <3>1, PopFacts, MessageFacts
      <3>3. QED
        BY <3>1, <3>2 DEF TypeInv, TypeOK
    <2>3. CASE HandleShutdown
      BY <2>3 DEF HandleShutdown, TypeInv, TypeOK
    <2>4. QED
      BY <2>1, <2>2, <2>3
  <1>5. TypeOK'
    BY <1>2, <1>3, <1>4 DEF TypeInv, TypeOK, FabricInv
  <1>6. OpsHeld' /\ WaitersPolled'
    BY <1>2 DEF TypeInv, OpsHeld, WaitersPolled, callVars, pollVars
  <1>7. QED
    BY <1>3, <1>5, <1>6 DEF TypeInv

\* Waking the waiters of a result keeps the types of what it changes.
LEMMA WakeResultType ==
    ASSUME TypeInv, NEW r \in ResultIds, NEW v \in Val, WakeWaiters(waiters[r], v)
    PROVE  buffer' \in [Handles -> Option(Val)] /\ woken' \in [Handles -> SUBSET Wakers]
  <1>1. waiters[r] \in SUBSET Handles
    BY DEF TypeInv, TypeOK
  <1>2. \A h \in waiters[r] : registered[h] # <<>>
    <2>1. <<r>> # <<>>
      BY OptionIntro
    <2>2. QED
      BY <1>1, <2>1 DEF TypeInv, WaitersPolled, FabricInv, HandlesPolled
  <1>3. QED
    BY <1>1, <1>2, WakeType DEF TypeInv

\* execute_dependents, in terms of the registrations of each operation.
LEMMA DependentsEffect ==
    ASSUME TypeInv, NEW id \in ResultIds, ExecuteDependents(id), NEW deps, deps = dependencies[id]
    PROVE  \/ /\ status' = "panicked" /\ UNCHANGED <<inflight_args, pool>>
              /\ \E o \in OpIds : /\ Count(deps, o) > 0
                                  /\ inflight_args[o] = <<>> \/ inflight_args[o][1] < Count(deps, o)
           \/ /\ status' = status
              /\ \A o \in OpIds : Count(deps, o) > 0 =>
                    inflight_args[o] # <<>> /\ ~(inflight_args[o][1] < Count(deps, o))
              /\ inflight_args' = [o \in OpIds |->
                    IF Count(deps, o) > 0 THEN Buffered(inflight_args[o][1] - Count(deps, o))
                    ELSE inflight_args[o]]
              /\ pool' = [o \in OpIds |->
                    IF Count(deps, o) > 0 /\ inflight_args[o][1] - Count(deps, o) = 0
                    THEN Spawned ELSE pool[o]]
  BY DEF ExecuteDependents, Count

\* execute_dependents keeps the types of the buffer and of the pool.
LEMMA DependentsType ==
    ASSUME TypeInv, NEW id \in ResultIds, ExecuteDependents(id), issued' = issued
    PROVE  /\ status' \in {"running", "stopped", "panicked"}
           /\ inflight_args' \in [OpIds -> Option(1 .. MaxArgs)]
           /\ pool' \in [OpIds -> Option(Worker)]
           /\ OpsHeld'
  <1>1. PICK deps : deps = dependencies[id]
    OBVIOUS
  <1>2. /\ status \in {"running", "stopped", "panicked"}
        /\ inflight_args \in [OpIds -> Option(1 .. MaxArgs)]
        /\ pool \in [OpIds -> Option(Worker)] /\ deps \in Seq(OpIds)
        /\ \A o \in OpIds : inflight_args[o] # <<>> \/ pool[o] # <<>> => issued[o] # <<>>
    BY <1>1 DEF TypeInv, TypeOK, OpsHeld
  <1>3. CASE status' = "panicked" /\ UNCHANGED <<inflight_args, pool>>
    BY <1>2, <1>3 DEF OpsHeld
  <1>4. CASE /\ status' = status
             /\ \A o \in OpIds : Count(deps, o) > 0 =>
                   inflight_args[o] # <<>> /\ ~(inflight_args[o][1] < Count(deps, o))
             /\ inflight_args' = [o \in OpIds |->
                   IF Count(deps, o) > 0 THEN Buffered(inflight_args[o][1] - Count(deps, o))
                   ELSE inflight_args[o]]
             /\ pool' = [o \in OpIds |->
                   IF Count(deps, o) > 0 /\ inflight_args[o][1] - Count(deps, o) = 0
                   THEN Spawned ELSE pool[o]]
    <2>1. ASSUME NEW o \in OpIds, Count(deps, o) > 0
          PROVE  Buffered(inflight_args[o][1] - Count(deps, o)) \in Option(1 .. MaxArgs)
      <3>1. PICK n, c : n = inflight_args[o][1] /\ c = Count(deps, o)
        OBVIOUS
      <3>2. n \in 1 .. MaxArgs /\ c \in Nat /\ c > 0 /\ ~(n < c)
        BY <1>2, <1>4, <2>1, <3>1, OptionElim, CountFacts
      <3>3. CASE n - c > 0
        <4>1. n - c \in 1 .. MaxArgs
          BY <3>2, <3>3, FabricAssumption
        <4>2. QED
          BY <3>1, <3>3, <4>1, OptionIntro DEF Buffered
      <3>4. CASE ~(n - c > 0)
        BY <3>1, <3>4, OptionIntro DEF Buffered
      <3>5. QED
        BY <3>3, <3>4
    <2>2. Spawned \in Option(Worker)
      <3>1. [step |-> "spawned", out |-> <<>>] \in Worker
        BY DEF Worker
      <3>2. QED
        BY <3>1, OptionIntro DEF Spawned
    <2>3. inflight_args' \in [OpIds -> Option(1 .. MaxArgs)]
      BY <1>2, <1>4, <2>1
    <2>4. pool' \in [OpIds -> Option(Worker)]
      BY <1>2, <1>4, <2>2
    <2>5. ASSUME NEW o \in OpIds, inflight_args'[o] # <<>> \/ pool'[o] # <<>>
          PROVE  issued[o] # <<>>
      <3>1. inflight_args[o] # <<>> \/ pool[o] # <<>>
        BY <1>4, <2>5
      <3>2. QED
        BY <1>2, <3>1
    <2>6. OpsHeld'
      BY <2>5 DEF OpsHeld
    <2>7. QED
      BY <1>2, <1>4, <2>3, <2>4, <2>6
  <1>5. QED
    BY <1>1, <1>3, <1>4, DependentsEffect

\* handle_new_result keeps TypeInv.
LEMMA HandleNewResultType ==
    ASSUME TypeInv, HandleNewResult
    PROVE  TypeInv'
  <1>1. PICK res : res = Head(batch)
    OBVIOUS
  <1>2. res \in Result /\ Tail(batch) \in Seq(Result)
    BY <1>1, TailFacts DEF TypeInv, TypeOK, HandleNewResult
  <1>3. res.id \in ResultIds /\ res.val \in Val
    BY <1>2 DEF Result
  <1>4. /\ ready_mask' = ready_mask \cup {res.id}
        /\ results' = [results EXCEPT ![res.id] = <<res.val>>]
        /\ batch' = Tail(batch)
        /\ UNCHANGED <<callVars, netVars, job_queue, outbound, shutdown_sent, pollVars,
                       dependencies, waiters, ready_ids>>
        /\ \/ status' = "panicked" /\ UNCHANGED <<buffer, woken, inflight_args, pool>>
           \/ WakeWaiters(waiters[res.id], res.val) /\ ExecuteDependents(res.id)
    BY <1>1 DEF HandleNewResult
  <1>5. /\ buffer' \in [Handles -> Option(Val)] /\ woken' \in [Handles -> SUBSET Wakers]
        /\ status' \in {"running", "stopped", "panicked"}
        /\ inflight_args' \in [OpIds -> Option(1 .. MaxArgs)]
        /\ pool' \in [OpIds -> Option(Worker)] /\ OpsHeld'
    <2>1. issued' = issued
      BY <1>4 DEF callVars
    <2>2. CASE status' = "panicked" /\ UNCHANGED <<buffer, woken, inflight_args, pool>>
      BY <2>1, <2>2 DEF TypeInv, TypeOK, FabricTypeOK, OpsHeld
    <2>3. CASE WakeWaiters(waiters[res.id], res.val) /\ ExecuteDependents(res.id)
      BY <1>3, <2>1, <2>3, WakeResultType, DependentsType
    <2>4. QED
      BY <1>4, <2>2, <2>3
  <1>6. FabricInv'
    <2>1. FabricInv /\ job_queue' = job_queue /\ outbound' = outbound
      BY <1>4 DEF TypeInv
    <2>2. job_queue' \in Seq(ExecutorMessage) /\ outbound' \in Seq(Result)
      BY <2>1 DEF FabricInv, FabricTypeOK
    <2>3. QED
      BY <1>4, <1>5, <2>1, <2>2, FabricKept
  <1>7. results' \in [ResultIds -> Option(Val)] /\ ready_mask' \in SUBSET ResultIds
    BY <1>3, <1>4, OptionIntro DEF TypeInv, TypeOK
  <1>8. TypeOK'
    BY <1>2, <1>4, <1>5, <1>6, <1>7 DEF TypeInv, TypeOK, FabricInv
  <1>9. WaitersPolled'
    BY <1>4 DEF TypeInv, WaitersPolled, pollVars
  <1>10. QED
    BY <1>5, <1>6, <1>8, <1>9 DEF TypeInv

\* handle_new_result_by_id keeps TypeInv.
LEMMA HandleNewResultByIdType ==
    ASSUME TypeInv, HandleNewResultById
    PROVE  TypeInv'
  <1>1. PICK id : id = Head(ready_ids)
    OBVIOUS
  <1>2. id \in ResultIds /\ Tail(ready_ids) \in Seq(ResultIds)
    BY <1>1, TailFacts DEF TypeInv, TypeOK, HandleNewResultById
  <1>3. /\ ready_ids' = Tail(ready_ids)
        /\ UNCHANGED <<callVars, netVars, job_queue, outbound, shutdown_sent, pollVars,
                       results, dependencies, waiters, batch>>
        /\ \/ status' = "panicked" /\ UNCHANGED <<buffer, woken, ready_mask, inflight_args, pool>>
           \/ /\ waiters[id] = {} \/ results[id] # <<>>
              /\ \/ waiters[id] # {} /\ WakeWaiters(waiters[id], results[id][1])
                 \/ UNCHANGED <<buffer, woken>>
              /\ ready_mask' = ready_mask \cup {id}
              /\ ExecuteDependents(id)
    BY <1>1 DEF HandleNewResultById
  <1>4. /\ buffer' \in [Handles -> Option(Val)] /\ woken' \in [Handles -> SUBSET Wakers]
        /\ status' \in {"running", "stopped", "panicked"} /\ ready_mask' \in SUBSET ResultIds
        /\ inflight_args' \in [OpIds -> Option(1 .. MaxArgs)]
        /\ pool' \in [OpIds -> Option(Worker)] /\ OpsHeld'
    <2>1. issued' = issued
      BY <1>3 DEF callVars
    <2>2. CASE status' = "panicked" /\ UNCHANGED <<buffer, woken, ready_mask, inflight_args, pool>>
      BY <2>1, <2>2 DEF TypeInv, TypeOK, FabricTypeOK, OpsHeld
    <2>3. CASE /\ waiters[id] = {} \/ results[id] # <<>>
               /\ \/ waiters[id] # {} /\ WakeWaiters(waiters[id], results[id][1])
                  \/ UNCHANGED <<buffer, woken>>
               /\ ready_mask' = ready_mask \cup {id}
               /\ ExecuteDependents(id)
      <3>1. buffer' \in [Handles -> Option(Val)] /\ woken' \in [Handles -> SUBSET Wakers]
        <4>1. CASE waiters[id] # {} /\ WakeWaiters(waiters[id], results[id][1])
          <5>1. results[id][1] \in Val
            BY <1>2, <2>3, <4>1, OptionElim DEF TypeInv, TypeOK
          <5>2. QED
            BY <1>2, <4>1, <5>1, WakeResultType
        <4>2. CASE UNCHANGED <<buffer, woken>>
          BY <4>2 DEF TypeInv, TypeOK, FabricTypeOK
        <4>3. QED
          BY <2>3, <4>1, <4>2
      <3>2. ready_mask' \in SUBSET ResultIds
        BY <1>2, <2>3 DEF TypeInv, TypeOK
      <3>3. QED
        BY <1>2, <2>1, <2>3, <3>1, <3>2, DependentsType
    <2>4. QED
      BY <1>3, <2>2, <2>3
  <1>5. FabricInv'
    <2>1. FabricInv /\ job_queue' = job_queue /\ outbound' = outbound
      BY <1>3 DEF TypeInv
    <2>2. job_queue' \in Seq(ExecutorMessage) /\ outbound' \in Seq(Result)
      BY <2>1 DEF FabricInv, FabricTypeOK
    <2>3. QED
      BY <1>3, <1>4, <2>1, <2>2, FabricKept
  <1>6. TypeOK'
    BY <1>2, <1>3, <1>4, <1>5 DEF TypeInv, TypeOK, FabricInv
  <1>7. WaitersPolled'
    BY <1>3 DEF TypeInv, WaitersPolled, pollVars
  <1>8. QED
    BY <1>4, <1>5, <1>6, <1>7 DEF TypeInv

\* handle_new_operation keeps TypeInv.
LEMMA HandleNewOperationType ==
    ASSUME TypeInv, HandleNewOperation
    PROVE  TypeInv'
  <1>1. PICK o : o = Head(job_queue).op
    OBVIOUS
  <1>2. Pops("Op") /\ Head(job_queue).type = "Op"
    BY DEF HandleNewOperation, Pops
  <1>3. o \in OpIds /\ issued[o] # <<>>
    <2>1. Head(job_queue) \in ExecutorMessage /\ Head(job_queue) = job_queue[1] /\ 1 \in DOMAIN job_queue
      BY <1>2, PopFacts
    <2>2. QED
      BY <1>1, <1>2, <2>1, MessageFacts DEF TypeInv, FabricInv, OpsIssued
  <1>4. PICK args : args = issued[o][1].args
    OBVIOUS
  <1>5. args \in ArgLists(ResultIds)
    <2>1. issued[o][1] \in Operation
      BY <1>3, OptionElim DEF TypeInv, TypeOK, FabricTypeOK
    <2>2. QED
      BY <1>4, <2>1, OperationFacts
  <1>6. Missing(args) \in 0 .. MaxArgs
    <2>1. {k \in DOMAIN args : args[k] \notin ready_mask} \in SUBSET DOMAIN args
      OBVIOUS
    <2>2. QED
      BY <1>5, <2>1, PositionsBound DEF Missing
  <1>7. /\ UNCHANGED <<callVars, netVars, outbound, shutdown_sent, buffer, pollVars, woken,
                       status, results, ready_mask, waiters, batch, ready_ids>>
        /\ \/ /\ pool' = [pool EXCEPT ![o] = Spawned]
              /\ UNCHANGED <<inflight_args, dependencies>>
           \/ /\ Missing(args) # 0
              /\ dependencies' = [r \in ResultIds |->
                     dependencies[r] \o [i \in 1 .. Uses(args, r) |-> o]]
              /\ inflight_args' = [inflight_args EXCEPT ![o] = <<Missing(args)>>]
              /\ UNCHANGED pool
    BY <1>1, <1>4 DEF HandleNewOperation
  <1>8. /\ inflight_args' \in [OpIds -> Option(1 .. MaxArgs)]
        /\ pool' \in [OpIds -> Option(Worker)]
        /\ dependencies' \in [ResultIds -> Seq(OpIds)]
        /\ \A p \in OpIds : inflight_args'[p] # <<>> \/ pool'[p] # <<>> =>
              p = o \/ inflight_args[p] # <<>> \/ pool[p] # <<>>
    <2>1. /\ inflight_args \in [OpIds -> Option(1 .. MaxArgs)]
          /\ pool \in [OpIds -> Option(Worker)]
          /\ dependencies \in [ResultIds -> Seq(OpIds)]
      BY DEF TypeInv, TypeOK
    <2>2. CASE pool' = [pool EXCEPT ![o] = Spawned] /\ UNCHANGED <<inflight_args, dependencies>>
      <3>1. [step |-> "spawned", out |-> <<>>] \in Worker
        BY DEF Worker
      <3>2. Spawned \in Option(Worker)
        BY <3>1, OptionIntro DEF Spawned
      <3>3. QED
        BY <1>3, <2>1, <2>2, <3>2
    <2>3. CASE /\ Missing(args) # 0
               /\ dependencies' = [r \in ResultIds |->
                      dependencies[r] \o [i \in 1 .. Uses(args, r) |-> o]]
               /\ inflight_args' = [inflight_args EXCEPT ![o] = <<Missing(args)>>]
               /\ UNCHANGED pool
      <3>1. Missing(args) \in 1 .. MaxArgs
        BY <1>6, <2>3, FabricAssumption
      <3>2. <<Missing(args)>> \in Option(1 .. MaxArgs)
        BY <3>1, OptionIntro
      <3>3. inflight_args' \in [OpIds -> Option(1 .. MaxArgs)]
        BY <2>1, <2>3, <3>2
      <3>4. PICK n : n = [r \in ResultIds |-> Uses(args, r)]
        OBVIOUS
      <3>5. n \in [ResultIds -> Nat]
        BY <1>5, <3>4, UsesPositive
      <3>6. dependencies' = [r \in ResultIds |-> dependencies[r] \o [i \in 1 .. n[r] |-> o]]
        BY <2>3, <3>4
      <3>7. dependencies' \in [ResultIds -> Seq(OpIds)]
        BY <1>3, <2>1, <3>5, <3>6, RegisterType
      <3>8. QED
        BY <1>3, <2>1, <2>3, <3>3, <3>7
    <2>4. QED
      BY <1>7, <2>2, <2>3
  <1>9. FabricInv'
    BY <1>2, <1>7, PopFacts, FabricKept DEF TypeInv, FabricInv, FabricTypeOK
  <1>10. TypeOK'
    BY <1>7, <1>8, <1>9 DEF TypeInv, TypeOK, FabricInv
  <1>11. OpsHeld'
    BY <1>3, <1>7, <1>8 DEF TypeInv, OpsHeld, callVars
  <1>12. WaitersPolled'
    BY <1>7 DEF TypeInv, WaitersPolled, pollVars
  <1>13. QED
    BY <1>9, <1>10, <1>11, <1>12 DEF TypeInv

\* What a read of a cell returns is an Option of a value, torn or not.
LEMMA ReadsType ==
    ASSUME TypeInv, NEW r \in ResultIds
    PROVE  Reads(r) \subseteq Option(Val)
  <1>1. results[r] \in Option(Val)
    BY DEF TypeInv, TypeOK
  <1>2. BeingWritten(r) \subseteq Val
    <2>1. ASSUME NEW o \in OpIds, pool[o] # <<>>, pool[o][1].out # <<>>
          PROVE  pool[o][1].out[1].val \in Val
      <3>1. pool[o][1] \in Worker
        BY <2>1, OptionElim DEF TypeInv, TypeOK
      <3>2. pool[o][1].out \in Seq(Result)
        BY <3>1 DEF Worker
      <3>3. pool[o][1].out[1] \in Result
        BY <2>1, <3>2
      <3>4. QED
        BY <3>3 DEF Result
    <2>2. QED
      BY <2>1 DEF BeingWritten
  <1>3. \A v \in BeingWritten(r) \cup RacyReads : <<v>> \in Option(Val)
    BY <1>2, RacyAssumption, OptionIntro
  <1>4. QED
    BY <1>1, <1>3 DEF Reads

\* handle_new_waiter keeps TypeInv.
LEMMA HandleNewWaiterType ==
    ASSUME TypeInv, HandleNewWaiter
    PROVE  TypeInv'
  <1>1. PICK h, r : h = Head(job_queue).handle /\ r = awaits[h][1]
    OBVIOUS
  <1>2. Pops("NewWaiter") /\ Head(job_queue).type = "NewWaiter"
    BY DEF HandleNewWaiter, Pops
  <1>3. h \in Handles /\ awaits[h] # <<>>
    <2>1. Head(job_queue) \in ExecutorMessage /\ Head(job_queue) = job_queue[1] /\ 1 \in DOMAIN job_queue
      BY <1>2, PopFacts
    <2>2. QED
      BY <1>1, <1>2, <2>1, MessageFacts DEF TypeInv, FabricInv, HandlesPolled
  <1>4. r \in ResultIds /\ awaits[h] = <<r>>
    BY <1>1, <1>3, OptionElim DEF TypeInv, TypeOK, FabricTypeOK
  <1>5. PICK hs : hs = waiters[r] \cup {h}
    OBVIOUS
  <1>6. /\ UNCHANGED <<callVars, netVars, outbound, shutdown_sent, pollVars,
                       status, results, ready_mask, inflight_args, dependencies, batch,
                       ready_ids, pool>>
        /\ waiters' = [waiters EXCEPT ![r] = @ \cup {h}]
        /\ \E cell \in Reads(r) : \/ cell # <<>> /\ WakeWaiters(hs, cell[1])
                                  \/ UNCHANGED <<buffer, woken>>
    BY <1>1, <1>5 DEF HandleNewWaiter
  <1>7. hs \in SUBSET Handles /\ \A g \in hs : registered[g] # <<>>
    <2>1. <<r>> # <<>>
      BY <1>4, OptionIntro
    <2>2. \A g \in hs : g \in Handles /\ awaits[g] = <<r>>
      BY <1>3, <1>4, <1>5 DEF TypeInv, TypeOK, WaitersPolled
    <2>3. QED
      BY <2>1, <2>2 DEF TypeInv, FabricInv, HandlesPolled
  <1>8. buffer' \in [Handles -> Option(Val)] /\ woken' \in [Handles -> SUBSET Wakers]
    <2>1. PICK cell \in Reads(r) : \/ cell # <<>> /\ WakeWaiters(hs, cell[1])
                                   \/ UNCHANGED <<buffer, woken>>
      BY <1>6
    <2>2. CASE cell # <<>> /\ WakeWaiters(hs, cell[1])
      <3>1. cell[1] \in Val
        BY <1>4, <2>2, ReadsType, OptionElim
      <3>2. QED
        BY <1>7, <2>2, <3>1, WakeType DEF TypeInv
    <2>3. CASE UNCHANGED <<buffer, woken>>
      BY <2>3 DEF TypeInv, TypeOK, FabricTypeOK
    <2>4. QED
      BY <2>1, <2>2, <2>3
  <1>9. FabricInv'
    BY <1>2, <1>6, <1>8, PopFacts, FabricKept DEF TypeInv, FabricInv, FabricTypeOK
  <1>10. waiters' \in [ResultIds -> SUBSET Handles]
    BY <1>3, <1>4, <1>6 DEF TypeInv, TypeOK
  <1>11. TypeOK'
    BY <1>6, <1>9, <1>10 DEF TypeInv, TypeOK, FabricInv
  <1>12. OpsHeld'
    BY <1>6 DEF TypeInv, OpsHeld, callVars
  <1>13. WaitersPolled'
    <2>1. waiters \in [ResultIds -> SUBSET Handles] /\ awaits' = awaits
      BY <1>6 DEF TypeInv, TypeOK, pollVars
    <2>2. ASSUME NEW s \in ResultIds, NEW g \in waiters'[s] PROVE awaits[g] = <<s>>
      <3>1. CASE g \in waiters[s]
        BY <3>1 DEF TypeInv, WaitersPolled
      <3>2. CASE s = r /\ g = h
        BY <1>4, <3>2
      <3>3. QED
        BY <1>4, <1>6, <2>1, <2>2, <3>1, <3>2
    <2>3. QED
      BY <2>1, <2>2 DEF WaitersPolled
  <1>14. QED
    BY <1>9, <1>11, <1>12, <1>13 DEF TypeInv

\* What a worker computes: the outputs of its operation, in order.
Outputs(o) ==
    LET op   == issued[o][1]
        vals == [k \in DOMAIN op.args |-> results[op.args[k]][1]]
    IN [j \in 1 .. op.output_arity |->
          [id |-> op.result_id + j - 1, val |-> Apply(op.result_id + j - 1, vals)]]

\* compute_result, when the arguments are missing and when they are there.
LEMMA ComputeEffect ==
    ASSUME NEW o \in OpIds, ComputeResult(o), NEW op, op = issued[o][1]
    PROVE  \/ /\ \E k \in DOMAIN op.args : results[op.args[k]] = <<>>
              /\ status' = "panicked" /\ UNCHANGED <<outbound, pool>>
           \/ /\ \A k \in DOMAIN op.args : results[op.args[k]] # <<>>
              /\ status' = status
              /\ pool' = [pool EXCEPT ![o] = <<[step |-> "running", out |-> Outputs(o)]>>]
              /\ outbound' = IF op.op_type = "Network" THEN Append(outbound, Outputs(o)[1])
                             ELSE outbound
  <1> DEFINE args == [k \in DOMAIN op.args |-> results[op.args[k]]]
             vals == [k \in DOMAIN args |-> args[k][1]]
             out  == [j \in 1 .. op.output_arity |->
                        [id  |-> op.result_id + j - 1,
                         val |-> Apply(op.result_id + j - 1, vals)]]
  <1>1. vals = [k \in DOMAIN op.args |-> results[op.args[k]][1]]
    OBVIOUS
  <1>2. out = Outputs(o)
    BY <1>1 DEF Outputs
  <1>3. CASE \E k \in DOMAIN args : args[k] = <<>>
    <2>1. status' = "panicked" /\ UNCHANGED <<outbound, pool>>
      BY <1>3 DEF ComputeResult
    <2>2. QED
      BY <1>3, <2>1
  <1>4. CASE ~ \E k \in DOMAIN args : args[k] = <<>>
    <2>1. /\ pool' = [pool EXCEPT ![o] = <<[step |-> "running", out |-> out]>>]
          /\ outbound' = IF op.op_type = "Network" THEN Append(outbound, out[1]) ELSE outbound
          /\ UNCHANGED status
      BY <1>4 DEF ComputeResult
    <2>2. \A k \in DOMAIN op.args : results[op.args[k]] # <<>>
      BY <1>4
    <2> HIDE DEF out, args, vals
    <2>3. QED
      BY <1>2, <2>1, <2>2
  <1>5. QED
    BY <1>3, <1>4

\* The outputs of an operation whose arguments are there are results.
LEMMA OutputsAreResults ==
    ASSUME TypeInv, NEW o \in OpIds, issued[o] # <<>>,
           \A k \in DOMAIN issued[o][1].args : results[issued[o][1].args[k]] # <<>>
    PROVE  Outputs(o) \in Seq(Result) /\ Outputs(o)[1] \in Result
  <1> DEFINE op == issued[o][1]
             vals == [k \in DOMAIN op.args |-> results[op.args[k]][1]]
  <1>1. op \in Operation
    BY OptionElim DEF TypeInv, TypeOK, FabricTypeOK
  <1>2. /\ op.result_id \in Nat /\ op.output_arity \in Nat \ {0}
        /\ op.result_id + op.output_arity <= MaxResults
        /\ op.args \in ArgLists(ResultIds)
    BY <1>1, OperationFacts
  <1>3. \A r \in ResultIds : Apply(r, vals) \in Val
    <2>1. results \in [ResultIds -> Option(Val)]
      BY DEF TypeInv, TypeOK
    <2>2. QED
      BY <1>2, <2>1, ApplyType
  <1> DEFINE v == [r \in ResultIds |-> Apply(r, vals)]
  <1>4. Outputs(o) = [j \in 1 .. op.output_arity |->
            [id |-> op.result_id + j - 1, val |-> Apply(op.result_id + j - 1, vals)]]
    BY DEF Outputs
  <1> HIDE DEF vals
  <1>5. v \in [ResultIds -> Val]
    BY <1>3
  <1>6. \A j \in 1 .. op.output_arity : op.result_id + j - 1 \in ResultIds
    BY <1>2, FabricAssumption DEF ResultIds
  <1>7. \A j \in 1 .. op.output_arity :
            v[op.result_id + j - 1] = Apply(op.result_id + j - 1, vals)
    BY <1>6
  <1>8. Outputs(o) = [j \in 1 .. op.output_arity |->
                        [id |-> op.result_id + j - 1, val |-> v[op.result_id + j - 1]]]
    BY <1>4, <1>7
  <1> HIDE DEF v, op
  <1>9. LET out == [j \in 1 .. op.output_arity |->
                      [id |-> op.result_id + j - 1, val |-> v[op.result_id + j - 1]]]
        IN  out \in Seq(Result) /\ out[1] \in Result
    BY <1>2, <1>5, OutputsType
  <1>10. QED
    BY <1>8, <1>9

\* The steps of a worker leave most of the executor alone.
LEMMA WorkerType ==
    ASSUME TypeInv, UNCHANGED <<callVars, netVars, shutdown_sent, pollVars, buffer, woken,
                                ready_mask, inflight_args, dependencies, waiters, batch, ready_ids>>,
           FabricInv', status' \in {"running", "stopped", "panicked"},
           results' \in [ResultIds -> Option(Val)], pool' \in [OpIds -> Option(Worker)],
           \A o \in OpIds : pool'[o] # <<>> => pool[o] # <<>>
    PROVE  TypeInv'
  <1>1. TypeOK'
    BY DEF TypeInv, TypeOK, FabricInv
  <1>2. OpsHeld' /\ WaitersPolled'
    BY DEF TypeInv, OpsHeld, WaitersPolled, callVars, pollVars
  <1>3. QED
    BY <1>1, <1>2 DEF TypeInv

\* compute_result keeps TypeInv.
LEMMA ComputeResultType ==
    ASSUME TypeInv, NEW o \in OpIds, ComputeResult(o)
    PROVE  TypeInv'
  <1>1. PICK op : op = issued[o][1]
    OBVIOUS
  <1>2. /\ pool[o] # <<>>
        /\ UNCHANGED <<callVars, netVars, job_queue, shutdown_sent, buffer, pollVars, woken,
                       results, ready_mask, inflight_args, dependencies, waiters, batch, ready_ids>>
    BY DEF ComputeResult
  <1>3. issued[o] # <<>>
    BY <1>2 DEF TypeInv, OpsHeld
  <1>4. /\ status' \in {"running", "stopped", "panicked"} /\ outbound' \in Seq(Result)
        /\ pool' \in [OpIds -> Option(Worker)] /\ \A p \in OpIds : pool'[p] # <<>> => pool[p] # <<>>
    <2>1. /\ status \in {"running", "stopped", "panicked"} /\ outbound \in Seq(Result)
          /\ pool \in [OpIds -> Option(Worker)]
      BY DEF TypeInv, TypeOK, FabricTypeOK
    <2>2. CASE status' = "panicked" /\ UNCHANGED <<outbound, pool>>
      BY <2>1, <2>2
    <2>3. CASE /\ \A k \in DOMAIN op.args : results[op.args[k]] # <<>>
               /\ status' = status
               /\ pool' = [pool EXCEPT ![o] = <<[step |-> "running", out |-> Outputs(o)]>>]
               /\ outbound' = IF op.op_type = "Network" THEN Append(outbound, Outputs(o)[1])
                              ELSE outbound
      <3>1. Outputs(o) \in Seq(Result) /\ Outputs(o)[1] \in Result
        BY <1>1, <1>3, <2>3, OutputsAreResults
      <3>2. outbound' \in Seq(Result)
        BY <2>1, <2>3, <3>1, AppendFacts
      <3>3. [step |-> "running", out |-> Outputs(o)] \in Worker
        BY <3>1 DEF Worker
      <3>4. pool' \in [OpIds -> Option(Worker)]
        BY <2>1, <2>3, <3>3, OptionIntro
      <3>5. QED
        BY <1>2, <2>1, <2>3, <3>2, <3>4
    <2>4. QED
      BY <1>1, <2>2, <2>3, ComputeEffect
  <1>5. FabricInv'
    <2>1. /\ FabricInv /\ job_queue' = job_queue /\ job_queue' \in Seq(ExecutorMessage)
          /\ buffer' \in [Handles -> Option(Val)] /\ woken' \in [Handles -> SUBSET Wakers]
      BY <1>2 DEF TypeInv, FabricInv, FabricTypeOK
    <2>2. QED
      BY <1>2, <1>4, <2>1, FabricKept
  <1>6. results' \in [ResultIds -> Option(Val)]
    BY <1>2 DEF TypeInv, TypeOK
  <1>7. QED
    BY <1>2, <1>4, <1>5, <1>6, WorkerType

\* What a worker holds.
LEMMA WorkerFacts ==
    ASSUME TypeInv, NEW o \in OpIds, pool[o] # <<>>
    PROVE  /\ pool[o][1] \in Worker /\ pool[o] = <<pool[o][1]>>
           /\ pool[o][1].out \in Seq(Result) /\ issued[o] # <<>> /\ issued[o][1] \in Operation
  <1>1. pool[o][1] \in Worker /\ pool[o] = <<pool[o][1]>>
    BY OptionElim DEF TypeInv, TypeOK
  <1>2. issued[o] # <<>>
    BY DEF TypeInv, OpsHeld
  <1>3. issued[o][1] \in Operation
    BY <1>2, OptionElim DEF TypeInv, TypeOK, FabricTypeOK
  <1>4. QED
    BY <1>1, <1>2, <1>3 DEF Worker

\* The write of an output, as a step on the cell and on what the worker has left.
LEMMA WriteEffect ==
    ASSUME TypeInv, NEW o \in OpIds, WriteResult(o), NEW res, res = Head(pool[o][1].out)
    PROVE  /\ pool[o] # <<>> /\ pool[o][1].out # <<>> /\ res \in Result
           /\ res.id \in ResultIds /\ res.val \in Val
           /\ results' = [results EXCEPT ![res.id] = <<res.val>>]
           /\ status' = IF results[res.id] = <<>> THEN status ELSE "panicked"
           /\ pool' = [pool EXCEPT ![o] = <<[step |-> pool[o][1].step, out |-> Tail(pool[o][1].out)]>>]
           /\ [step |-> pool[o][1].step, out |-> Tail(pool[o][1].out)] \in Worker
  <1>1. pool[o] # <<>> /\ pool[o][1].out # <<>>
    BY DEF WriteResult
  <1>2. PICK w : w = pool[o][1]
    OBVIOUS
  <1>3. w \in Worker /\ pool[o] = <<w>> /\ w.out \in Seq(Result) /\ w.out # <<>>
    BY <1>1, <1>2, WorkerFacts
  <1>4. res \in Result /\ Tail(w.out) \in Seq(Result)
    BY <1>2, <1>3, TailFacts
  <1>5. res.id \in ResultIds /\ res.val \in Val
    BY <1>4 DEF Result
  <1>6. PICK d : d = [step |-> w.step, out |-> Tail(w.out)]
    OBVIOUS
  <1>7. [w EXCEPT !.out = Tail(@)] = d
    <2>1. PICK c : c = Tail(w.out)
      OBVIOUS
    <2>2. w \in [step : {"spawned", "running"}, out : Seq(Result)]
      BY <1>3 DEF Worker
    <2>3. [w EXCEPT !.out = c] = [step |-> w.step, out |-> c]
      BY <2>2
    <2>4. [w EXCEPT !.out = Tail(@)] = [w EXCEPT !.out = Tail(w.out)]
      OBVIOUS
    <2>5. QED
      BY <1>6, <2>1, <2>3, <2>4
  <1>8. [pool[o] EXCEPT ![1].out = Tail(@)] = <<d>>
    <2>1. PICK p : p = pool[o]
      OBVIOUS
    <2>2. p = <<w>> /\ p[1] = w
      BY <1>3, <2>1
    <2>3. [p EXCEPT ![1].out = Tail(@)] = [p EXCEPT ![1] = [p[1] EXCEPT !.out = Tail(@)]]
      OBVIOUS
    <2>4. [p EXCEPT ![1].out = Tail(@)] = [p EXCEPT ![1] = d]
      BY <1>7, <2>2, <2>3
    <2>5. [p EXCEPT ![1] = d] = <<d>>
      BY <2>2
    <2>6. QED
      BY <2>1, <2>4, <2>5
  <1>9. pool' = [pool EXCEPT ![o] = <<d>>]
    <2>1. pool' = [pool EXCEPT ![o][1].out = Tail(@)]
      BY DEF WriteResult
    <2>2. [pool EXCEPT ![o][1].out = Tail(@)] = [pool EXCEPT ![o] = [pool[o] EXCEPT ![1].out = Tail(@)]]
      OBVIOUS
    <2>3. QED
      BY <1>8, <2>1, <2>2
  <1>10. d \in Worker
    BY <1>3, <1>4, <1>6 DEF Worker
  <1>11. /\ results' = [results EXCEPT ![res.id] = <<res.val>>]
         /\ status' = IF results[res.id] = <<>> THEN status ELSE "panicked"
    BY DEF WriteResult
  <1>12. QED
    BY <1>1, <1>2, <1>4, <1>5, <1>6, <1>9, <1>10, <1>11

\* The write of an output keeps TypeInv.
LEMMA WriteResultType ==
    ASSUME TypeInv, NEW o \in OpIds, WriteResult(o)
    PROVE  TypeInv'
  <1>1. PICK res, d : /\ res = Head(pool[o][1].out)
                      /\ d = [step |-> pool[o][1].step, out |-> Tail(pool[o][1].out)]
    OBVIOUS
  <1>2. /\ pool[o] # <<>> /\ res.id \in ResultIds /\ res.val \in Val
        /\ results' = [results EXCEPT ![res.id] = <<res.val>>]
        /\ status' = IF results[res.id] = <<>> THEN status ELSE "panicked"
        /\ pool' = [pool EXCEPT ![o] = <<d>>] /\ d \in Worker
    BY <1>1, WriteEffect
  <1>3. UNCHANGED <<fabricVars, ready_mask, inflight_args, dependencies, waiters, batch, ready_ids>>
    BY DEF WriteResult
  <1>4. UNCHANGED <<callVars, netVars, job_queue, outbound, shutdown_sent, buffer, pollVars, woken>>
    BY <1>3 DEF fabricVars
  <1>5. /\ results' \in [ResultIds -> Option(Val)] /\ pool' \in [OpIds -> Option(Worker)]
        /\ status' \in {"running", "stopped", "panicked"}
        /\ \A p \in OpIds : pool'[p] # <<>> => pool[p] # <<>>
    BY <1>2, OptionIntro DEF TypeInv, TypeOK
  <1>6. FabricInv'
    <2>1. /\ FabricInv /\ job_queue' = job_queue /\ job_queue' \in Seq(ExecutorMessage)
          /\ buffer' \in [Handles -> Option(Val)] /\ woken' \in [Handles -> SUBSET Wakers]
          /\ outbound' \in Seq(Result)
      BY <1>4 DEF TypeInv, FabricInv, FabricTypeOK
    <2>2. QED
      BY <1>4, <2>1, FabricKept
  <1>7. QED
    BY <1>3, <1>4, <1>5, <1>6, WorkerType

\* The ids that a worker announces: the outputs of its operation.
OutIds(op) == [j \in 1 .. op.output_arity |-> op.result_id + j - 1]

\* They are result ids, each of them once.
LEMMA OutIdsFacts ==
    ASSUME NEW op \in Operation
    PROVE  OutIds(op) \in Seq(ResultIds) /\ OnlyOnce(OutIds(op)) /\ Elems(OutIds(op)) = ResultIdsOf(op)
  <1>1. /\ op.result_id \in Nat /\ op.output_arity \in Nat \ {0}
        /\ op.result_id + op.output_arity <= MaxResults
    BY OperationFacts
  <1>2. PICK a, n : a = op.result_id /\ n = op.output_arity
    OBVIOUS
  <1>3. OutIds(op) = [j \in 1 .. n |-> a + j - 1] /\ ResultIdsOf(op) = a .. a + n - 1
    BY <1>2 DEF OutIds, ResultIdsOf
  <1>4. PICK s : s = OutIds(op)
    OBVIOUS
  <1>5. DOMAIN s = 1 .. n /\ \A j \in 1 .. n : s[j] = a + j - 1 /\ s[j] \in ResultIds
    BY <1>1, <1>2, <1>3, <1>4, FabricAssumption DEF ResultIds
  <1>6. s \in Seq(ResultIds)
    <2>1. s \in [1 .. n -> ResultIds]
      BY <1>3, <1>4, <1>5
    <2>2. QED
      BY <1>1, <1>2, <2>1, SeqIntro
  <1>7. OnlyOnce(s)
    BY <1>1, <1>2, <1>5 DEF OnlyOnce
  <1>8. ASSUME NEW x \in a .. a + n - 1 PROVE x \in Elems(s)
    <2>1. x - a + 1 \in 1 .. n /\ a + (x - a + 1) - 1 = x
      BY <1>1, <1>2
    <2>2. QED
      BY <1>5, <2>1 DEF Elems
  <1>9. ASSUME NEW x \in Elems(s) PROVE x \in a .. a + n - 1
    <2>1. PICK j \in 1 .. n : x = a + j - 1
      BY <1>5 DEF Elems
    <2>2. QED
      BY <1>1, <1>2, <2>1
  <1>10. Elems(s) = a .. a + n - 1
    BY <1>8, <1>9
  <1>11. QED
    BY <1>3, <1>4, <1>6, <1>7, <1>10

\* The announcement of the outputs keeps TypeInv.
LEMMA NotifyReadyType ==
    ASSUME TypeInv, NEW o \in OpIds, NotifyReady(o)
    PROVE  TypeInv'
  <1>1. PICK ids : ids = OutIds(issued[o][1])
    OBVIOUS
  <1>2. /\ pool[o] # <<>> /\ pool' = [pool EXCEPT ![o] = <<>>]
        /\ job_queue' = Append(job_queue, ReadyMsg(ids))
        /\ UNCHANGED <<callVars, netVars, outbound, shutdown_sent, buffer, pollVars, woken,
                       status, results, ready_mask, inflight_args, dependencies, waiters,
                       batch, ready_ids>>
    BY <1>1 DEF NotifyReady, Push, OutIds
  <1>3. ids \in Seq(ResultIds)
    BY <1>1, <1>2, WorkerFacts, OutIdsFacts
  <1>4. ReadyMsg(ids) \in ExecutorMessage /\ ReadyMsg(ids).type = "ResultsReady"
    BY <1>3 DEF ReadyMsg, ExecutorMessage
  <1>5. /\ job_queue' \in Seq(ExecutorMessage)
        /\ \A i \in DOMAIN job_queue' : \/ job_queue'[i].type = "ResultsReady"
                                        \/ \E j \in DOMAIN job_queue : job_queue'[i] = job_queue[j]
    BY <1>2, <1>4, AppendFacts DEF TypeInv, TypeOK, FabricTypeOK
  <1>6. FabricInv'
    BY <1>2, <1>5, FabricKept DEF TypeInv, FabricInv, FabricTypeOK
  <1>7. /\ results' \in [ResultIds -> Option(Val)] /\ pool' \in [OpIds -> Option(Worker)]
        /\ status' \in {"running", "stopped", "panicked"}
        /\ \A p \in OpIds : pool'[p] # <<>> => pool[p] # <<>>
    BY <1>2, OptionIntro DEF TypeInv, TypeOK
  <1>8. QED
    BY <1>2, <1>6, <1>7, WorkerType

\* Nothing changes: TypeInv stays.
LEMMA StutterType == ASSUME TypeInv, UNCHANGED vars PROVE TypeInv'
  <1>1. UNCHANGED <<callVars, netVars, job_queue, outbound, shutdown_sent, buffer, pollVars, woken>>
    BY DEF vars, fabricVars
  <1>2. FabricInv'
    BY <1>1, FabricKept DEF TypeInv, FabricInv, FabricTypeOK
  <1>3. UNCHANGED executorVars
    BY DEF vars
  <1>4. TypeOK' /\ OpsHeld' /\ WaitersPolled'
    BY <1>1, <1>2, <1>3 DEF TypeInv, TypeOK, FabricInv, OpsHeld, WaitersPolled, executorVars,
       callVars, pollVars
  <1>5. QED
    BY <1>2, <1>4 DEF TypeInv

\* Every step keeps TypeInv.
LEMMA NextTypeInv == TypeInv /\ [Next]_vars => TypeInv'
  <1> SUFFICES ASSUME TypeInv, [Next]_vars PROVE TypeInv'
    OBVIOUS
  <1>1. CASE CoordinatorNext
    BY <1>1, PopType, HandleNewResultType, HandleNewResultByIdType, HandleNewOperationType,
       HandleNewWaiterType DEF CoordinatorNext
  <1>2. CASE \E o \in OpIds : WorkerNext(o)
    BY <1>2, ComputeResultType, WriteResultType, NotifyReadyType DEF WorkerNext
  <1>3. CASE FabricNext /\ UNCHANGED executorVars
    BY <1>3, FabricNextType
  <1>4. CASE UNCHANGED vars
    BY <1>4, StutterType
  <1>5. QED
    BY <1>1, <1>2, <1>3, <1>4 DEF Next

\* The executor's state, the job queue and the pool's tasks keep their types, and every
\* op id and waiter they hold belongs to an operation that was built and a handle that
\* was polled.
THEOREM ParallelTypeInvariant == Spec => []TypeInv
  BY InitTypeInv, NextTypeInv, PTL DEF Spec

\* Every variable of the multi threaded executor keeps its type; in particular a torn
\* read never leaves a buffer with something else than a value.
THEOREM ParallelTypeCorrect == Spec => []TypeOK
  <1>1. TypeInv => TypeOK
    BY DEF TypeInv
  <1>2. QED
    BY <1>1, ParallelTypeInvariant, PTL

-----------------------------------------------------------------------------
(* The way of an output. *)

\* The ids that a task of the pool has computed and not yet written.
LeftIds(p) == IF p = <<>> THEN {} ELSE Elems(IdSeq(p[1].out))

\* The cells that are written, and the ids that are announced in the job queue or in the
\* job in progress.
Filled    == {r \in ResultIds : results[r] # <<>>}
Announced == Carried(Flow(ReadyIn, ready_ids, job_queue))

\* What the executor has made: written, about to be written, or sent.
Made == Filled \cup (UNION {LeftIds(pool[o]) : o \in OpIds}) \cup Elems(IdSeq(outbound))

\* The operations that it holds and has not computed, and those it knows.
Busy    == {o \in OpIds : inflight_args[o] # <<>> \/ pool[o] = Spawned}
Touched == {o \in OpIds : \/ inflight_args[o] # <<>> \/ pool[o] # <<>>
                          \/ \E r \in ResultIds : Has(dependencies[r], o)}

\* The flow from the application, with the executor's part of it.
Moves == FlowInv(IdSeq(batch), ready_ids, Made, Busy, Touched)

\* A task that waits has no outputs.  One that runs has some of its outputs left, each
\* once; the others are written, and none is announced or marked (told).
WorkerOK(w, out, filled, told) ==
    IF w.step = "spawned" THEN w.out = <<>>
    ELSE /\ OnlyOnce(IdSeq(w.out)) /\ Elems(IdSeq(w.out)) \subseteq out
         /\ Elems(IdSeq(w.out)) \cap filled = {}
         /\ out \subseteq filled \cup Elems(IdSeq(w.out))
         /\ out \cap told = {}

OutputsInv == \A o \in OpIds : pool[o] # <<>> =>
                WorkerOK(pool[o][1], Out(o), Filled, ready_mask \cup Announced)

\* What is announced or marked is written; nothing is announced again once it is marked.
ReadyInv == /\ Announced \subseteq Filled /\ ready_mask \subseteq Filled
            /\ Announced \cap ready_mask = {}

\* A buffered operation misses the arguments that are not marked and is registered once
\* per use; any other has no registration that execute_dependents will come to; a spawned
\* one has its arguments marked.
CountOK(o, infl, p, args, deps, mask) ==
    /\ infl # <<>> => /\ p = <<>>
                      /\ infl[1] = Cardinality({k \in DOMAIN args : args[k] \notin mask})
                      /\ \A r \in ResultIds : Count(deps[r], o) = Uses(args, r)
    /\ infl = <<>> => \A r \in ResultIds : Has(deps[r], o) => r \in mask
    /\ p = Spawned => \A k \in DOMAIN args : args[k] \in mask

CountInv == \A o \in OpIds :
    CountOK(o, inflight_args[o], pool[o], issued[o][1].args, dependencies, ready_mask)

DispatchInv == Moves /\ OutputsInv /\ ReadyInv /\ CountInv /\ NoPanic

\* The flow, in terms of what the executor's part is before and after a step.
LEMMA MovesNow ==
    ASSUME Moves, NEW cur, NEW ready, NEW made, NEW busy, NEW touched,
           cur = IdSeq(batch), ready = ready_ids, made = Made, busy = Busy, touched = Touched
    PROVE  FlowInv(cur, ready, made, busy, touched) /\ Readies(ready) = Announced
  BY DEF Moves, Announced, Readies

LEMMA MovesThen ==
    ASSUME NEW cur, NEW ready, NEW made, NEW busy, NEW touched,
           cur = IdSeq(batch'), ready = ready_ids', made = Made', busy = Busy',
           touched = Touched', FlowInv(cur, ready, made, busy, touched)'
    PROVE  Moves' /\ Readies(ready)' = Announced'
  BY DEF Moves, Announced, Readies, FlowInv, OneOrigin, OneArrival, OnePlace, Sources

\* A task of the pool is not touched by what happens to other ids.
LEMMA WorkerStable ==
    ASSUME NEW w, NEW out, NEW filled, NEW told, WorkerOK(w, out, filled, told),
           NEW filled2, NEW told2, filled \subseteq filled2, out \cap filled2 \subseteq filled,
           out \cap told2 \subseteq told
    PROVE  WorkerOK(w, out, filled2, told2)
  BY DEF WorkerOK

\* Spawned is a task.
LEMMA SpawnedFacts == Spawned # <<>> /\ Spawned[1].step = "spawned" /\ Spawned[1].out = <<>>
  BY OptionIntro DEF Spawned

\* A new fabric satisfies the dispatch invariant.
LEMMA InitDispatch == Init => DispatchInv
  <1> SUFFICES ASSUME Init PROVE DispatchInv
    OBVIOUS
  <1>1. FlowInv(<<>>, <<>>, {}, {}, {}) /\ Readies(<<>>) = {}
    BY InitFlowInv DEF Init
  <1>2. /\ batch = <<>> /\ ready_ids = <<>> /\ status = "running" /\ ready_mask = {}
        /\ outbound = <<>> /\ \A r \in ResultIds : results[r] = <<>> /\ dependencies[r] = <<>>
        /\ \A o \in OpIds : inflight_args[o] = <<>> /\ pool[o] = <<>>
    BY DEF Init, FabricInit
  <1>3. IdSeq(<<>>) = <<>> /\ Elems(IdSeq(<<>>)) = {} /\ \A o : ~Has(<<>>, o)
    BY DEF IdSeq, Elems, Has
  <1>4. Filled = {} /\ Made = {}
    BY <1>2, <1>3 DEF Filled, Made, LeftIds
  <1>5. Busy = {} /\ Touched = {}
    BY <1>2, <1>3, SpawnedFacts DEF Busy, Touched
  <1>6. Moves /\ Announced = {}
    BY <1>1, <1>2, <1>3, <1>4, <1>5 DEF Moves, Announced, Readies
  <1>7. OutputsInv /\ ReadyInv /\ NoPanic
    BY <1>2, <1>4, <1>6 DEF OutputsInv, ReadyInv, NoPanic
  <1>8. CountInv
    BY <1>2, <1>3, SpawnedFacts DEF CountInv, CountOK
  <1>9. QED
    BY <1>6, <1>7, <1>8 DEF DispatchInv

\* The steps of the application and of the network.
LEMMA FabricDispatch ==
    ASSUME TypeInv, DispatchInv, FabricNext, UNCHANGED executorVars
    PROVE  DispatchInv'
  <1>1. PICK cur, ready, made, busy, touched :
            /\ cur = IdSeq(batch) /\ ready = ready_ids /\ made = Made /\ busy = Busy
            /\ touched = Touched
    OBVIOUS
  <1>2. FlowInv(cur, ready, made, busy, touched) /\ Readies(ready) = Announced
    BY <1>1, MovesNow DEF DispatchInv
  <1>3. /\ FlowInv(cur, ready, made, busy, touched)' /\ Readies(ready)' = Readies(ready)
        /\ \A o \in OpIds : o \in touched => issued'[o] = issued[o]
    BY <1>2, FabricFlowStep DEF TypeInv
  <1>4. /\ batch' = batch /\ ready_ids' = ready_ids /\ results' = results /\ pool' = pool
        /\ inflight_args' = inflight_args /\ dependencies' = dependencies
        /\ ready_mask' = ready_mask /\ status' = status
    BY DEF executorVars
  <1>5. outbound' = outbound
    BY FabricInvStep DEF TypeInv
  <1>6. Filled' = Filled /\ Made' = Made /\ Busy' = Busy /\ Touched' = Touched
    BY <1>4, <1>5 DEF Filled, Made, Busy, Touched
  <1>7. Moves' /\ Announced' = Announced
    <2>1. Moves' /\ Readies(ready)' = Announced'
      BY <1>1, <1>3, <1>4, <1>6, MovesThen
    <2>2. QED
      BY <1>2, <1>3, <2>1
  <1>8. OutputsInv'
    <2>1. ASSUME NEW o \in OpIds, pool[o] # <<>>
          PROVE  WorkerOK(pool[o][1], Out(o)', Filled, ready_mask \cup Announced)
      <3>1. issued'[o] = issued[o]
        BY <1>1, <1>3, <2>1 DEF Touched
      <3>2. Out(o)' = Out(o)
        BY <3>1 DEF Out
      <3>3. QED
        BY <2>1, <3>2 DEF DispatchInv, OutputsInv
    <2>2. QED
      BY <1>4, <1>6, <1>7, <2>1 DEF OutputsInv
  <1>9. ReadyInv' /\ NoPanic'
    BY <1>4, <1>6, <1>7 DEF DispatchInv, ReadyInv, NoPanic
  <1>10. CountInv'
    <2>1. ASSUME NEW o \in OpIds
          PROVE  CountOK(o, inflight_args[o], pool[o], issued'[o][1].args, dependencies, ready_mask)
      <3>1. CASE o \in Touched
        BY <1>1, <1>3, <3>1 DEF DispatchInv, CountInv
      <3>2. CASE o \notin Touched
        <4>1. /\ inflight_args[o] = <<>> /\ pool[o] = <<>>
              /\ \A r \in ResultIds : ~Has(dependencies[r], o)
          BY <3>2 DEF Touched
        <4>2. QED
          BY <4>1, SpawnedFacts DEF CountOK
      <3>3. QED
        BY <3>1, <3>2
    <2>2. QED
      BY <1>4, <2>1 DEF CountInv
  <1>11. QED
    BY <1>7, <1>8, <1>9, <1>10 DEF DispatchInv

\* The pops that only change what the coordinator has at hand.
LEMMA QuietPop ==
    ASSUME TypeInv, DispatchInv, batch = <<>>, ready_ids = <<>>,
           job_queue # <<>>, job_queue' = Tail(job_queue), NEW m, m = Head(job_queue),
           m.type # "Op", IdSeq(batch') = SourceIn[m], ready_ids' = ReadyIn[m],
           status' # "panicked",
           UNCHANGED <<callVars, netVars, outbound, results, ready_mask, inflight_args,
                       dependencies, pool>>
    PROVE  DispatchInv'
  <1>1. PICK made, busy, touched, ops :
            made = Made /\ busy = Busy /\ touched = Touched /\ ops = Elems(OpIn[m])
    OBVIOUS
  <1>2. IdSeq(batch) = <<>>
    BY DEF IdSeq
  <1>3. FlowInv(<<>>, <<>>, made, busy, touched) /\ Readies(<<>>) = Announced
    BY <1>1, <1>2, MovesNow DEF DispatchInv
  <1>4. /\ m \in ExecutorMessage
        /\ FlowInv(SourceIn[m], ReadyIn[m], made, busy \cup ops, touched \cup ops)'
        /\ Readies(ReadyIn[m])' = Readies(<<>>)
    <2>1. FabricInv
      BY DEF TypeInv
    <2>2. job_queue # <<>> /\ job_queue' = Tail(job_queue) /\ UNCHANGED <<callVars, netVars>>
      OBVIOUS
    <2>3. m = Head(job_queue) /\ ops = Elems(OpIn[m])
      BY <1>1
    <2>4. QED
      BY <1>3, <2>1, <2>2, <2>3, PopFlow
  <1>5. ops = {} /\ busy \cup ops = busy /\ touched \cup ops = touched
    BY <1>1, <1>4, MessageKinds
  <1>6. PICK cur, ready : cur = SourceIn[m] /\ ready = ReadyIn[m]
    OBVIOUS
  <1>7. FlowInv(cur, ready, made, busy, touched)' /\ Readies(ready)' = Readies(<<>>)
    <2>1. cur = SourceIn[m]
      BY <1>6
    <2>2. QED
      BY <1>4, <1>5, <1>6
  <1>8. /\ results' = results /\ pool' = pool /\ inflight_args' = inflight_args
        /\ dependencies' = dependencies /\ ready_mask' = ready_mask /\ outbound' = outbound
        /\ issued' = issued
    BY DEF callVars
  <1>9. Filled' = Filled /\ Made' = Made /\ Busy' = Busy /\ Touched' = Touched
    BY <1>8 DEF Filled, Made, Busy, Touched
  <1>10. Moves' /\ Announced' = Announced
    <2>1. Moves' /\ Readies(ready)' = Announced'
      BY <1>1, <1>6, <1>7, <1>9, MovesThen
    <2>2. QED
      BY <1>3, <1>7, <2>1
  <1>11. OutputsInv'
    BY <1>8, <1>9, <1>10 DEF DispatchInv, OutputsInv, Out
  <1>12. ReadyInv' /\ NoPanic'
    BY <1>8, <1>9, <1>10 DEF DispatchInv, ReadyInv, NoPanic
  <1>13. CountInv'
    BY <1>8 DEF DispatchInv, CountInv
  <1>14. QED
    BY <1>10, <1>11, <1>12, <1>13 DEF DispatchInv

\* The jobs that announce results, waiters and the shutdown.
LEMMA PopDispatch ==
    ASSUME TypeInv, DispatchInv,
           PopResults \/ PopResultsReady \/ HandleNewWaiter \/ HandleShutdown
    PROVE  DispatchInv'
  <1>1. PICK m : m = Head(job_queue)
    OBVIOUS
  <1>2. /\ batch = <<>> /\ ready_ids = <<>> /\ job_queue # <<>> /\ job_queue' = Tail(job_queue)
        /\ status = "running" /\ m.type \in {"Results", "ResultsReady", "NewWaiter", "Shutdown"}
    BY <1>1 DEF PopResults, PopResultsReady, HandleNewWaiter, HandleShutdown, Pops
  <1>3. UNCHANGED <<callVars, netVars, outbound, results, ready_mask, inflight_args,
                    dependencies, pool>>
    BY DEF PopResults, PopResultsReady, HandleNewWaiter, HandleShutdown
  <1>4. m \in ExecutorMessage
    BY <1>1, <1>2, TailFacts DEF TypeInv, TypeOK, FabricTypeOK
  <1>5. IdSeq(<<>>) = <<>>
    BY DEF IdSeq
  <1>6. IdSeq(batch') = SourceIn[m] /\ ready_ids' = ReadyIn[m] /\ status' # "panicked"
    <2>1. CASE PopResults
      <3>1. batch' = m.results /\ ready_ids' = <<>> /\ m.type = "Results" /\ status' = "running"
        BY <1>1, <1>2, <2>1 DEF PopResults, Pops
      <3>2. QED
        BY <1>4, <3>1, MessageKinds
    <2>2. CASE PopResultsReady
      <3>1. batch' = <<>> /\ ready_ids' = m.ids /\ m.type = "ResultsReady" /\ status' = "running"
        BY <1>1, <1>2, <2>2 DEF PopResultsReady, Pops
      <3>2. QED
        BY <1>4, <1>5, <3>1, MessageKinds
    <2>3. CASE HandleNewWaiter
      <3>1. batch' = <<>> /\ ready_ids' = <<>> /\ m.type = "NewWaiter" /\ status' = "running"
        BY <1>1, <1>2, <2>3 DEF HandleNewWaiter, Pops
      <3>2. QED
        BY <1>4, <1>5, <3>1, MessageKinds
    <2>4. CASE HandleShutdown
      <3>1. batch' = <<>> /\ ready_ids' = <<>> /\ m.type = "Shutdown" /\ status' = "stopped"
        BY <1>1, <1>2, <2>4 DEF HandleShutdown, Pops
      <3>2. QED
        BY <1>4, <1>5, <3>1, MessageKinds
    <2>5. QED
      BY <2>1, <2>2, <2>3, <2>4
  <1>7. m.type # "Op"
    BY <1>2
  <1>8. QED
    BY <1>1, <1>2, <1>3, <1>6, <1>7, QuietPop

\* What execute_dependents does to one operation when the result id becomes ready: its
\* registrations for that result are the arguments that it no longer misses.
LEMMA DependentCount ==
    ASSUME NEW o \in OpIds, NEW args \in ArgLists(ResultIds), NEW deps \in [ResultIds -> Seq(OpIds)],
           NEW infl \in Option(1 .. MaxArgs), NEW p, NEW mask, NEW id \in ResultIds, id \notin mask,
           CountOK(o, infl, p, args, deps, mask), NEW c, c = Count(deps[id], o)
    PROVE  /\ c > 0 => infl # <<>> /\ ~(infl[1] < c)
           /\ CountOK(o, IF c > 0 THEN Buffered(infl[1] - c) ELSE infl,
                      IF c > 0 /\ infl[1] - c = 0 THEN Spawned ELSE p,
                      args, deps, mask \cup {id})
  <1> DEFINE miss == Cardinality({k \in DOMAIN args : args[k] \notin mask})
             miss2 == Cardinality({k \in DOMAIN args : args[k] \notin mask \cup {id}})
  <1>1. /\ miss = miss2 + Uses(args, id) /\ Uses(args, id) \in Nat /\ miss2 \in Nat
        /\ Uses(args, id) = 0 <=> \A k \in DOMAIN args : args[k] # id
    <2>1. /\ Cardinality({k \in DOMAIN args : args[k] \notin mask}) =
               Cardinality({k \in DOMAIN args : args[k] \notin mask \cup {id}}) + Uses(args, id)
          /\ Uses(args, id) \in Nat
          /\ Cardinality({k \in DOMAIN args : args[k] \notin mask \cup {id}}) \in Nat
          /\ Uses(args, id) = 0 <=> \A k \in DOMAIN args : args[k] # id
      BY PositionsSplit
    <2>2. QED
      BY <2>1
  <1>2. c \in Nat /\ (c = 0 <=> ~Has(deps[id], o))
    BY CountFacts
  <1>3. miss2 = 0 => \A k \in DOMAIN args : args[k] \in mask \cup {id}
    <2>1. {k \in DOMAIN args : args[k] \notin mask \cup {id}} \in SUBSET DOMAIN args
      OBVIOUS
    <2>2. IsFiniteSet({k \in DOMAIN args : args[k] \notin mask \cup {id}})
      BY <2>1, PositionsBound
    <2>3. QED
      BY <2>2, FS_EmptySet
  <1> HIDE DEF miss, miss2
  <1>4. CASE infl = <<>>
    <2>1. c = 0
      BY <1>2, <1>4 DEF CountOK
    <2>2. QED
      BY <1>4, <2>1 DEF CountOK
  <1>5. CASE infl # <<>>
    <2>1. /\ p = <<>> /\ infl[1] = miss /\ \A r \in ResultIds : Count(deps[r], o) = Uses(args, r)
      BY <1>5 DEF CountOK, miss
    <2>2. c = Uses(args, id) /\ infl[1] - c = miss2 /\ ~(infl[1] < c)
      BY <1>1, <1>2, <2>1
    <2>3. CASE c = 0
      <3>1. infl[1] = miss2
        BY <1>1, <2>1, <2>2, <2>3
      <3>2. CountOK(o, infl, p, args, deps, mask \cup {id})
        BY <1>5, <2>1, <3>1, SpawnedFacts DEF CountOK, miss2
      <3>3. QED
        BY <2>3, <3>2
    <2>4. CASE c > 0 /\ miss2 > 0
      <3>1. Buffered(infl[1] - c) = <<miss2>>
        BY <2>2, <2>4 DEF Buffered
      <3>2. CountOK(o, <<miss2>>, p, args, deps, mask \cup {id})
        BY <2>1, SpawnedFacts DEF CountOK, miss2
      <3>3. infl[1] - c # 0
        BY <1>1, <2>2, <2>4
      <3>4. QED
        BY <1>5, <2>2, <2>4, <3>1, <3>2, <3>3
    <2>5. CASE c > 0 /\ miss2 = 0
      <3>1. Buffered(infl[1] - c) = <<>>
        BY <2>2, <2>5 DEF Buffered
      <3>2. \A r \in ResultIds : Has(deps[r], o) => r \in mask \cup {id}
        <4> SUFFICES ASSUME NEW r \in ResultIds, Has(deps[r], o) PROVE r \in mask \cup {id}
          OBVIOUS
        <4>1. deps[r] \in Seq(OpIds) /\ Count(deps[r], o) = Uses(args, r)
          BY <2>1
        <4>2. Uses(args, r) # 0
          BY <4>1, CountFacts
        <4>3. PICK k \in DOMAIN args : args[k] = r
          BY <4>2, UsesPositive
        <4>4. QED
          BY <1>3, <2>5, <4>3
      <3>3. CountOK(o, <<>>, Spawned, args, deps, mask \cup {id})
        BY <1>3, <2>5, <3>2 DEF CountOK
      <3>4. QED
        BY <1>5, <2>2, <2>5, <3>1, <3>3
    <2>6. QED
      BY <1>1, <1>2, <2>3, <2>4, <2>5
  <1>6. QED
    BY <1>4, <1>5

\* The ids of a sequence of results.
LEMMA IdSeqFacts ==
    ASSUME NEW rs \in Seq(Result)
    PROVE  /\ IdSeq(rs) \in Seq(ResultIds) /\ Len(IdSeq(rs)) = Len(rs)
           /\ rs # <<>> => /\ IdSeq(rs) # <<>> /\ Head(IdSeq(rs)) = Head(rs).id
                           /\ IdSeq(Tail(rs)) = Tail(IdSeq(rs))
  <1>1. PICK n \in Nat : rs \in [1 .. n -> Result] /\ n = Len(rs) /\ DOMAIN rs = 1 .. n
    OBVIOUS
  <1>2. PICK s : s = IdSeq(rs)
    OBVIOUS
  <1>3. DOMAIN s = 1 .. n /\ \A k \in 1 .. n : s[k] = rs[k].id /\ s[k] \in ResultIds
    BY <1>1, <1>2 DEF IdSeq, Result
  <1>4. s \in [1 .. n -> ResultIds]
    BY <1>1, <1>2, <1>3 DEF IdSeq
  <1>5. s \in Seq(ResultIds) /\ Len(s) = n
    BY <1>4, SeqIntro
  <1>6. ASSUME rs # <<>>
        PROVE  s # <<>> /\ Head(s) = Head(rs).id /\ IdSeq(Tail(rs)) = Tail(s)
    <2>1. n # 0 /\ Head(rs) = rs[1] /\ Tail(rs) \in Seq(Result) /\ Len(Tail(rs)) = n - 1
          /\ DOMAIN Tail(rs) = 1 .. n - 1 /\ \A k \in 1 .. n - 1 : Tail(rs)[k] = rs[k + 1]
      BY <1>1, <1>6
    <2>2. s # <<>> /\ Head(s) = s[1]
      BY <1>5, <2>1
    <2>3. PICK t : t = Tail(s)
      OBVIOUS
    <2>4. t \in Seq(ResultIds) /\ Len(t) = n - 1 /\ \A k \in 1 .. n - 1 : t[k] = s[k + 1]
      BY <1>5, <2>1, <2>2, <2>3
    <2>5. t = [k \in 1 .. n - 1 |-> t[k]]
      BY <2>4
    <2>6. IdSeq(Tail(rs)) = [k \in 1 .. n - 1 |-> Tail(rs)[k].id]
      BY <2>1 DEF IdSeq
    <2>7. \A k \in 1 .. n - 1 : Tail(rs)[k].id = t[k]
      BY <1>1, <1>3, <2>1, <2>4
    <2>8. IdSeq(Tail(rs)) = Tail(s)
      BY <2>3, <2>5, <2>6, <2>7
    <2>9. QED
      BY <1>1, <1>3, <2>1, <2>2, <2>8
  <1>7. QED
    BY <1>1, <1>2, <1>5, <1>6

\* The executor may drop operations from its part of the flow.
LEMMA NarrowFlow ==
    ASSUME NEW cur, NEW ready, NEW made, NEW busy, NEW touched,
           FlowInv(cur, ready, made, busy, touched)',
           NEW busy2, busy2 \subseteq busy, NEW touched2, touched2 \subseteq touched
    PROVE  FlowInv(cur, ready, made, busy2, touched2)'
  <1>1. OneArrival(cur, ready)'
    BY DEF FlowInv
  <1>2. OnePlace(touched2)'
    BY DEF FlowInv, OnePlace
  <1>3. OneOrigin(cur, made, busy2)'
    <2>1. PICK own, known, ids, out, src, waits, waits2 :
              /\ own = Own' /\ known = Known' /\ ids = Ids' /\ out = Outs' /\ src = Sources(cur)'
              /\ waits = (Calling \cup Queued)' \cup busy /\ waits2 = (Calling \cup Queued)' \cup busy2
      OBVIOUS
    <2>2. IdOK(own, known, ids, out, src, made, waits)
      BY <2>1 DEF FlowInv, OneOrigin
    <2>3. own \subseteq known
      BY <2>2 DEF IdOK
    <2>4. waits2 \subseteq waits
      BY <2>1
    <2>5. IdOK(own, known, ids, out, src, made, waits2)
      BY <2>2, <2>3, <2>4, IdShrink
    <2>6. QED
      BY <2>1, <2>5 DEF OneOrigin
  <1>4. QED
    BY <1>1, <1>2, <1>3 DEF FlowInv

\* The coordinator only adds tasks to the pool, for operations that have none.
SpawnsOnly == \A o \in OpIds : pool'[o] = pool[o] \/ (pool[o] = <<>> /\ pool'[o] = Spawned)

\* execute_dependents on a result that is marked now: it does not panic, and every
\* operation it touches goes on as the count says.
LEMMA DependentsDispatch ==
    ASSUME TypeInv, DispatchInv, NEW id \in ResultIds, id \notin ready_mask,
           ExecuteDependents(id), ready_mask' = ready_mask \cup {id},
           dependencies' = dependencies, issued' = issued
    PROVE  /\ CountInv' /\ status' = status
           /\ Busy' \subseteq Busy /\ Touched' \subseteq Touched
           /\ \A o \in OpIds : pool'[o] = pool[o] \/ (pool[o] = <<>> /\ pool'[o] = Spawned)
           /\ UNION {LeftIds(pool[o]) : o \in OpIds}' = UNION {LeftIds(pool[o]) : o \in OpIds}
  <1>1. PICK deps : deps = dependencies[id]
    OBVIOUS
  <1>2. /\ inflight_args \in [OpIds -> Option(1 .. MaxArgs)]
        /\ dependencies \in [ResultIds -> Seq(OpIds)] /\ deps \in Seq(OpIds)
    BY <1>1 DEF TypeInv, TypeOK
  <1>3. ASSUME NEW o \in OpIds
        PROVE  /\ Count(deps, o) > 0 =>
                    inflight_args[o] # <<>> /\ ~(inflight_args[o][1] < Count(deps, o))
               /\ CountOK(o, IF Count(deps, o) > 0
                             THEN Buffered(inflight_args[o][1] - Count(deps, o))
                             ELSE inflight_args[o],
                          IF Count(deps, o) > 0 /\ inflight_args[o][1] - Count(deps, o) = 0
                          THEN Spawned ELSE pool[o],
                          issued[o][1].args, dependencies, ready_mask \cup {id})
    <2>1. CountOK(o, inflight_args[o], pool[o], issued[o][1].args, dependencies, ready_mask)
      BY DEF DispatchInv, CountInv
    <2>2. CASE inflight_args[o] = <<>>
      <3>1. ~(Count(deps, o) > 0)
        <4>1. Has(dependencies[id], o) => id \in ready_mask
          BY <2>1, <2>2 DEF CountOK
        <4>2. Count(deps, o) = 0
          BY <1>1, <1>2, <4>1, CountFacts
        <4>3. QED
          BY <4>2
      <3>2. CountOK(o, inflight_args[o], pool[o], issued[o][1].args, dependencies,
                    ready_mask \cup {id})
        BY <2>1, <2>2 DEF CountOK
      <3>3. QED
        BY <3>1, <3>2
    <2>3. CASE inflight_args[o] # <<>>
      <3>1. issued[o][1].args \in ArgLists(ResultIds)
        <4>1. issued[o] # <<>>
          BY <2>3 DEF TypeInv, OpsHeld
        <4>2. issued[o][1] \in Operation
          BY <4>1, OptionElim DEF TypeInv, TypeOK, FabricTypeOK
        <4>3. QED
          BY <4>2, OperationFacts
      <3>2. PICK args, infl, p, mask, c :
                /\ args = issued[o][1].args /\ infl = inflight_args[o] /\ p = pool[o]
                /\ mask = ready_mask /\ c = Count(dependencies[id], o)
        OBVIOUS
      <3>3. /\ c > 0 => infl # <<>> /\ ~(infl[1] < c)
            /\ CountOK(o, IF c > 0 THEN Buffered(infl[1] - c) ELSE infl,
                       IF c > 0 /\ infl[1] - c = 0 THEN Spawned ELSE p,
                       args, dependencies, mask \cup {id})
        BY <1>2, <2>1, <3>1, <3>2, DependentCount
      <3>4. c = Count(deps, o)
        BY <1>1, <3>2
      <3>5. QED
        BY <3>2, <3>3, <3>4
    <2>4. QED
      BY <2>2, <2>3
  <1>4. /\ status' = status
        /\ \A o \in OpIds : inflight_args'[o] =
              IF Count(deps, o) > 0 THEN Buffered(inflight_args[o][1] - Count(deps, o))
              ELSE inflight_args[o]
        /\ \A o \in OpIds : pool'[o] =
              IF Count(deps, o) > 0 /\ inflight_args[o][1] - Count(deps, o) = 0
              THEN Spawned ELSE pool[o]
    BY <1>1, <1>3, DependentsEffect
  <1>5. CountInv'
    <2>1. ASSUME NEW o \in OpIds
          PROVE  CountOK(o, inflight_args'[o], pool'[o], issued[o][1].args, dependencies,
                         ready_mask \cup {id})
      BY <1>3, <1>4
    <2>2. QED
      BY <2>1 DEF CountInv
  <1>6. ASSUME NEW o \in OpIds
        PROVE  /\ pool'[o] = pool[o] \/ (pool[o] = <<>> /\ pool'[o] = Spawned)
               /\ inflight_args'[o] # <<>> => inflight_args[o] # <<>>
               /\ pool'[o] # pool[o] => inflight_args[o] # <<>>
               /\ LeftIds(pool'[o]) = LeftIds(pool[o])
    <2>1. Count(deps, o) > 0 => inflight_args[o] # <<>> /\ pool[o] = <<>>
      BY <1>3 DEF DispatchInv, CountInv, CountOK
    <2>2. /\ pool'[o] = pool[o] \/ (pool[o] = <<>> /\ pool'[o] = Spawned)
          /\ inflight_args'[o] # <<>> => inflight_args[o] # <<>>
          /\ pool'[o] # pool[o] => inflight_args[o] # <<>>
      BY <1>4, <2>1
    <2>3. LeftIds(Spawned) = LeftIds(<<>>)
      BY SpawnedFacts DEF LeftIds, Elems, IdSeq
    <2>4. QED
      BY <2>2, <2>3
  <1>7. Busy' \subseteq Busy /\ Touched' \subseteq Touched
    BY <1>6 DEF Busy, Touched
  <1>8. UNION {LeftIds(pool[o]) : o \in OpIds}' = UNION {LeftIds(pool[o]) : o \in OpIds}
    BY <1>6
  <1>9. QED
    BY <1>4, <1>5, <1>6, <1>7, <1>8

\* What execute_dependents does to the pool disturbs no task that runs.
LEMMA DependentsOutputs ==
    ASSUME OutputsInv, \A o \in OpIds : pool'[o] = pool[o] \/ (pool[o] = <<>> /\ pool'[o] = Spawned),
           issued' = issued, Filled \subseteq Filled',
           \A o \in OpIds : pool[o] # <<>> => Out(o) \cap Filled' \subseteq Filled,
           \A o \in OpIds : pool[o] # <<>> =>
              Out(o) \cap (ready_mask' \cup Announced') \subseteq ready_mask \cup Announced
    PROVE  OutputsInv'
  <1>1. ASSUME NEW o \in OpIds, pool'[o] # <<>>
        PROVE  WorkerOK(pool'[o][1], Out(o), Filled', ready_mask' \cup Announced')
    <2>1. CASE pool'[o] = pool[o]
      <3>1. pool[o] # <<>> /\ WorkerOK(pool[o][1], Out(o), Filled, ready_mask \cup Announced)
        BY <1>1, <2>1 DEF OutputsInv
      <3>2. PICK w, out, f, t, f2, t2 :
                /\ w = pool[o][1] /\ out = Out(o) /\ f = Filled /\ t = ready_mask \cup Announced
                /\ f2 = Filled' /\ t2 = ready_mask' \cup Announced'
        OBVIOUS
      <3>3. f \subseteq f2 /\ out \cap f2 \subseteq f /\ out \cap t2 \subseteq t /\ WorkerOK(w, out, f, t)
        BY <3>1, <3>2
      <3>4. WorkerOK(w, out, f2, t2)
        BY <3>3, WorkerStable
      <3>5. QED
        BY <2>1, <3>2, <3>4
    <2>2. CASE pool'[o] = Spawned
      BY <2>2, SpawnedFacts DEF WorkerOK
    <2>3. QED
      BY <2>1, <2>2
  <1>2. \A o \in OpIds : Out(o)' = Out(o)
    BY DEF Out
  <1>3. QED
    BY <1>1, <1>2 DEF OutputsInv

\* handle_new_result: the cell is empty, because nobody else makes this result.
LEMMA HandleNewResultDispatch ==
    ASSUME TypeInv, DispatchInv, HandleNewResult
    PROVE  /\ DispatchInv' /\ SpawnsOnly
           /\ Head(batch).id \notin Made /\ \A o \in OpIds : Head(batch).id \notin Out(o)
  <1>1. PICK res : res = Head(batch)
    OBVIOUS
  <1>2. /\ batch \in Seq(Result) /\ batch # <<>> /\ res \in Result /\ res.id \in ResultIds
        /\ Tail(batch) \in Seq(Result)
    <2>1. batch \in Seq(Result) /\ batch # <<>>
      BY DEF TypeInv, TypeOK, HandleNewResult
    <2>2. res \in Result /\ Tail(batch) \in Seq(Result)
      BY <1>1, <2>1, TailFacts
    <2>3. QED
      BY <2>1, <2>2 DEF Result
  <1>3. PICK cur, ready, made, busy, touched :
            /\ cur = IdSeq(batch) /\ ready = ready_ids /\ made = Made /\ busy = Busy
            /\ touched = Touched
    OBVIOUS
  <1>4. /\ cur \in Seq(ResultIds) /\ cur # <<>> /\ Head(cur) = res.id
        /\ IdSeq(Tail(batch)) = Tail(cur)
    BY <1>1, <1>2, <1>3, IdSeqFacts
  <1>5. FlowInv(cur, ready, made, busy, touched) /\ Readies(ready) = Announced
    BY <1>3, MovesNow DEF DispatchInv
  <1>6. /\ UNCHANGED <<callVars, netVars, job_queue>> /\ batch' = Tail(batch)
        /\ outbound' = outbound /\ dependencies' = dependencies /\ ready_ids' = ready_ids
        /\ ready_mask' = ready_mask \cup {res.id}
        /\ results' = [results EXCEPT ![res.id] = <<res.val>>]
        /\ status = "running"
    BY <1>1 DEF HandleNewResult
  <1>7. /\ FlowInv(Tail(cur), ready, made \cup {Head(cur)}, busy, touched)'
        /\ Readies(ready)' = Readies(ready)
        /\ Head(cur) \notin made /\ \A o \in OpIds : Head(cur) \notin Out(o)
    BY <1>4, <1>5, <1>6, ResultFlow DEF TypeInv
  <1>8. res.id \notin Filled /\ res.id \notin ready_mask
    BY <1>3, <1>4, <1>7 DEF Made, DispatchInv, ReadyInv
  <1>9. ExecuteDependents(res.id)
    BY <1>1, <1>2, <1>8 DEF HandleNewResult, Filled
  <1>10. issued' = issued
    BY <1>6 DEF callVars
  <1>11. /\ CountInv' /\ status' = status
         /\ Busy' \subseteq Busy /\ Touched' \subseteq Touched
         /\ \A o \in OpIds : pool'[o] = pool[o] \/ (pool[o] = <<>> /\ pool'[o] = Spawned)
         /\ UNION {LeftIds(pool[o]) : o \in OpIds}' = UNION {LeftIds(pool[o]) : o \in OpIds}
    BY <1>2, <1>6, <1>8, <1>9, <1>10, DependentsDispatch
  <1>12. Filled' = Filled \cup {res.id}
    BY <1>2, <1>6, OptionIntro DEF Filled, TypeInv, TypeOK
  <1>13. Made' = Made \cup {res.id}
    BY <1>6, <1>11, <1>12 DEF Made
  <1>14. Moves' /\ Announced' = Announced
    <2>1. PICK cur2, made2, busy2, touched2 :
              /\ cur2 = Tail(cur) /\ made2 = Made' /\ busy2 = Busy' /\ touched2 = Touched'
      OBVIOUS
    <2>2. made2 = made \cup {Head(cur)} /\ busy2 \subseteq busy /\ touched2 \subseteq touched
      BY <1>3, <1>4, <1>11, <1>13, <2>1
    <2>3. FlowInv(cur2, ready, made2, busy2, touched2)'
      BY <1>7, <2>1, <2>2, NarrowFlow
    <2>4. Moves' /\ Readies(ready)' = Announced'
      BY <1>3, <1>4, <1>6, <2>1, <2>3, MovesThen
    <2>5. QED
      BY <1>5, <1>7, <2>4
  <1>15. OutputsInv'
    BY <1>4, <1>6, <1>7, <1>10, <1>11, <1>12, <1>14, DependentsOutputs DEF DispatchInv
  <1>16. ReadyInv'
    BY <1>6, <1>8, <1>12, <1>14 DEF DispatchInv, ReadyInv
  <1>17. NoPanic' /\ SpawnsOnly
    BY <1>6, <1>11 DEF NoPanic, SpawnsOnly
  <1>18. DispatchInv'
    BY <1>11, <1>14, <1>15, <1>16, <1>17 DEF DispatchInv
  <1>19. QED
    BY <1>1, <1>3, <1>4, <1>7, <1>17, <1>18

\* handle_new_result_by_id: what is announced is written and not yet marked.
LEMMA HandleNewResultByIdDispatch ==
    ASSUME TypeInv, DispatchInv, HandleNewResultById
    PROVE  DispatchInv' /\ SpawnsOnly
  <1>1. PICK id : id = Head(ready_ids)
    OBVIOUS
  <1>2. ready_ids \in Seq(ResultIds) /\ ready_ids # <<>> /\ id \in ResultIds
    <2>1. ready_ids \in Seq(ResultIds) /\ ready_ids # <<>>
      BY DEF TypeInv, TypeOK, HandleNewResultById
    <2>2. QED
      BY <1>1, <2>1, TailFacts
  <1>3. PICK cur, ready, made, busy, touched :
            /\ cur = IdSeq(batch) /\ ready = ready_ids /\ made = Made /\ busy = Busy
            /\ touched = Touched
    OBVIOUS
  <1>4. FlowInv(cur, ready, made, busy, touched) /\ Readies(ready) = Announced
    BY <1>3, MovesNow DEF DispatchInv
  <1>5. /\ UNCHANGED <<callVars, netVars, job_queue>> /\ batch' = batch
        /\ outbound' = outbound /\ dependencies' = dependencies /\ ready_ids' = Tail(ready_ids)
        /\ results' = results /\ status = "running"
    BY DEF HandleNewResultById
  <1>6. /\ FlowInv(cur, Tail(ready), made, busy, touched)'
        /\ Head(ready) \in Readies(ready)
        /\ Readies(Tail(ready))' = Readies(ready) \ {Head(ready)}
    BY <1>2, <1>3, <1>4, <1>5, ReadyFlow DEF TypeInv
  <1>7. id \in Announced /\ id \in Filled /\ id \notin ready_mask
    BY <1>1, <1>3, <1>4, <1>6 DEF DispatchInv, ReadyInv
  <1>8. ready_mask' = ready_mask \cup {id} /\ ExecuteDependents(id)
    BY <1>1, <1>7 DEF HandleNewResultById, Filled
  <1>9. issued' = issued
    BY <1>5 DEF callVars
  <1>10. /\ CountInv' /\ status' = status
         /\ Busy' \subseteq Busy /\ Touched' \subseteq Touched
         /\ \A o \in OpIds : pool'[o] = pool[o] \/ (pool[o] = <<>> /\ pool'[o] = Spawned)
         /\ UNION {LeftIds(pool[o]) : o \in OpIds}' = UNION {LeftIds(pool[o]) : o \in OpIds}
    BY <1>2, <1>5, <1>7, <1>8, <1>9, DependentsDispatch
  <1>11. Filled' = Filled
    BY <1>5 DEF Filled
  <1>12. Made' = Made
    BY <1>5, <1>10, <1>11 DEF Made
  <1>13. Moves' /\ Announced' = Announced \ {id}
    <2>1. PICK ready2, made2, busy2, touched2 :
              /\ ready2 = Tail(ready) /\ made2 = Made' /\ busy2 = Busy' /\ touched2 = Touched'
      OBVIOUS
    <2>2. made2 = made /\ busy2 \subseteq busy /\ touched2 \subseteq touched
      BY <1>3, <1>10, <1>12, <2>1
    <2>3. FlowInv(cur, ready2, made2, busy2, touched2)'
      BY <1>6, <2>1, <2>2, NarrowFlow
    <2>4. Moves' /\ Readies(ready2)' = Announced'
      BY <1>3, <1>5, <2>1, <2>3, MovesThen
    <2>5. QED
      BY <1>1, <1>3, <1>4, <1>6, <2>1, <2>4
  <1>14. OutputsInv'
    <2>1. OutputsInv
      BY DEF DispatchInv
    <2>2. ready_mask' \cup Announced' \subseteq ready_mask \cup Announced
      BY <1>7, <1>8, <1>13
    <2>3. QED
      BY <1>9, <1>10, <1>11, <2>1, <2>2, DependentsOutputs
  <1>15. ReadyInv'
    BY <1>7, <1>8, <1>11, <1>13 DEF DispatchInv, ReadyInv
  <1>16. NoPanic' /\ SpawnsOnly
    BY <1>5, <1>10 DEF NoPanic, SpawnsOnly
  <1>17. QED
    BY <1>10, <1>13, <1>14, <1>15, <1>16 DEF DispatchInv

\* Registering an operation n times for a result.
LEMMA RegisterCount ==
    ASSUME NEW s \in Seq(OpIds), NEW o \in OpIds, NEW n \in Nat, NEW p \in OpIds
    PROVE  /\ p # o => /\ Count(s \o [i \in 1 .. n |-> o], p) = Count(s, p)
                       /\ Has(s \o [i \in 1 .. n |-> o], p) <=> Has(s, p)
           /\ ~Has(s, o) => Count(s \o [i \in 1 .. n |-> o], o) = n
  <1>1. PICK u : u = s \o [i \in 1 .. n |-> o]
    OBVIOUS
  <1>2. \A q \in OpIds :
            /\ Count(u, q) = Count(s, q) + (IF q = o THEN n ELSE 0)
            /\ Has(u, q) <=> Has(s, q) \/ (q = o /\ n > 0)
    BY <1>1, CountRegister
  <1>3. \A q \in OpIds : Count(s, q) \in Nat /\ (Count(s, q) = 0 <=> ~Has(s, q))
    BY CountFacts
  <1>4. p # o => Count(u, p) = Count(s, p) /\ (Has(u, p) <=> Has(s, p))
    BY <1>2, <1>3
  <1>5. ~Has(s, o) => Count(u, o) = n
    BY <1>2, <1>3
  <1>6. QED
    BY <1>1, <1>4, <1>5

\* handle_new_operation: the counts of the operation are exact when it is buffered, and
\* those of the others are not disturbed.
LEMMA HandleNewOperationCount ==
    ASSUME TypeInv, CountInv, HandleNewOperation, NEW o, o = Head(job_queue).op, o \in OpIds,
           o \notin Touched, issued[o] # <<>>, issued' = issued
    PROVE  /\ CountInv' /\ Busy' \subseteq Busy \cup {o} /\ Touched' \subseteq Touched \cup {o}
           /\ \A p \in OpIds : pool'[p] = pool[p] \/ (pool[p] = <<>> /\ pool'[p] = Spawned)
  <1>1. PICK args, n : args = issued[o][1].args /\ n = Missing(args)
    OBVIOUS
  <1>2. args \in ArgLists(ResultIds)
    <2>1. issued[o][1] \in Operation
      BY OptionElim DEF TypeInv, TypeOK, FabricTypeOK
    <2>2. QED
      BY <1>1, <2>1, OperationFacts
  <1>3. /\ n = Cardinality({k \in DOMAIN args : args[k] \notin ready_mask})
        /\ n \in Nat
        /\ n = 0 => \A k \in DOMAIN args : args[k] \in ready_mask
    <2>1. n = Cardinality({k \in DOMAIN args : args[k] \notin ready_mask})
      BY <1>1 DEF Missing
    <2>2. {k \in DOMAIN args : args[k] \notin ready_mask} \in SUBSET DOMAIN args
      OBVIOUS
    <2>3. /\ IsFiniteSet({k \in DOMAIN args : args[k] \notin ready_mask})
          /\ n \in 0 .. MaxArgs
      BY <1>2, <2>1, <2>2, PositionsBound
    <2>4. QED
      BY <2>1, <2>3, FS_EmptySet, FabricAssumption
  <1>4. /\ inflight_args[o] = <<>> /\ pool[o] = <<>>
        /\ \A r \in ResultIds : ~Has(dependencies[r], o)
    BY DEF Touched
  <1>5. /\ inflight_args \in [OpIds -> Option(1 .. MaxArgs)] /\ pool \in [OpIds -> Option(Worker)]
        /\ dependencies \in [ResultIds -> Seq(OpIds)]
    BY DEF TypeInv, TypeOK
  <1>6. ready_mask' = ready_mask
    BY DEF HandleNewOperation
  <1>7. \A p \in OpIds : CountOK(p, inflight_args[p], pool[p], issued[p][1].args, dependencies,
                                 ready_mask)
    BY DEF CountInv
  <1>8. CASE n = 0
    <2>1. pool' = [pool EXCEPT ![o] = Spawned] /\ inflight_args' = inflight_args
          /\ dependencies' = dependencies
      BY <1>1, <1>8 DEF HandleNewOperation
    <2>2. ASSUME NEW p \in OpIds
          PROVE  CountOK(p, inflight_args[p], pool'[p], issued[p][1].args, dependencies, ready_mask)
      <3>1. CASE p = o
        <4>1. pool'[p] = Spawned /\ inflight_args[p] = <<>>
          BY <1>4, <1>5, <2>1, <3>1
        <4>2. \A k \in DOMAIN issued[p][1].args : issued[p][1].args[k] \in ready_mask
          BY <1>1, <1>3, <1>8, <3>1
        <4>3. \A r \in ResultIds : ~Has(dependencies[r], p)
          BY <1>4, <3>1
        <4>4. QED
          BY <4>1, <4>2, <4>3 DEF CountOK
      <3>2. CASE p # o
        BY <1>5, <1>7, <2>1, <3>2
      <3>3. QED
        BY <3>1, <3>2
    <2>3. CountInv'
      BY <1>6, <2>1, <2>2 DEF CountInv
    <2>4. \A p \in OpIds : p # o => pool'[p] = pool[p]
      BY <1>5, <2>1
    <2>5. Busy' \subseteq Busy \cup {o} /\ Touched' \subseteq Touched \cup {o}
      BY <2>1, <2>4 DEF Busy, Touched
    <2>6. QED
      BY <1>4, <1>5, <2>1, <2>3, <2>4, <2>5
  <1>9. CASE n # 0
    <2>1. /\ pool' = pool /\ inflight_args' = [inflight_args EXCEPT ![o] = <<n>>]
          /\ dependencies' = [r \in ResultIds |->
                                dependencies[r] \o [i \in 1 .. Uses(args, r) |-> o]]
      BY <1>1, <1>9 DEF HandleNewOperation
    <2>2. PICK deps2 : deps2 = dependencies'
      OBVIOUS
    <2>3. \A p \in OpIds, r \in ResultIds :
              /\ p # o => /\ Count(deps2[r], p) = Count(dependencies[r], p)
                          /\ Has(deps2[r], p) <=> Has(dependencies[r], p)
              /\ ~Has(dependencies[r], o) => Count(deps2[r], o) = Uses(args, r)
      <3> SUFFICES ASSUME NEW p \in OpIds, NEW r \in ResultIds
                   PROVE  /\ p # o => /\ Count(deps2[r], p) = Count(dependencies[r], p)
                                      /\ Has(deps2[r], p) <=> Has(dependencies[r], p)
                          /\ ~Has(dependencies[r], o) => Count(deps2[r], o) = Uses(args, r)
        OBVIOUS
      <3>1. PICK k, s, u : k = Uses(args, r) /\ s = dependencies[r] /\ u = deps2[r]
        OBVIOUS
      <3>2. k \in Nat /\ s \in Seq(OpIds)
        BY <1>2, <1>5, <3>1, UsesPositive
      <3>3. u = s \o [i \in 1 .. k |-> o]
        BY <2>1, <2>2, <3>1
      <3>4. /\ p # o => /\ Count(u, p) = Count(s, p)
                        /\ Has(u, p) <=> Has(s, p)
            /\ ~Has(s, o) => Count(u, o) = k
        <4>1. /\ p # o => /\ Count(s \o [i \in 1 .. k |-> o], p) = Count(s, p)
                          /\ Has(s \o [i \in 1 .. k |-> o], p) <=> Has(s, p)
              /\ ~Has(s, o) => Count(s \o [i \in 1 .. k |-> o], o) = k
          BY <3>2, RegisterCount
        <4>2. QED
          BY <3>3, <4>1
      <3>5. QED
        BY <3>1, <3>4
    <2>4. ASSUME NEW p \in OpIds
          PROVE  CountOK(p, inflight_args'[p], pool[p], issued[p][1].args, deps2, ready_mask)
      <3>1. CASE p = o
        <4>1. inflight_args'[p] = <<n>> /\ <<n>> # <<>> /\ <<n>>[1] = n
          BY <1>5, <2>1, <3>1, OptionIntro
        <4>2. \A r \in ResultIds : Count(deps2[r], p) = Uses(args, r)
          BY <1>4, <2>3, <3>1
        <4>3. QED
          BY <1>1, <1>3, <1>4, <3>1, <4>1, <4>2, SpawnedFacts DEF CountOK
      <3>2. CASE p # o
        <4>1. inflight_args'[p] = inflight_args[p]
          BY <1>5, <2>1, <3>2
        <4>2. QED
          BY <1>7, <2>3, <3>2, <4>1 DEF CountOK
      <3>3. QED
        BY <3>1, <3>2
    <2>5. CountInv'
      BY <1>6, <2>1, <2>2, <2>4 DEF CountInv
    <2>6. \A p \in OpIds : p # o => inflight_args'[p] = inflight_args[p]
      BY <1>5, <2>1
    <2>7. Busy' \subseteq Busy \cup {o}
      BY <2>1, <2>6 DEF Busy
    <2>8. Touched' \subseteq Touched \cup {o}
      BY <2>1, <2>2, <2>3, <2>6 DEF Touched
    <2>9. QED
      BY <2>1, <2>5, <2>7, <2>8
  <1>10. QED
    BY <1>8, <1>9

\* handle_new_operation keeps the dispatch invariant.
LEMMA HandleNewOperationDispatch ==
    ASSUME TypeInv, DispatchInv, HandleNewOperation
    PROVE  DispatchInv' /\ SpawnsOnly
  <1>1. PICK m, ops, made, busy, touched :
            /\ m = Head(job_queue) /\ ops = Elems(OpIn[m]) /\ made = Made /\ busy = Busy
            /\ touched = Touched
    OBVIOUS
  <1>2. /\ batch = <<>> /\ ready_ids = <<>> /\ job_queue # <<>> /\ job_queue' = Tail(job_queue)
        /\ status = "running" /\ m.type = "Op" /\ UNCHANGED <<callVars, netVars>>
        /\ outbound' = outbound /\ status' = status /\ results' = results
        /\ ready_mask' = ready_mask /\ batch' = batch /\ ready_ids' = ready_ids
    BY <1>1 DEF HandleNewOperation, Pops
  <1>3. IdSeq(batch) = <<>>
    BY <1>2 DEF IdSeq
  <1>4. FlowInv(<<>>, <<>>, made, busy, touched) /\ Readies(<<>>) = Announced
    BY <1>1, <1>2, <1>3, MovesNow DEF DispatchInv
  <1>5. /\ m \in ExecutorMessage
        /\ FlowInv(SourceIn[m], ReadyIn[m], made, busy \cup ops, touched \cup ops)'
        /\ Readies(ReadyIn[m])' = Readies(<<>>)
        /\ \A o \in ops : o \in OpIds /\ o \notin touched /\ issued[o] # <<>>
        /\ m.type = "Op" => ops = {m.op}
    <2>1. FabricInv
      BY DEF TypeInv
    <2>2. job_queue # <<>> /\ job_queue' = Tail(job_queue) /\ UNCHANGED <<callVars, netVars>>
      BY <1>2
    <2>3. m = Head(job_queue) /\ ops = Elems(OpIn[m])
      BY <1>1
    <2>4. QED
      BY <1>4, <2>1, <2>2, <2>3, PopFlow
  <1>6. SourceIn[m] = <<>> /\ ReadyIn[m] = <<>>
    BY <1>2, <1>5, MessageKinds
  <1>7. FlowInv(<<>>, <<>>, made, busy \cup ops, touched \cup ops)' /\ Readies(<<>>)' = Readies(<<>>)
    <2>1. PICK cur, ready : cur = SourceIn[m] /\ ready = ReadyIn[m]
      OBVIOUS
    <2>2. FlowInv(cur, ready, made, busy \cup ops, touched \cup ops)' /\ Readies(ready)' = Readies(<<>>)
      BY <1>5, <2>1
    <2>3. cur = <<>> /\ ready = <<>>
      BY <1>6, <2>1
    <2>4. QED
      BY <2>2, <2>3
  <1>8. issued' = issued
    BY <1>2 DEF callVars
  <1>9. /\ CountInv' /\ Busy' \subseteq Busy \cup ops /\ Touched' \subseteq Touched \cup ops
        /\ \A p \in OpIds : pool'[p] = pool[p] \/ (pool[p] = <<>> /\ pool'[p] = Spawned)
    <2>1. PICK o : o = m.op
      OBVIOUS
    <2>2. ops = {o} /\ o = Head(job_queue).op
      BY <1>1, <1>2, <1>5, <2>1
    <2>3. o \in OpIds /\ o \notin Touched /\ issued[o] # <<>>
      BY <1>1, <1>5, <2>2
    <2>4. CountInv
      BY DEF DispatchInv
    <2>5. QED
      BY <1>8, <2>2, <2>3, <2>4, HandleNewOperationCount
  <1>10. Filled' = Filled
    BY <1>2 DEF Filled
  <1>11. Made' = Made
    <2>1. LeftIds(Spawned) = LeftIds(<<>>)
      BY SpawnedFacts DEF LeftIds, Elems, IdSeq
    <2>2. \A p \in OpIds : LeftIds(pool'[p]) = LeftIds(pool[p])
      BY <1>9, <2>1
    <2>3. QED
      BY <1>2, <1>10, <2>2 DEF Made
  <1>12. Moves' /\ Announced' = Announced
    <2>1. PICK cur, ready, busy1, touched1, busy2, touched2 :
              /\ cur = <<>> /\ ready = <<>> /\ busy1 = busy \cup ops /\ touched1 = touched \cup ops
              /\ busy2 = Busy' /\ touched2 = Touched'
      OBVIOUS
    <2>2. busy2 \subseteq busy1 /\ touched2 \subseteq touched1
      BY <1>1, <1>9, <2>1
    <2>3. FlowInv(cur, ready, made, busy1, touched1)' /\ Readies(ready)' = Readies(<<>>)
      BY <1>7, <2>1
    <2>4. FlowInv(cur, ready, made, busy2, touched2)'
      BY <2>2, <2>3, NarrowFlow
    <2>5. Moves' /\ Readies(ready)' = Announced'
      BY <1>1, <1>2, <1>3, <1>11, <2>1, <2>4, MovesThen
    <2>6. QED
      BY <1>4, <2>3, <2>5
  <1>13. OutputsInv'
    <2>1. OutputsInv /\ ready_mask' \cup Announced' \subseteq ready_mask \cup Announced
      BY <1>2, <1>12 DEF DispatchInv
    <2>2. QED
      BY <1>8, <1>9, <1>10, <2>1, DependentsOutputs
  <1>14. ReadyInv' /\ NoPanic'
    BY <1>2, <1>10, <1>12 DEF DispatchInv, ReadyInv, NoPanic
  <1>15. SpawnsOnly
    BY <1>9 DEF SpawnsOnly
  <1>16. QED
    BY <1>9, <1>12, <1>13, <1>14, <1>15 DEF DispatchInv

\* One more result in a sequence.
LEMMA IdSeqAppend ==
    ASSUME NEW rs \in Seq(Result), NEW res \in Result
    PROVE  Elems(IdSeq(Append(rs, res))) = Elems(IdSeq(rs)) \cup {res.id}
  <1>1. PICK q, n : q = Append(rs, res) /\ n = Len(rs)
    OBVIOUS
  <1>2. /\ n \in Nat /\ DOMAIN rs = 1 .. n /\ DOMAIN q = 1 .. n + 1 /\ q[n + 1] = res
        /\ \A k \in 1 .. n : q[k] = rs[k]
    BY <1>1
  <1>3. /\ DOMAIN IdSeq(rs) = 1 .. n /\ \A k \in 1 .. n : IdSeq(rs)[k] = rs[k].id
        /\ DOMAIN IdSeq(q) = 1 .. n + 1 /\ \A k \in 1 .. n + 1 : IdSeq(q)[k] = q[k].id
    BY <1>2 DEF IdSeq
  <1>4. ASSUME NEW x \in Elems(IdSeq(q)) PROVE x \in Elems(IdSeq(rs)) \cup {res.id}
    <2>1. PICK k \in 1 .. n + 1 : x = q[k].id
      BY <1>3 DEF Elems
    <2>2. CASE k = n + 1
      BY <1>2, <2>1, <2>2
    <2>3. CASE k # n + 1
      <3>1. k \in 1 .. n
        BY <1>2, <2>3
      <3>2. QED
        BY <1>2, <1>3, <2>1, <3>1 DEF Elems
    <2>4. QED
      BY <2>2, <2>3
  <1>5. ASSUME NEW x \in Elems(IdSeq(rs)) PROVE x \in Elems(IdSeq(q))
    <2>1. PICK k \in 1 .. n : x = rs[k].id
      BY <1>3 DEF Elems
    <2>2. k \in 1 .. n + 1 /\ IdSeq(q)[k] = x
      BY <1>2, <1>3, <2>1
    <2>3. QED
      BY <1>3, <2>2 DEF Elems
  <1>6. res.id \in Elems(IdSeq(q))
    BY <1>2, <1>3 DEF Elems
  <1>7. QED
    BY <1>1, <1>4, <1>5, <1>6

-----------------------------------------------------------------------------
(* The steps of the workers. *)

\* Two operations have no output in common, and what waits has no output made.
LEMMA OutsApart ==
    ASSUME Moves
    PROVE  /\ \A o, p \in OpIds : o # p => Out(o) \cap Out(p) = {}
           /\ \A o \in OpIds : o \in Busy => Out(o) \cap Made = {}
  <1>1. IdOK(Own, Known, Ids, Outs, Sources(IdSeq(batch)), Made, Calling \cup Queued \cup Busy)
    BY DEF Moves, FlowInv, OneOrigin
  <1>2. \A o \in OpIds : Outs[o] = Out(o)
    BY DEF Outs
  <1>3. \A o, p \in OpIds : o # p => Outs[o] \cap Outs[p] = {}
    BY <1>1 DEF IdOK
  <1>4. \A o \in OpIds : o \in Busy => Outs[o] \cap Made = {}
    BY <1>1 DEF IdOK
  <1>5. QED
    BY <1>2, <1>3, <1>4

\* Dropping the head of a sequence without repetitions.
LEMMA OnlyOnceTail ==
    ASSUME NEW S, NEW s \in Seq(S), s # <<>>, OnlyOnce(s)
    PROVE  /\ OnlyOnce(Tail(s)) /\ Head(s) \in Elems(s) /\ Head(s) \notin Elems(Tail(s))
           /\ Elems(Tail(s)) = Elems(s) \ {Head(s)}
  <1>1. PICK t, n : t = Tail(s) /\ n = Len(s)
    OBVIOUS
  <1>2. /\ n \in Nat \ {0} /\ DOMAIN s = 1 .. n /\ DOMAIN t = 1 .. n - 1 /\ Head(s) = s[1]
        /\ \A k \in 1 .. n - 1 : t[k] = s[k + 1]
    BY <1>1
  <1>3. \A k, l \in 1 .. n : s[k] = s[l] => k = l
    BY <1>2 DEF OnlyOnce
  <1>4. OnlyOnce(t)
    <2>1. ASSUME NEW k \in 1 .. n - 1, NEW l \in 1 .. n - 1, t[k] = t[l] PROVE k = l
      <3>1. k + 1 \in 1 .. n /\ l + 1 \in 1 .. n
        BY <1>2
      <3>2. k + 1 = l + 1
        BY <1>2, <1>3, <2>1, <3>1
      <3>3. QED
        BY <3>2
    <2>2. QED
      BY <1>2, <2>1 DEF OnlyOnce
  <1>5. Head(s) \in Elems(s)
    BY <1>2 DEF Elems
  <1>6. ASSUME NEW x \in Elems(t) PROVE x \in Elems(s) /\ x # Head(s)
    <2>1. PICK k \in 1 .. n - 1 : x = t[k]
      BY <1>2 DEF Elems
    <2>2. k + 1 \in 1 .. n /\ k + 1 # 1 /\ 1 \in 1 .. n /\ x = s[k + 1]
      BY <1>2, <2>1
    <2>3. QED
      BY <1>2, <1>3, <2>2 DEF Elems
  <1>7. ASSUME NEW x \in Elems(s), x # Head(s) PROVE x \in Elems(t)
    <2>1. PICK k \in 1 .. n : x = s[k]
      BY <1>2 DEF Elems
    <2>2. k - 1 \in 1 .. n - 1 /\ (k - 1) + 1 = k
      BY <1>2, <1>7, <2>1
    <2>3. t[k - 1] = x
      BY <1>2, <2>1, <2>2
    <2>4. QED
      BY <1>2, <2>2, <2>3 DEF Elems
  <1>8. QED
    BY <1>1, <1>4, <1>5, <1>6, <1>7

\* The ids of what a worker computes are the outputs of its operation.
LEMMA OutputIds ==
    ASSUME NEW o, issued[o] # <<>>, issued[o][1] \in Operation
    PROVE  /\ OnlyOnce(IdSeq(Outputs(o))) /\ Elems(IdSeq(Outputs(o))) = Out(o)
           /\ Outputs(o)[1].id \in Out(o)
  <1>1. PICK op : op = issued[o][1]
    OBVIOUS
  <1>2. PICK vals : vals = [k \in DOMAIN op.args |-> results[op.args[k]][1]]
    OBVIOUS
  <1>3. Outputs(o) = [j \in 1 .. op.output_arity |->
            [id |-> op.result_id + j - 1, val |-> Apply(op.result_id + j - 1, vals)]]
    BY <1>1, <1>2 DEF Outputs
  <1>4. PICK out : out = Outputs(o)
    OBVIOUS
  <1>5. DOMAIN out = 1 .. op.output_arity
    BY <1>3, <1>4
  <1>6. \A j \in 1 .. op.output_arity : out[j].id = op.result_id + j - 1
    BY <1>3, <1>4
  <1>7. IdSeq(out) = OutIds(op)
    BY <1>5, <1>6 DEF IdSeq, OutIds
  <1>8. Out(o) = ResultIdsOf(op)
    BY <1>1 DEF Out
  <1>9. OnlyOnce(OutIds(op)) /\ Elems(OutIds(op)) = ResultIdsOf(op)
    BY <1>1, OutIdsFacts
  <1>10. out[1].id \in ResultIdsOf(op)
    <2>1. /\ op.result_id \in Nat /\ op.output_arity \in Nat \ {0}
      BY <1>1, OperationFacts
    <2>2. out[1].id = op.result_id + 1 - 1
      BY <1>6, <2>1
    <2>3. QED
      BY <2>1, <2>2 DEF ResultIdsOf
  <1>11. QED
    BY <1>4, <1>7, <1>8, <1>9, <1>10

\* A task that waits for a thread, and one that does not.
LEMMA TaskStep ==
    ASSUME TypeInv, OutputsInv, NEW o \in OpIds, pool[o] # <<>>
    PROVE  pool[o] = Spawned <=> pool[o][1].step = "spawned"
  <1>1. PICK w : w = pool[o][1]
    OBVIOUS
  <1>2. pool[o] = <<w>> /\ w \in Worker
    BY <1>1, WorkerFacts
  <1>3. WorkerOK(w, Out(o), Filled, ready_mask \cup Announced)
    BY <1>1 DEF OutputsInv
  <1>4. ASSUME w.step = "spawned" PROVE <<w>> = Spawned
    <2>1. w.out = <<>>
      BY <1>3, <1>4 DEF WorkerOK
    <2>2. w \in [step : {"spawned", "running"}, out : Seq(Result)]
      BY <1>2 DEF Worker
    <2>3. w = [step |-> w.step, out |-> w.out]
      BY <2>2
    <2>4. QED
      BY <1>4, <2>1, <2>3 DEF Spawned
  <1>5. QED
    BY <1>1, <1>2, <1>4, SpawnedFacts

\* A worker's steps leave the counts alone: an operation in the pool is not buffered.
LEMMA WorkerCount ==
    ASSUME CountInv, NEW o \in OpIds, pool[o] # <<>>, \A p \in OpIds : p # o => pool'[p] = pool[p],
           pool'[o] # Spawned, issued' = issued, inflight_args' = inflight_args,
           dependencies' = dependencies, ready_mask' = ready_mask
    PROVE  CountInv'
  <1>1. ASSUME NEW p \in OpIds
        PROVE  CountOK(p, inflight_args[p], pool'[p], issued[p][1].args, dependencies, ready_mask)
    <2>1. CountOK(p, inflight_args[p], pool[p], issued[p][1].args, dependencies, ready_mask)
      BY DEF CountInv
    <2>2. CASE p = o
      BY <2>1, <2>2 DEF CountOK
    <2>3. CASE p # o
      BY <2>1, <2>3
    <2>4. QED
      BY <2>2, <2>3
  <1>2. QED
    BY <1>1 DEF CountInv

\* compute_result: the arguments are marked, hence written.
LEMMA ComputeDispatch ==
    ASSUME TypeInv, DispatchInv, NEW o \in OpIds, ComputeResult(o)
    PROVE  DispatchInv'
  <1>1. /\ pool[o] # <<>> /\ pool[o][1].step = "spawned"
        /\ UNCHANGED <<callVars, netVars, job_queue>>
        /\ results' = results /\ ready_mask' = ready_mask /\ inflight_args' = inflight_args
        /\ dependencies' = dependencies /\ batch' = batch /\ ready_ids' = ready_ids
    BY DEF ComputeResult
  <1>2. PICK op, d : op = issued[o][1] /\ d = [step |-> "running", out |-> Outputs(o)]
    OBVIOUS
  <1>3. pool[o] = Spawned
    BY <1>1, TaskStep DEF DispatchInv
  <1>4. issued[o] # <<>> /\ op \in Operation
    BY <1>1, <1>2, WorkerFacts
  <1>5. \A k \in DOMAIN op.args : results[op.args[k]] # <<>>
    <2>1. \A k \in DOMAIN op.args : op.args[k] \in ready_mask
      BY <1>2, <1>3 DEF DispatchInv, CountInv, CountOK
    <2>2. QED
      BY <2>1 DEF DispatchInv, ReadyInv, Filled
  <1>6. /\ status' = status /\ pool' = [pool EXCEPT ![o] = <<d>>]
        /\ outbound' = IF op.op_type = "Network" THEN Append(outbound, Outputs(o)[1]) ELSE outbound
    BY <1>2, <1>5, ComputeEffect
  <1>7. /\ OnlyOnce(IdSeq(d.out)) /\ Elems(IdSeq(d.out)) = Out(o) /\ Outputs(o)[1].id \in Out(o)
        /\ d.step = "running"
    BY <1>2, <1>4, OutputIds
  <1>8. /\ pool'[o] = <<d>> /\ <<d>> # Spawned /\ <<d>> # <<>> /\ <<d>>[1] = d
        /\ \A p \in OpIds : p # o => pool'[p] = pool[p]
    BY <1>6, <1>7, SpawnedFacts DEF TypeInv, TypeOK
  <1>9. issued' = issued /\ Filled' = Filled
    BY <1>1 DEF callVars, Filled
  <1>10. o \in Busy /\ o \in Touched /\ Out(o) \cap Made = {}
    <2>1. o \in Busy /\ o \in Touched
      BY <1>1, <1>3 DEF Busy, Touched
    <2>2. QED
      BY <2>1, OutsApart DEF DispatchInv
  <1>11. Busy' = Busy \ {o} /\ Touched' = Touched
    <2>1. inflight_args[o] = <<>>
      BY <1>1 DEF DispatchInv, CountInv, CountOK
    <2>2. QED
      BY <1>1, <1>8, <2>1 DEF Busy, Touched
  <1>12. Made' = Made \cup Out(o)
    <2>1. Elems(IdSeq(outbound')) \subseteq Elems(IdSeq(outbound)) \cup Out(o)
          /\ Elems(IdSeq(outbound)) \subseteq Elems(IdSeq(outbound'))
      <3>1. CASE outbound' = outbound
        BY <3>1
      <3>2. CASE outbound' = Append(outbound, Outputs(o)[1])
        <4>1. outbound \in Seq(Result) /\ Outputs(o)[1] \in Result
          BY <1>2, <1>4, <1>5, OutputsAreResults DEF TypeInv, TypeOK, FabricTypeOK
        <4>2. Elems(IdSeq(outbound')) = Elems(IdSeq(outbound)) \cup {Outputs(o)[1].id}
          BY <3>2, <4>1, IdSeqAppend
        <4>3. QED
          BY <1>7, <4>2
      <3>3. QED
        BY <1>6, <3>1, <3>2
    <2>2. LeftIds(pool[o]) = {}
      BY <1>3, SpawnedFacts DEF LeftIds, Elems, IdSeq
    <2>3. LeftIds(pool'[o]) = Out(o)
      BY <1>7, <1>8 DEF LeftIds
    <2>4. \A p \in OpIds : p # o => LeftIds(pool'[p]) = LeftIds(pool[p])
      BY <1>8
    <2>5. ASSUME NEW x
          PROVE  (\E p \in OpIds : x \in LeftIds(pool'[p]))
                    <=> (\E p \in OpIds : x \in LeftIds(pool[p])) \/ x \in Out(o)
      BY <2>2, <2>3, <2>4
    <2>6. PICK U, U2 : /\ U = UNION {LeftIds(pool[p]) : p \in OpIds}
                       /\ U2 = UNION {LeftIds(pool'[p]) : p \in OpIds}
      OBVIOUS
    <2>7. U2 = U \cup Out(o)
      BY <2>5, <2>6
    <2>8. Made = Filled \cup U \cup Elems(IdSeq(outbound))
      BY <2>6 DEF Made
    <2>9. Made' = Filled' \cup U2 \cup Elems(IdSeq(outbound'))
      BY <2>6 DEF Made
    <2>10. QED
      BY <1>9, <2>1, <2>7, <2>8, <2>9
  <1>13. PICK cur, ready, made, busy, touched, made2, busy2 :
            /\ cur = IdSeq(batch) /\ ready = ready_ids /\ made = Made /\ busy = Busy
            /\ touched = Touched /\ made2 = Made' /\ busy2 = Busy'
    OBVIOUS
  <1>14. Moves' /\ Announced' = Announced
    <2>1. FlowInv(cur, ready, made, busy, touched)
      BY <1>13, MovesNow DEF DispatchInv
    <2>2. FlowInv(cur, ready, made \cup Out(o), busy \ {o}, touched)'
      BY <1>1, <1>10, <1>13, <2>1, ComputeFlow
    <2>3. PICK out : out = Out(o)
      OBVIOUS
    <2>4. out = Out(o)' /\ made2 = made \cup out /\ busy2 = busy \ {o}
      BY <1>9, <1>11, <1>12, <1>13, <2>3 DEF Out
    <2>5. FlowInv(cur, ready, made2, busy2, touched)'
      BY <2>2, <2>4
    <2>6. Moves'
      BY <1>1, <1>11, <1>13, <2>5, MovesThen
    <2>7. QED
      BY <1>1, <2>6 DEF Announced
  <1>15. CountInv'
    BY <1>1, <1>8, <1>9, WorkerCount DEF DispatchInv
  <1>16. OutputsInv'
    <2>1. ASSUME NEW p \in OpIds, pool'[p] # <<>>
          PROVE  WorkerOK(pool'[p][1], Out(p), Filled, ready_mask \cup Announced)
      <3>1. CASE p = o
        <4>1. Out(o) \cap Filled = {} /\ Out(o) \cap (ready_mask \cup Announced) = {}
          BY <1>10 DEF Made, DispatchInv, ReadyInv
        <4>2. WorkerOK(d, Out(o), Filled, ready_mask \cup Announced)
          BY <1>7, <4>1 DEF WorkerOK
        <4>3. QED
          BY <1>8, <3>1, <4>2
      <3>2. CASE p # o
        BY <1>8, <2>1, <3>2 DEF DispatchInv, OutputsInv
      <3>3. QED
        BY <3>1, <3>2
    <2>2. QED
      BY <1>1, <1>9, <1>14, <2>1 DEF OutputsInv, Out
  <1>17. ReadyInv' /\ NoPanic'
    BY <1>1, <1>6, <1>9, <1>14 DEF DispatchInv, ReadyInv, NoPanic
  <1>18. QED
    BY <1>14, <1>15, <1>16, <1>17 DEF DispatchInv

\* The write of an output: its cell is empty, because a worker writes each of its outputs
\* once and no other worker has it.
LEMMA WriteDispatch ==
    ASSUME TypeInv, DispatchInv, NEW o \in OpIds, WriteResult(o)
    PROVE  DispatchInv'
  <1>1. PICK res, w, d : /\ res = Head(pool[o][1].out) /\ w = pool[o][1]
                         /\ d = [step |-> pool[o][1].step, out |-> Tail(pool[o][1].out)]
    OBVIOUS
  <1>2. /\ pool[o] # <<>> /\ w.out # <<>> /\ res.id \in ResultIds
        /\ results' = [results EXCEPT ![res.id] = <<res.val>>]
        /\ status' = IF results[res.id] = <<>> THEN status ELSE "panicked"
        /\ pool' = [pool EXCEPT ![o] = <<d>>]
    BY <1>1, WriteEffect
  <1>3. w.out \in Seq(Result) /\ pool[o] = <<w>>
    BY <1>1, <1>2, WorkerFacts
  <1>4. /\ UNCHANGED <<callVars, netVars, job_queue>> /\ outbound' = outbound /\ issued' = issued
        /\ ready_mask' = ready_mask /\ inflight_args' = inflight_args
        /\ dependencies' = dependencies /\ batch' = batch /\ ready_ids' = ready_ids
    BY DEF WriteResult, fabricVars, callVars
  <1>5. WorkerOK(w, Out(o), Filled, ready_mask \cup Announced) /\ w.step # "spawned"
    BY <1>1, <1>2 DEF DispatchInv, OutputsInv, WorkerOK
  <1>6. PICK s, t, e : s = IdSeq(w.out) /\ t = IdSeq(Tail(w.out)) /\ e = Elems(s)
    OBVIOUS
  <1>7. /\ s \in Seq(ResultIds) /\ s # <<>> /\ Head(s) = res.id /\ t = Tail(s)
    BY <1>1, <1>2, <1>3, <1>6, IdSeqFacts
  <1>8. /\ OnlyOnce(s) /\ e \subseteq Out(o) /\ e \cap Filled = {}
        /\ Out(o) \subseteq Filled \cup e /\ Out(o) \cap (ready_mask \cup Announced) = {}
    BY <1>5, <1>6 DEF WorkerOK
  <1>9. OnlyOnce(t) /\ res.id \in e /\ Elems(t) = e \ {res.id}
    <2>1. s \in Seq(ResultIds) /\ s # <<>> /\ OnlyOnce(s)
      BY <1>7, <1>8
    <2>2. OnlyOnce(Tail(s)) /\ Head(s) \in Elems(s) /\ Elems(Tail(s)) = Elems(s) \ {Head(s)}
      BY <2>1, OnlyOnceTail
    <2>3. QED
      BY <1>6, <1>7, <2>2
  <1>10. res.id \notin Filled /\ status' = status /\ Filled' = Filled \cup {res.id}
    <2>1. res.id \notin Filled
      BY <1>8, <1>9
    <2>2. results[res.id] = <<>>
      BY <1>2, <2>1 DEF Filled
    <2>3. results \in [ResultIds -> Option(Val)]
      BY DEF TypeInv, TypeOK
    <2>4. Filled' = Filled \cup {res.id}
      BY <1>2, <2>3, OptionIntro DEF Filled
    <2>5. QED
      BY <1>2, <2>1, <2>2, <2>4
  <1>11. d.step = w.step /\ d.out = Tail(w.out)
    BY <1>1
  <1>12. /\ pool'[o] = <<d>> /\ <<d>> # Spawned /\ <<d>> # <<>> /\ <<d>>[1] = d
         /\ \A p \in OpIds : p # o => pool'[p] = pool[p]
    BY <1>2, <1>5, <1>11, SpawnedFacts DEF TypeInv, TypeOK
  <1>13. LeftIds(pool[o]) = e /\ LeftIds(pool'[o]) = e \ {res.id}
    BY <1>2, <1>1, <1>6, <1>9, <1>11, <1>12 DEF LeftIds
  <1>14. Busy' = Busy /\ Touched' = Touched
    <2>1. pool[o] # Spawned
      BY <1>1, <1>5, SpawnedFacts
    <2>2. QED
      BY <1>2, <1>4, <1>12, <2>1 DEF Busy, Touched
  <1>15. Made' \subseteq Made
    <2>1. PICK U, U2 : /\ U = UNION {LeftIds(pool[p]) : p \in OpIds}
                       /\ U2 = UNION {LeftIds(pool'[p]) : p \in OpIds}
      OBVIOUS
    <2>2. \A p \in OpIds : LeftIds(pool'[p]) \subseteq LeftIds(pool[p])
      BY <1>12, <1>13
    <2>3. U2 \subseteq U /\ res.id \in U
      <3>1. U2 \subseteq U
        BY <2>1, <2>2
      <3>2. LeftIds(pool[o]) \in {LeftIds(pool[p]) : p \in OpIds}
        OBVIOUS
      <3>3. QED
        BY <1>9, <1>13, <2>1, <3>1, <3>2
    <2>4. Made = Filled \cup U \cup Elems(IdSeq(outbound))
      BY <2>1 DEF Made
    <2>5. Made' = Filled' \cup U2 \cup Elems(IdSeq(outbound'))
      BY <2>1 DEF Made
    <2>6. QED
      BY <1>4, <1>10, <2>3, <2>4, <2>5
  <1>16. Moves' /\ Announced' = Announced
    <2>1. PICK cur, ready, made, busy, touched, made2 :
              /\ cur = IdSeq(batch) /\ ready = ready_ids /\ made = Made /\ busy = Busy
              /\ touched = Touched /\ made2 = Made'
      OBVIOUS
    <2>2. FlowInv(cur, ready, made, busy, touched) /\ made2 \subseteq made
      BY <1>15, <2>1, MovesNow DEF DispatchInv
    <2>3. FlowInv(cur, ready, made2, busy, touched)'
      BY <1>4, <2>2, ShrinkFlow
    <2>4. Moves'
      BY <1>4, <1>14, <2>1, <2>3, MovesThen
    <2>5. QED
      BY <1>4, <2>4 DEF Announced
  <1>17. CountInv'
    BY <1>2, <1>4, <1>12, WorkerCount DEF DispatchInv
  <1>18. OutputsInv'
    <2>1. ASSUME NEW p \in OpIds, pool'[p] # <<>>
          PROVE  WorkerOK(pool'[p][1], Out(p), Filled', ready_mask \cup Announced)
      <3>1. CASE p = o
        <4>1. Elems(t) \cap Filled' = {} /\ Out(o) \subseteq Filled' \cup Elems(t)
              /\ Elems(t) \subseteq Out(o)
          BY <1>8, <1>9, <1>10
        <4>2. WorkerOK(d, Out(o), Filled', ready_mask \cup Announced)
          BY <1>5, <1>6, <1>8, <1>9, <1>11, <4>1 DEF WorkerOK
        <4>3. QED
          BY <1>12, <3>1, <4>2
      <3>2. CASE p # o
        <4>1. pool'[p] = pool[p] /\ WorkerOK(pool[p][1], Out(p), Filled, ready_mask \cup Announced)
          BY <1>12, <2>1, <3>2 DEF DispatchInv, OutputsInv
        <4>2. Out(o) \cap Out(p) = {}
          BY <3>2, OutsApart DEF DispatchInv
        <4>3. res.id \notin Out(p)
          BY <1>8, <1>9, <4>2
        <4>4. PICK v, out, f, f2, told :
                  /\ v = pool[p][1] /\ out = Out(p) /\ f = Filled /\ f2 = Filled'
                  /\ told = ready_mask \cup Announced
          OBVIOUS
        <4>5. WorkerOK(v, out, f, told) /\ f \subseteq f2 /\ out \cap f2 \subseteq f
          BY <1>10, <4>1, <4>3, <4>4
        <4>6. WorkerOK(v, out, f2, told)
          BY <4>5, WorkerStable
        <4>7. QED
          BY <4>1, <4>4, <4>6
      <3>3. QED
        BY <3>1, <3>2
    <2>2. QED
      BY <1>4, <1>16, <2>1 DEF OutputsInv, Out
  <1>19. ReadyInv' /\ NoPanic'
    BY <1>4, <1>10, <1>16 DEF DispatchInv, ReadyInv, NoPanic
  <1>20. QED
    BY <1>16, <1>17, <1>18, <1>19 DEF DispatchInv

\* The announcement: the outputs are written, and were not announced before.
LEMMA NotifyDispatch ==
    ASSUME TypeInv, DispatchInv, NEW o \in OpIds, NotifyReady(o)
    PROVE  DispatchInv'
  <1>1. PICK ids, w : ids = OutIds(issued[o][1]) /\ w = pool[o][1]
    OBVIOUS
  <1>2. /\ pool[o] # <<>> /\ w.step = "running" /\ w.out = <<>>
        /\ job_queue' = Append(job_queue, ReadyMsg(ids)) /\ pool' = [pool EXCEPT ![o] = <<>>]
        /\ UNCHANGED <<callVars, netVars>> /\ outbound' = outbound /\ issued' = issued
        /\ status' = status /\ results' = results
        /\ ready_mask' = ready_mask /\ inflight_args' = inflight_args
        /\ dependencies' = dependencies /\ batch' = batch /\ ready_ids' = ready_ids
    BY <1>1 DEF NotifyReady, Push, OutIds, callVars
  <1>3. issued[o] # <<>> /\ issued[o][1] \in Operation
    BY <1>2, WorkerFacts
  <1>4. ids \in Seq(ResultIds) /\ OnlyOnce(ids) /\ Elems(ids) = Out(o)
    BY <1>1, <1>3, OutIdsFacts DEF Out
  <1>5. Elems(IdSeq(w.out)) = {}
    BY <1>2 DEF IdSeq, Elems
  <1>6. Out(o) \subseteq Filled /\ Out(o) \cap (ready_mask \cup Announced) = {}
    <2>1. WorkerOK(w, Out(o), Filled, ready_mask \cup Announced)
      BY <1>1, <1>2 DEF DispatchInv, OutputsInv
    <2>2. QED
      BY <1>2, <1>5, <2>1 DEF WorkerOK
  <1>7. pool'[o] = <<>> /\ \A p \in OpIds : p # o => pool'[p] = pool[p]
    BY <1>2 DEF TypeInv, TypeOK
  <1>8. LeftIds(pool[o]) = {} /\ LeftIds(pool'[o]) = {}
    BY <1>1, <1>2, <1>5, <1>7 DEF LeftIds
  <1>9. Filled' = Filled
    BY <1>2 DEF Filled
  <1>10. Made' = Made
    <2>1. \A p \in OpIds : LeftIds(pool'[p]) = LeftIds(pool[p])
      BY <1>7, <1>8
    <2>2. QED
      BY <1>2, <1>9, <2>1 DEF Made
  <1>11. Busy' \subseteq Busy /\ Touched' \subseteq Touched
    BY <1>2, <1>7, SpawnedFacts DEF Busy, Touched
  <1>12. Moves' /\ Announced' = Announced \cup Out(o)
    <2>1. PICK cur, ready, made, busy, touched, busy2, touched2 :
              /\ cur = IdSeq(batch) /\ ready = ready_ids /\ made = Made /\ busy = Busy
              /\ touched = Touched /\ busy2 = Busy' /\ touched2 = Touched'
      OBVIOUS
    <2>2. FlowInv(cur, ready, made, busy, touched) /\ Readies(ready) = Announced
      BY <2>1, MovesNow DEF DispatchInv
    <2>3. Elems(ids) \cap Readies(ready) = {}
      BY <1>4, <1>6, <2>2
    <2>4. /\ FlowInv(cur, ready, made, busy, touched)'
          /\ Readies(ready)' = Readies(ready) \cup Elems(ids)
      BY <1>2, <1>4, <2>2, <2>3, AnnounceFlow DEF TypeInv
    <2>5. busy2 \subseteq busy /\ touched2 \subseteq touched
      BY <1>11, <2>1
    <2>6. FlowInv(cur, ready, made, busy2, touched2)'
      BY <2>4, <2>5, NarrowFlow
    <2>7. Moves' /\ Readies(ready)' = Announced'
      BY <1>2, <1>10, <2>1, <2>6, MovesThen
    <2>8. QED
      BY <1>4, <2>2, <2>4, <2>7
  <1>13. CountInv'
    BY <1>2, <1>7, SpawnedFacts, WorkerCount DEF DispatchInv
  <1>14. OutputsInv'
    <2>1. ASSUME NEW p \in OpIds, pool'[p] # <<>>
          PROVE  WorkerOK(pool'[p][1], Out(p), Filled, ready_mask \cup Announced')
      <3>1. p # o /\ pool'[p] = pool[p]
        BY <1>7, <2>1
      <3>2. WorkerOK(pool[p][1], Out(p), Filled, ready_mask \cup Announced)
        BY <2>1, <3>1 DEF DispatchInv, OutputsInv
      <3>3. Out(o) \cap Out(p) = {}
        BY <3>1, OutsApart DEF DispatchInv
      <3>4. PICK v, out, f, told, told2 :
                /\ v = pool[p][1] /\ out = Out(p) /\ f = Filled
                /\ told = ready_mask \cup Announced /\ told2 = ready_mask \cup Announced'
        OBVIOUS
      <3>5. WorkerOK(v, out, f, told) /\ out \cap told2 \subseteq told
        BY <1>12, <3>2, <3>3, <3>4
      <3>6. WorkerOK(v, out, f, told2)
        BY <3>5, WorkerStable
      <3>7. QED
        BY <3>1, <3>4, <3>6
    <2>2. QED
      BY <1>2, <1>9, <2>1 DEF OutputsInv, Out
  <1>15. ReadyInv' /\ NoPanic'
    BY <1>2, <1>6, <1>9, <1>12 DEF DispatchInv, ReadyInv, NoPanic
  <1>16. QED
    BY <1>12, <1>13, <1>14, <1>15 DEF DispatchInv

-----------------------------------------------------------------------------
(* The theorems. *)

\* Nothing changes: the dispatch invariant stays.
LEMMA StutterDispatch == ASSUME DispatchInv, UNCHANGED vars PROVE DispatchInv'
  <1>1. /\ UNCHANGED <<callVars, netVars, job_queue>> /\ outbound' = outbound /\ issued' = issued
        /\ status' = status /\ results' = results /\ pool' = pool
        /\ ready_mask' = ready_mask /\ inflight_args' = inflight_args
        /\ dependencies' = dependencies /\ batch' = batch /\ ready_ids' = ready_ids
    BY DEF vars, fabricVars, callVars, executorVars
  <1>2. /\ Filled' = Filled /\ Made' = Made /\ Busy' = Busy /\ Touched' = Touched
        /\ Announced' = Announced
    BY <1>1 DEF Filled, Made, Busy, Touched, Announced
  <1>3. Moves'
    <2>1. PICK cur, ready, made, busy, touched :
              /\ cur = IdSeq(batch) /\ ready = ready_ids /\ made = Made /\ busy = Busy
              /\ touched = Touched
      OBVIOUS
    <2>2. FlowInv(cur, ready, made, busy, touched)
      BY <2>1, MovesNow DEF DispatchInv
    <2>3. FlowInv(cur, ready, made, busy, touched)'
      BY <1>1, <2>2, ShrinkFlow
    <2>4. QED
      BY <1>1, <1>2, <2>1, <2>3, MovesThen
  <1>4. OutputsInv' /\ ReadyInv' /\ CountInv' /\ NoPanic'
    BY <1>1, <1>2 DEF DispatchInv, OutputsInv, ReadyInv, CountInv, NoPanic, Out
  <1>5. QED
    BY <1>3, <1>4 DEF DispatchInv

\* Every step keeps the dispatch invariant.
LEMMA NextDispatch == TypeInv /\ DispatchInv /\ [Next]_vars => DispatchInv'
  <1> SUFFICES ASSUME TypeInv, DispatchInv, [Next]_vars PROVE DispatchInv'
    OBVIOUS
  <1>1. CASE CoordinatorNext
    BY <1>1, PopDispatch, HandleNewResultDispatch, HandleNewResultByIdDispatch,
       HandleNewOperationDispatch DEF CoordinatorNext
  <1>2. CASE \E o \in OpIds : WorkerNext(o)
    BY <1>2, ComputeDispatch, WriteDispatch, NotifyDispatch DEF WorkerNext
  <1>3. CASE FabricNext /\ UNCHANGED executorVars
    BY <1>3, FabricDispatch
  <1>4. CASE UNCHANGED vars
    BY <1>4, StutterDispatch
  <1>5. QED
    BY <1>1, <1>2, <1>3, <1>4 DEF Next

\* Every result id has one origin and every output is at one point of its way: computed,
\* written, announced, marked; the registrations are the missing arguments.
THEOREM ParallelDispatchInvariant == Spec => []DispatchInv
  BY InitDispatch, NextDispatch, ParallelTypeInvariant, PTL DEF Spec

\* No unwrap, debug assertion or usize subtraction of the coordinator or of a worker
\* fails, whatever the circuit and however many workers race.
THEOREM ParallelNeverPanics == Spec => []NoPanic
  <1>1. DispatchInv => NoPanic
    BY DEF DispatchInv
  <1>2. QED
    BY <1>1, ParallelDispatchInvariant, PTL

\* The ready mask accounts values as written: the cell of a marked result is filled, and
\* no worker is writing it.
THEOREM MarksAreWritten == Spec => []MarkedIsWritten
  <1>1. TypeInv /\ DispatchInv => MarkedIsWritten
    <2> SUFFICES ASSUME TypeInv, DispatchInv, NEW r \in ready_mask
                 PROVE  results[r] # <<>> /\ BeingWritten(r) = {}
      BY DEF MarkedIsWritten
    <2>1. r \in Filled /\ results[r] # <<>>
      BY DEF DispatchInv, ReadyInv, Filled
    <2>2. ASSUME NEW o \in OpIds, pool[o] # <<>>, pool[o][1].out # <<>> PROVE pool[o][1].out[1].id # r
      <3>1. PICK w : w = pool[o][1]
        OBVIOUS
      <3>2. w.out \in Seq(Result) /\ w.out # <<>>
        BY <2>2, <3>1, WorkerFacts
      <3>3. WorkerOK(w, Out(o), Filled, ready_mask \cup Announced)
        BY <2>2, <3>1 DEF DispatchInv, OutputsInv
      <3>4. Elems(IdSeq(w.out)) \cap Filled = {}
        BY <3>2, <3>3 DEF WorkerOK
      <3>5. 1 \in DOMAIN w.out
        BY <3>2, TailFacts
      <3>6. w.out[1].id \in Elems(IdSeq(w.out))
        BY <3>5 DEF IdSeq, Elems
      <3>7. QED
        BY <2>1, <3>1, <3>4, <3>6
    <2>3. QED
      BY <2>1, <2>2 DEF BeingWritten
  <1>2. QED
    BY <1>1, ParallelTypeInvariant, ParallelDispatchInvariant, PTL

\* The count of a buffered operation is the number of its arguments that are not marked,
\* although workers finish in any order and their announcements wait in the queue.
THEOREM ParallelInflightIsExact == Spec => []InflightExact
  <1>1. DispatchInv => InflightExact
    BY DEF DispatchInv, CountInv, CountOK, InflightExact
  <1>2. QED
    BY <1>1, ParallelDispatchInvariant, PTL

\* No operation is run twice, nor buffered while it runs, nor sent before it runs.
THEOREM OperationsRunOnce == Spec => []RunsOnce
  <1>1. TypeInv /\ DispatchInv => RunsOnce
    <2> SUFFICES ASSUME TypeInv, DispatchInv, NEW o \in OpIds
                 PROVE  /\ inflight_args[o] # <<>> => pool[o] = <<>>
                        /\ (inflight_args[o] # <<>> \/ pool[o] = Spawned)
                             => \A r \in ResultIdsOf(issued[o][1]) :
                                  results[r] = <<>> /\ \A i \in DOMAIN outbound : outbound[i].id # r
      BY DEF RunsOnce
    <2>1. inflight_args[o] # <<>> => pool[o] = <<>>
      BY DEF DispatchInv, CountInv, CountOK
    <2>2. ASSUME inflight_args[o] # <<>> \/ pool[o] = Spawned, NEW r \in ResultIdsOf(issued[o][1])
          PROVE  results[r] = <<>> /\ \A i \in DOMAIN outbound : outbound[i].id # r
      <3>1. issued[o] # <<>>
        BY <2>2, SpawnedFacts DEF TypeInv, OpsHeld
      <3>2. issued[o][1] \in Operation
        BY <3>1, OptionElim DEF TypeInv, TypeOK, FabricTypeOK
      <3>3. r \in ResultIds /\ r \in Out(o)
        BY <3>1, <3>2, OperationFacts DEF Out
      <3>4. o \in Busy
        BY <2>2 DEF Busy
      <3>5. r \notin Made
        BY <3>3, <3>4, OutsApart DEF DispatchInv
      <3>6. r \notin Filled /\ r \notin Elems(IdSeq(outbound))
        BY <3>5 DEF Made
      <3>7. results[r] = <<>>
        BY <3>3, <3>6 DEF Filled
      <3>8. \A i \in DOMAIN outbound : outbound[i].id # r
        BY <3>6 DEF IdSeq, Elems
      <3>9. QED
        BY <3>7, <3>8
    <2>3. QED
      BY <2>1, <2>2
  <1>2. QED
    BY <1>1, ParallelTypeInvariant, ParallelDispatchInvariant, PTL

-----------------------------------------------------------------------------
(* Refinement.  A result is visible from the moment in which a worker begins *)
(* to write it: res are the cells, show is per operation the result that its *)
(* worker is writing.                                                       *)

ShowOf(p) == IF p = <<>> THEN <<>> ELSE IF p[1].out = <<>> THEN <<>> ELSE <<p[1].out[1]>>
Show == [o \in OpIds |-> ShowOf(pool[o])]

ShownAs(show, r) == {o \in OpIds : show[o] # <<>> /\ show[o][1].id = r}

VisibleIn(res, show) == [r \in ResultIds |->
    IF ShownAs(show, r) = {} THEN res[r]
    ELSE <<CHOOSE v \in {show[o][1].val : o \in ShownAs(show, r)} : TRUE>>]

\* A cell that is being written is empty, and written by one worker.
ShowOK(res, show) == \A o \in OpIds : show[o] # <<>> =>
    /\ show[o][1].id \in ResultIds /\ res[show[o][1].id] = <<>>
    /\ \A p \in OpIds : show[p] # <<>> /\ show[p][1].id = show[o][1].id => p = o

\* What a reader can see of each result.
Sees(vis, res, show) ==
    /\ vis = [r \in ResultIds |-> vis[r]]
    /\ \A o \in OpIds : show[o] # <<>> => vis[show[o][1].id] = <<show[o][1].val>>
    /\ \A r \in ResultIds : (\A o \in OpIds : show[o] # <<>> => show[o][1].id # r) => vis[r] = res[r]

LEMMA VisibleAt ==
    ASSUME NEW res, NEW show, ShowOK(res, show)
    PROVE  /\ Sees(VisibleIn(res, show), res, show)
           /\ \A r \in ResultIds : res[r] # <<>> => VisibleIn(res, show)[r] = res[r]
  <1>1. ASSUME NEW o \in OpIds, show[o] # <<>>
        PROVE  VisibleIn(res, show)[show[o][1].id] = <<show[o][1].val>>
    <2>1. PICK r, v : r = show[o][1].id /\ v = show[o][1].val
      OBVIOUS
    <2>2. r \in ResultIds /\ ShownAs(show, r) = {o}
      BY <1>1, <2>1 DEF ShowOK, ShownAs
    <2>3. {show[p][1].val : p \in ShownAs(show, r)} = {v}
      BY <2>1, <2>2
    <2>4. (CHOOSE x \in {v} : TRUE) = v
      OBVIOUS
    <2>5. ShownAs(show, r) # {}
      BY <2>2
    <2>6. VisibleIn(res, show)[r] = <<CHOOSE x \in {show[p][1].val : p \in ShownAs(show, r)} : TRUE>>
      BY <2>2, <2>5 DEF VisibleIn
    <2>7. QED
      BY <2>1, <2>3, <2>4, <2>6
  <1>2. ASSUME NEW r \in ResultIds, \A o \in OpIds : show[o] # <<>> => show[o][1].id # r
        PROVE  VisibleIn(res, show)[r] = res[r]
    <2>1. ShownAs(show, r) = {}
      BY <1>2 DEF ShownAs
    <2>2. QED
      BY <2>1 DEF VisibleIn
  <1>3. ASSUME NEW r \in ResultIds, res[r] # <<>> PROVE VisibleIn(res, show)[r] = res[r]
    <2>1. \A o \in OpIds : show[o] # <<>> => show[o][1].id # r
      BY <1>3 DEF ShowOK
    <2>2. QED
      BY <1>2, <2>1
  <1>4. PICK vis : vis = VisibleIn(res, show)
    OBVIOUS
  <1>5. vis = [r \in ResultIds |-> vis[r]]
    BY <1>4 DEF VisibleIn
  <1>6. Sees(vis, res, show)
    BY <1>1, <1>2, <1>4, <1>5 DEF Sees
  <1>7. QED
    BY <1>3, <1>4, <1>6

\* A result that comes from outside becomes visible.
LEMMA ProvideVisible ==
    ASSUME NEW res, NEW show, ShowOK(res, show), NEW r \in ResultIds, NEW v, NEW res2,
           ShowOK(res2, show), res[r] = <<>>, res2[r] = <<v>>,
           \A p \in ResultIds : p # r => res2[p] = res[p]
    PROVE  /\ VisibleIn(res, show)[r] = <<>>
           /\ VisibleIn(res2, show) = [VisibleIn(res, show) EXCEPT ![r] = <<v>>]
  <1>1. PICK vis, vis2 : vis = VisibleIn(res, show) /\ vis2 = VisibleIn(res2, show)
    OBVIOUS
  <1>2. /\ \A o \in OpIds : show[o] # <<>> => vis[show[o][1].id] = <<show[o][1].val>>
        /\ \A p \in ResultIds : (\A o \in OpIds : show[o] # <<>> => show[o][1].id # p) => vis[p] = res[p]
        /\ vis = [p \in ResultIds |-> vis[p]]
    <2>1. Sees(vis, res, show)
      BY <1>1, VisibleAt
    <2>2. QED
      BY <2>1 DEF Sees
  <1>3. /\ \A o \in OpIds : show[o] # <<>> => vis2[show[o][1].id] = <<show[o][1].val>>
        /\ \A p \in ResultIds : (\A o \in OpIds : show[o] # <<>> => show[o][1].id # p) => vis2[p] = res2[p]
        /\ vis2 = [p \in ResultIds |-> vis2[p]]
    <2>1. Sees(vis2, res2, show)
      BY <1>1, VisibleAt
    <2>2. QED
      BY <2>1 DEF Sees
  <1>4. res2[r] = <<v>> /\ <<v>> # <<>> /\ \A p \in ResultIds : p # r => res2[p] = res[p]
    BY OptionIntro
  <1>5. \A o \in OpIds : show[o] # <<>> => show[o][1].id # r
    BY <1>4 DEF ShowOK
  <1>6. vis[r] = <<>> /\ vis2[r] = <<v>>
    BY <1>2, <1>3, <1>4, <1>5
  <1>7. ASSUME NEW p \in ResultIds, p # r PROVE vis2[p] = vis[p]
    <2>1. CASE \A o \in OpIds : show[o] # <<>> => show[o][1].id # p
      BY <1>2, <1>3, <1>4, <1>7, <2>1
    <2>2. ASSUME NEW o \in OpIds, show[o] # <<>>, show[o][1].id = p PROVE vis2[p] = vis[p]
      <3>1. vis[p] = <<show[o][1].val>> /\ vis2[p] = <<show[o][1].val>>
        BY <1>2, <1>3, <2>2
      <3>2. QED
        BY <3>1
    <2>3. QED
      BY <2>1, <2>2
  <1>8. vis2 = [vis EXCEPT ![r] = <<v>>]
    BY <1>2, <1>3, <1>6, <1>7
  <1>9. QED
    BY <1>1, <1>6, <1>8

\* The worker of o writes what it shows and goes on to its next output, or to its first.
GoesOn(o, res, show, res2, show2) ==
    /\ \A p \in OpIds : p # o => show2[p] = show[p]
    /\ \A r \in ResultIds : res2[r] = IF show[o] # <<>> /\ show[o][1].id = r
                                      THEN <<show[o][1].val>> ELSE res[r]

\* That output becomes visible, and the one it has written stays so.
LEMMA NextVisible ==
    ASSUME NEW res, NEW show, ShowOK(res, show), NEW res2, NEW show2, ShowOK(res2, show2),
           NEW o \in OpIds, GoesOn(o, res, show, res2, show2)
    PROVE  /\ show2[o] = <<>> => VisibleIn(res2, show2) = VisibleIn(res, show)
           /\ show2[o] # <<>> =>
                /\ VisibleIn(res, show)[show2[o][1].id] = <<>>
                /\ VisibleIn(res2, show2) =
                     [VisibleIn(res, show) EXCEPT ![show2[o][1].id] = <<show2[o][1].val>>]
  <1> USE DEF GoesOn
  <1>1. PICK vis, vis2 : vis = VisibleIn(res, show) /\ vis2 = VisibleIn(res2, show2)
    OBVIOUS
  <1>2. /\ \A q \in OpIds : show[q] # <<>> => vis[show[q][1].id] = <<show[q][1].val>>
        /\ \A p \in ResultIds : (\A q \in OpIds : show[q] # <<>> => show[q][1].id # p) => vis[p] = res[p]
        /\ vis = [p \in ResultIds |-> vis[p]]
    <2>1. Sees(vis, res, show)
      BY <1>1, VisibleAt
    <2>2. QED
      BY <2>1 DEF Sees
  <1>3. /\ \A q \in OpIds : show2[q] # <<>> => vis2[show2[q][1].id] = <<show2[q][1].val>>
        /\ \A p \in ResultIds : (\A q \in OpIds : show2[q] # <<>> => show2[q][1].id # p) => vis2[p] = res2[p]
        /\ vis2 = [p \in ResultIds |-> vis2[p]]
    <2>1. Sees(vis2, res2, show2)
      BY <1>1, VisibleAt
    <2>2. QED
      BY <2>1 DEF Sees
  <1>4. ASSUME NEW p \in ResultIds, show2[o] # <<>> => show2[o][1].id # p PROVE vis2[p] = vis[p]
    <2>1. CASE \E q \in OpIds : q # o /\ show[q] # <<>> /\ show[q][1].id = p
      <3>1. PICK q \in OpIds : q # o /\ show[q] # <<>> /\ show[q][1].id = p
        BY <2>1
      <3>2. show2[q] = show[q]
        BY <3>1
      <3>3. vis[p] = <<show[q][1].val>> /\ vis2[p] = <<show[q][1].val>>
        BY <1>2, <1>3, <3>1, <3>2
      <3>4. QED
        BY <3>3
    <2>2. CASE ~ \E q \in OpIds : q # o /\ show[q] # <<>> /\ show[q][1].id = p
      <3>1. \A q \in OpIds : show2[q] # <<>> => show2[q][1].id # p
        BY <1>4, <2>2
      <3>2. vis2[p] = res2[p]
        BY <1>3, <3>1
      <3>3. CASE show[o] # <<>> /\ show[o][1].id = p
        BY <1>2, <3>2, <3>3
      <3>4. CASE ~(show[o] # <<>> /\ show[o][1].id = p)
        <4>1. \A q \in OpIds : show[q] # <<>> => show[q][1].id # p
          BY <2>2, <3>4
        <4>2. QED
          BY <1>2, <3>2, <3>4, <4>1
      <3>5. QED
        BY <3>3, <3>4
    <2>3. QED
      BY <2>1, <2>2
  <1>5. vis2 = [p \in ResultIds |-> vis2[p]] /\ vis = [p \in ResultIds |-> vis[p]]
    BY <1>2, <1>3
  <1>6. ASSUME show2[o] = <<>> PROVE vis2 = vis
    BY <1>4, <1>5, <1>6
  <1>7. ASSUME show2[o] # <<>>
        PROVE  /\ vis[show2[o][1].id] = <<>>
               /\ vis2 = [vis EXCEPT ![show2[o][1].id] = <<show2[o][1].val>>]
    <2>1. PICK r, v : r = show2[o][1].id /\ v = show2[o][1].val
      OBVIOUS
    <2>2. r \in ResultIds /\ res2[r] = <<>> /\ \A q \in OpIds : show2[q] # <<>> /\ show2[q][1].id = r => q = o
      BY <1>7, <2>1 DEF ShowOK
    <2>3. ~(show[o] # <<>> /\ show[o][1].id = r) /\ res[r] = <<>>
      BY <2>2, OptionIntro
    <2>4. \A q \in OpIds : show[q] # <<>> => show[q][1].id # r
      BY <2>2, <2>3
    <2>5. vis[r] = <<>>
      BY <1>2, <2>2, <2>3, <2>4
    <2>6. vis2[r] = <<v>>
      BY <1>3, <1>7, <2>1
    <2>7. \A p \in ResultIds : p # r => vis2[p] = vis[p]
      BY <1>4, <2>1
    <2>8. vis2 = [vis EXCEPT ![r] = <<v>>]
      BY <1>5, <2>2, <2>6, <2>7
    <2>9. QED
      BY <2>1, <2>5, <2>8
  <1>8. QED
    BY <1>1, <1>6, <1>7

\* What readers see, in these terms; DispatchInv says that no cell has two writers.
Shown == ShowOK(results, Show) /\ Visible = VisibleIn(results, Show)

\* What a task shows: the first of the outputs that it has left.
LEMMA ShowFacts ==
    ASSUME TypeInv, NEW o \in OpIds, Show[o] # <<>>
    PROVE  /\ pool[o] # <<>> /\ pool[o][1].out # <<>> /\ Show[o][1] = pool[o][1].out[1]
           /\ Show[o][1] \in Result /\ Show[o][1].id \in LeftIds(pool[o])
  <1>1. PICK w : w = pool[o][1]
    OBVIOUS
  <1>2. pool[o] # <<>> /\ w.out # <<>> /\ Show[o] = <<w.out[1]>>
    BY <1>1 DEF Show, ShowOf
  <1>3. w.out \in Seq(Result)
    BY <1>1, <1>2, WorkerFacts
  <1>4. 1 \in DOMAIN w.out /\ w.out[1] \in Result
    BY <1>2, <1>3
  <1>5. w.out[1].id \in Elems(IdSeq(w.out))
    BY <1>4 DEF IdSeq, Elems
  <1>6. QED
    BY <1>1, <1>2, <1>4, <1>5 DEF LeftIds

LEMMA ShownHolds == TypeInv /\ DispatchInv => Shown
  <1> SUFFICES ASSUME TypeInv, DispatchInv PROVE Shown
    OBVIOUS
  <1>1. ASSUME NEW o \in OpIds, Show[o] # <<>>
        PROVE  /\ Show[o][1].id \in Out(o) /\ Show[o][1].id \notin Filled
               /\ Show[o][1].id \in ResultIds
    <2>1. PICK w : w = pool[o][1]
      OBVIOUS
    <2>2. pool[o] # <<>> /\ w.out # <<>> /\ Show[o][1] \in Result /\ Show[o][1].id \in LeftIds(pool[o])
      BY <1>1, <2>1, ShowFacts
    <2>3. Show[o][1].id \in Elems(IdSeq(w.out))
      BY <2>1, <2>2 DEF LeftIds
    <2>4. WorkerOK(w, Out(o), Filled, ready_mask \cup Announced)
      BY <2>1, <2>2 DEF DispatchInv, OutputsInv
    <2>5. Elems(IdSeq(w.out)) \subseteq Out(o) /\ Elems(IdSeq(w.out)) \cap Filled = {}
      BY <2>2, <2>4 DEF WorkerOK
    <2>6. QED
      BY <2>2, <2>3, <2>5 DEF Result
  <1>2. \A o, p \in OpIds : o # p => Out(o) \cap Out(p) = {}
    BY OutsApart DEF DispatchInv
  <1>3. ASSUME NEW o \in OpIds, Show[o] # <<>>
        PROVE  /\ Show[o][1].id \in ResultIds /\ results[Show[o][1].id] = <<>>
               /\ \A p \in OpIds : Show[p] # <<>> /\ Show[p][1].id = Show[o][1].id => p = o
    <2>1. Show[o][1].id \in ResultIds /\ results[Show[o][1].id] = <<>>
      BY <1>1, <1>3 DEF Filled
    <2>2. \A p \in OpIds : Show[p] # <<>> /\ Show[p][1].id = Show[o][1].id => p = o
      BY <1>1, <1>2, <1>3
    <2>3. QED
      BY <2>1, <2>2
  <1>4. ShowOK(results, Show)
    BY <1>3 DEF ShowOK
  <1>5. ASSUME NEW r \in ResultIds
        PROVE  BeingWritten(r) = {Show[o][1].val : o \in ShownAs(Show, r)}
    <2>1. \A o \in OpIds : /\ (Show[o] # <<>>) <=> (pool[o] # <<>> /\ pool[o][1].out # <<>>)
                           /\ Show[o] # <<>> => Show[o][1] = pool[o][1].out[1]
      BY DEF Show, ShowOf
    <2>2. {p \in OpIds : pool[p] # <<>> /\ pool[p][1].out # <<>> /\ pool[p][1].out[1].id = r}
            = ShownAs(Show, r)
      BY <2>1 DEF ShownAs
    <2>3. BeingWritten(r) = {pool[o][1].out[1].val : o \in ShownAs(Show, r)}
      BY <2>2 DEF BeingWritten
    <2>4. \A o \in ShownAs(Show, r) : pool[o][1].out[1].val = Show[o][1].val
      BY <2>1 DEF ShownAs
    <2>5. QED
      BY <2>3, <2>4
  <1>6. ASSUME NEW r \in ResultIds PROVE Visible[r] = VisibleIn(results, Show)[r]
    <2>1. PICK B, S, show : B = BeingWritten(r) /\ S = ShownAs(show, r) /\ show = Show
      OBVIOUS
    <2>2. B = {show[o][1].val : o \in S}
      BY <1>5, <2>1
    <2>3. B = {} <=> S = {}
      BY <2>2
    <2>4. Visible[r] = IF B = {} THEN results[r] ELSE <<CHOOSE v \in B : TRUE>>
      BY <2>1 DEF Visible
    <2>5. VisibleIn(results, Show)[r] = IF S = {} THEN results[r] ELSE <<CHOOSE v \in B : TRUE>>
      BY <2>1, <2>2 DEF VisibleIn
    <2>6. QED
      BY <2>3, <2>4, <2>5
  <1>7. Visible = VisibleIn(results, Show)
    <2>1. /\ Visible = [r \in ResultIds |-> Visible[r]]
          /\ VisibleIn(results, Show) = [r \in ResultIds |-> VisibleIn(results, Show)[r]]
      BY DEF Visible, VisibleIn
    <2>2. QED
      BY <1>6, <2>1
  <1>8. QED
    BY <1>4, <1>7 DEF Shown

-----------------------------------------------------------------------------
(* Values travel unchanged. *)

\* A task that runs has its arguments, and what it has left are the values of its
\* operation for them.
TaskOK(w, args, res) == w.step = "running" =>
    /\ \A k \in DOMAIN args : res[args[k]] # <<>>
    /\ \A j \in DOMAIN w.out :
         w.out[j].val = Apply(w.out[j].id, [k \in DOMAIN args |-> res[args[k]][1]])

TasksInv == \A o \in OpIds : pool[o] # <<>> => TaskOK(pool[o][1], issued[o][1].args, results)

BatchSources == \A k \in DOMAIN batch : batch[k].val = Source(batch[k].id)

ValueInv == QueueSources /\ BatchSources /\ TasksInv

\* A cell keeps its value.
CellsKept == \A r \in ResultIds : results[r] # <<>> => results'[r] = results[r]

\* A task is not affected by cells that are filled.
LEMMA TaskStable ==
    ASSUME NEW w, NEW args, NEW res, NEW res2, TaskOK(w, args, res),
           \A k \in DOMAIN args : args[k] \in ResultIds,
           \A r \in ResultIds : res[r] # <<>> => res2[r] = res[r]
    PROVE  TaskOK(w, args, res2)
  <1> SUFFICES ASSUME w.step = "running"
               PROVE  /\ \A k \in DOMAIN args : res2[args[k]] # <<>>
                      /\ \A j \in DOMAIN w.out :
                           w.out[j].val = Apply(w.out[j].id, [k \in DOMAIN args |-> res2[args[k]][1]])
    BY DEF TaskOK
  <1>1. /\ \A k \in DOMAIN args : res[args[k]] # <<>>
        /\ \A j \in DOMAIN w.out :
             w.out[j].val = Apply(w.out[j].id, [k \in DOMAIN args |-> res[args[k]][1]])
    BY DEF TaskOK
  <1>2. \A k \in DOMAIN args : res2[args[k]] = res[args[k]]
    BY <1>1
  <1>3. [k \in DOMAIN args |-> res2[args[k]][1]] = [k \in DOMAIN args |-> res[args[k]][1]]
    BY <1>2
  <1>4. QED
    BY <1>1, <1>2, <1>3

\* The arguments of an operation in the pool are result ids.
LEMMA TaskArgs ==
    ASSUME TypeInv, NEW o \in OpIds, issued[o] # <<>>
    PROVE  \A k \in DOMAIN issued[o][1].args : issued[o][1].args[k] \in ResultIds
  <1>1. issued[o][1] \in Operation
    BY OptionElim DEF TypeInv, TypeOK, FabricTypeOK
  <1>2. issued[o][1].args \in ArgLists(ResultIds)
    BY <1>1, OperationFacts
  <1>3. QED
    BY <1>2 DEF ArgLists

\* The tasks that are new or go on are right, the others are as they were.
LEMMA TasksStep ==
    ASSUME TypeInv, TasksInv, CellsKept,
           \A o \in OpIds : pool[o] # <<>> => issued'[o] = issued[o],
           \A o \in OpIds : pool'[o] # <<>> /\ pool'[o] # pool[o]
                              => TaskOK(pool'[o][1], issued'[o][1].args, results')
    PROVE  TasksInv'
  <1>1. ASSUME NEW o \in OpIds, pool'[o] # <<>>
        PROVE  TaskOK(pool'[o][1], issued'[o][1].args, results')
    <2>1. CASE pool'[o] # pool[o]
      BY <1>1, <2>1
    <2>2. CASE pool'[o] = pool[o]
      <3>1. PICK w, args, res, res2 : /\ w = pool[o][1] /\ args = issued[o][1].args
                                      /\ res = results /\ res2 = results'
        OBVIOUS
      <3>2. pool[o] # <<>> /\ issued'[o] = issued[o]
        BY <1>1, <2>2
      <3>3. TaskOK(w, args, res)
        BY <3>1, <3>2 DEF TasksInv
      <3>4. \A k \in DOMAIN args : args[k] \in ResultIds
        BY <3>1, <3>2, TaskArgs DEF TypeInv, OpsHeld
      <3>5. \A r \in ResultIds : res[r] # <<>> => res2[r] = res[r]
        BY <3>1 DEF CellsKept
      <3>6. TaskOK(w, args, res2)
        BY <3>3, <3>4, <3>5, TaskStable
      <3>7. QED
        BY <2>2, <3>1, <3>2, <3>6
    <2>3. QED
      BY <2>1, <2>2
  <1>2. QED
    BY <1>1 DEF TasksInv

\* The steps of the coordinator: it writes nothing but what comes from outside.
LEMMA CoordinatorTasks ==
    ASSUME TypeInv, TasksInv, CellsKept, SpawnsOnly, issued' = issued
    PROVE  TasksInv'
  <1>1. \A o \in OpIds : pool'[o] # <<>> /\ pool'[o] # pool[o]
                           => TaskOK(pool'[o][1], issued'[o][1].args, results')
    <2>1. \A args, res : TaskOK(Spawned[1], args, res)
      BY SpawnedFacts DEF TaskOK
    <2>2. QED
      BY <2>1 DEF SpawnsOnly
  <1>2. QED
    BY <1>1, TasksStep

\* compute_result computes its outputs from the values of the arguments.
LEMMA ComputeTask ==
    ASSUME TypeInv, NoPanic', TasksInv, NEW o \in OpIds, ComputeResult(o)
    PROVE  /\ TasksInv' /\ results' = results /\ pool[o] # <<>> /\ pool[o][1].step = "spawned"
           /\ pool' = [pool EXCEPT ![o] = <<[step |-> "running", out |-> Outputs(o)]>>]
           /\ TaskOK([step |-> "running", out |-> Outputs(o)], issued[o][1].args, results)
  <1>1. PICK op : op = issued[o][1]
    OBVIOUS
  <1>2. /\ pool[o] # <<>> /\ pool[o][1].step = "spawned" /\ results' = results /\ issued' = issued
    BY DEF ComputeResult, callVars
  <1>3. PICK d : d = [step |-> "running", out |-> Outputs(o)]
    OBVIOUS
  <1>4. /\ \A k \in DOMAIN op.args : results[op.args[k]] # <<>>
        /\ pool' = [pool EXCEPT ![o] = <<[step |-> "running", out |-> Outputs(o)]>>]
    BY <1>1, ComputeEffect DEF NoPanic
  <1>5. TaskOK(d, op.args, results)
    <2>1. PICK vals : vals = [k \in DOMAIN op.args |-> results[op.args[k]][1]]
      OBVIOUS
    <2>2. Outputs(o) = [j \in 1 .. op.output_arity |->
              [id |-> op.result_id + j - 1, val |-> Apply(op.result_id + j - 1, vals)]]
      BY <1>1, <2>1 DEF Outputs
    <2>3. \A j \in DOMAIN Outputs(o) : Outputs(o)[j].val = Apply(Outputs(o)[j].id, vals)
      BY <2>2
    <2>4. d.out = Outputs(o)
      BY <1>3
    <2>5. \A j \in DOMAIN d.out : d.out[j].val = Apply(d.out[j].id, vals)
      BY <2>3, <2>4
    <2>6. QED
      BY <1>4, <2>1, <2>5 DEF TaskOK
  <1>6. pool'[o] = <<d>> /\ \A p \in OpIds : p # o => pool'[p] = pool[p]
    BY <1>3, <1>4 DEF TypeInv, TypeOK
  <1>7. TasksInv'
    <2>1. CellsKept
      BY <1>2 DEF CellsKept
    <2>2. ASSUME NEW p \in OpIds, pool'[p] # <<>>, pool'[p] # pool[p]
          PROVE  TaskOK(pool'[p][1], issued'[p][1].args, results')
      <3>1. p = o
        BY <1>6, <2>2
      <3>2. pool'[p][1] = d
        BY <1>6, <3>1
      <3>3. QED
        BY <1>1, <1>2, <1>5, <3>1, <3>2
    <2>3. QED
      BY <1>2, <2>1, <2>2, TasksStep
  <1>8. QED
    BY <1>1, <1>2, <1>3, <1>4, <1>5, <1>7

\* Writing an output changes no argument of its operation.
LEMMA WriteTask ==
    ASSUME TypeInv, NoPanic', TasksInv, NEW o \in OpIds, WriteResult(o)
    PROVE  TasksInv' /\ CellsKept
  <1>1. PICK res, w, d, args : /\ res = Head(pool[o][1].out) /\ w = pool[o][1]
                               /\ d = [step |-> pool[o][1].step, out |-> Tail(pool[o][1].out)]
                               /\ args = issued[o][1].args
    OBVIOUS
  <1>2. /\ pool[o] # <<>> /\ w.out # <<>> /\ res.id \in ResultIds
        /\ results' = [results EXCEPT ![res.id] = <<res.val>>]
        /\ status' = IF results[res.id] = <<>> THEN status ELSE "panicked"
        /\ pool' = [pool EXCEPT ![o] = <<d>>]
    BY <1>1, WriteEffect
  <1>3. w.out \in Seq(Result) /\ issued[o] # <<>>
    BY <1>1, <1>2, WorkerFacts
  <1>4. issued' = issued
    BY DEF WriteResult, fabricVars, callVars
  <1>5. CellsKept
    <2>1. results[res.id] = <<>>
      BY <1>2 DEF NoPanic
    <2>2. QED
      BY <1>2, <2>1 DEF CellsKept, TypeInv, TypeOK
  <1>6. d.step = w.step /\ d.out = Tail(w.out)
    BY <1>1
  <1>7. TaskOK(d, args, results)
    <2>1. TaskOK(w, args, results)
      BY <1>1, <1>2 DEF TasksInv
    <2>2. \A j \in DOMAIN d.out : j + 1 \in DOMAIN w.out /\ d.out[j] = w.out[j + 1]
      BY <1>2, <1>3, <1>6, TailFacts
    <2>3. PICK vals : vals = [k \in DOMAIN args |-> results[args[k]][1]]
      OBVIOUS
    <2>4. ASSUME w.step = "running", NEW j \in DOMAIN d.out PROVE d.out[j].val = Apply(d.out[j].id, vals)
      <3>1. \A i \in DOMAIN w.out : w.out[i].val = Apply(w.out[i].id, vals)
        BY <2>1, <2>3, <2>4 DEF TaskOK
      <3>2. QED
        BY <2>2, <3>1
    <2>5. QED
      BY <1>6, <2>1, <2>3, <2>4 DEF TaskOK
  <1>8. TaskOK(d, args, results')
    <2>1. PICK cells1, cells2 : cells1 = results /\ cells2 = results'
      OBVIOUS
    <2>2. \A k \in DOMAIN args : args[k] \in ResultIds
      BY <1>1, <1>3, TaskArgs
    <2>3. \A r \in ResultIds : cells1[r] # <<>> => cells2[r] = cells1[r]
      BY <1>5, <2>1 DEF CellsKept
    <2>4. TaskOK(d, args, cells1)
      BY <1>7, <2>1
    <2>5. TaskOK(d, args, cells2)
      BY <2>2, <2>3, <2>4, TaskStable
    <2>6. QED
      BY <2>1, <2>5
  <1>9. pool'[o] = <<d>> /\ \A p \in OpIds : p # o => pool'[p] = pool[p]
    BY <1>2 DEF TypeInv, TypeOK
  <1>10. ASSUME NEW p \in OpIds, pool'[p] # <<>>, pool'[p] # pool[p]
         PROVE  TaskOK(pool'[p][1], issued'[p][1].args, results')
    <2>1. p = o
      BY <1>9, <1>10
    <2>2. pool'[p][1] = d
      BY <1>9, <2>1
    <2>3. QED
      BY <1>1, <1>4, <1>8, <2>1, <2>2
  <1>11. QED
    BY <1>4, <1>5, <1>10, TasksStep

\* The jobs that are popped carry sources, and those that workers push carry none.
LEMMA PopSources ==
    ASSUME TypeInv, QueueSources, NEW type, Pops(type)
    PROVE  QueueSources' /\ SourceJob(Head(job_queue))
  <1>1. /\ Head(job_queue) = job_queue[1] /\ 1 \in DOMAIN job_queue
        /\ \A i \in DOMAIN job_queue' : \E j \in DOMAIN job_queue : job_queue'[i] = job_queue[j]
    BY PopFacts
  <1>2. QED
    BY <1>1 DEF QueueSources

\* Every step keeps the values.
LEMMA ValueStep ==
    ASSUME TypeInv, DispatchInv, DispatchInv', ValueInv, [Next]_vars
    PROVE  ValueInv' /\ CellsKept
  <1>1. QueueSources /\ BatchSources /\ TasksInv /\ NoPanic'
    BY DEF ValueInv, DispatchInv
  <1>2. ASSUME results' = results PROVE CellsKept
    BY <1>2 DEF CellsKept
  <1>3. ASSUME pool' = pool PROVE SpawnsOnly
    BY <1>3 DEF SpawnsOnly
  <1>4. CASE PopResults
    <2>1. /\ Pops("Results") /\ batch' = Head(job_queue).results /\ results' = results
          /\ pool' = pool /\ issued' = issued
      BY <1>4 DEF PopResults, callVars
    <2>2. QueueSources' /\ SourceJob(Head(job_queue))
      BY <1>1, <2>1, PopSources
    <2>3. Head(job_queue).type = "Results"
      BY <2>1 DEF Pops
    <2>4. BatchSources'
      BY <2>1, <2>2, <2>3 DEF SourceJob, BatchSources
    <2>5. QED
      BY <1>1, <1>2, <1>3, <2>1, <2>2, <2>4, CoordinatorTasks DEF ValueInv
  <1>5. CASE PopResultsReady \/ HandleNewWaiter \/ HandleShutdown \/ HandleNewOperation
    <2>1. /\ \E type : Pops(type)
          /\ batch' = batch /\ results' = results /\ issued' = issued
      BY <1>5 DEF PopResultsReady, HandleNewWaiter, HandleShutdown, HandleNewOperation, callVars
    <2>2. SpawnsOnly
      <3>1. CASE HandleNewOperation
        BY <3>1, HandleNewOperationDispatch
      <3>2. CASE PopResultsReady \/ HandleNewWaiter \/ HandleShutdown
        <4>1. pool' = pool
          BY <3>2 DEF PopResultsReady, HandleNewWaiter, HandleShutdown
        <4>2. QED
          BY <1>3, <4>1
      <3>3. QED
        BY <1>5, <3>1, <3>2
    <2>3. QueueSources'
      BY <1>1, <2>1, PopSources
    <2>4. BatchSources'
      BY <1>1, <2>1 DEF BatchSources
    <2>5. QED
      BY <1>1, <1>2, <2>1, <2>2, <2>3, <2>4, CoordinatorTasks DEF ValueInv
  <1>6. CASE HandleNewResult
    <2>1. /\ batch # <<>> /\ batch' = Tail(batch) /\ job_queue' = job_queue /\ issued' = issued
          /\ results' = [results EXCEPT ![Head(batch).id] = <<Head(batch).val>>]
      BY <1>6 DEF HandleNewResult, callVars
    <2>2. SpawnsOnly /\ Head(batch).id \notin Made
      BY <1>6, HandleNewResultDispatch
    <2>3. CellsKept
      <3>1. \A r \in ResultIds : r # Head(batch).id => results'[r] = results[r]
        BY <2>1 DEF TypeInv, TypeOK
      <3>2. \A r \in ResultIds : results[r] # <<>> => r \in Made
        BY DEF Made, Filled
      <3>3. QED
        BY <2>2, <3>1, <3>2 DEF CellsKept
    <2>4. BatchSources'
      <3>1. batch \in Seq(Result)
        BY DEF TypeInv, TypeOK
      <3>2. \A k \in DOMAIN batch' : k + 1 \in DOMAIN batch /\ batch'[k] = batch[k + 1]
        BY <2>1, <3>1, TailFacts
      <3>3. QED
        BY <1>1, <3>2 DEF BatchSources
    <2>5. QueueSources'
      BY <1>1, <2>1 DEF QueueSources
    <2>6. QED
      BY <1>1, <2>1, <2>2, <2>3, <2>4, <2>5, CoordinatorTasks DEF ValueInv
  <1>7. CASE HandleNewResultById
    <2>1. batch' = batch /\ job_queue' = job_queue /\ issued' = issued /\ results' = results
      BY <1>7 DEF HandleNewResultById, callVars
    <2>2. SpawnsOnly
      BY <1>7, HandleNewResultByIdDispatch
    <2>3. QueueSources' /\ BatchSources'
      BY <1>1, <2>1 DEF QueueSources, BatchSources
    <2>4. QED
      BY <1>1, <1>2, <2>1, <2>2, <2>3, CoordinatorTasks DEF ValueInv
  <1>8. ASSUME NEW o \in OpIds, ComputeResult(o) PROVE ValueInv' /\ CellsKept
    <2>1. batch' = batch /\ job_queue' = job_queue
      BY <1>8 DEF ComputeResult
    <2>2. QueueSources' /\ BatchSources'
      BY <1>1, <2>1 DEF QueueSources, BatchSources
    <2>3. TasksInv' /\ results' = results
      BY <1>1, <1>8, ComputeTask
    <2>4. QED
      BY <1>2, <2>2, <2>3 DEF ValueInv
  <1>9. ASSUME NEW o \in OpIds, WriteResult(o) PROVE ValueInv' /\ CellsKept
    <2>1. batch' = batch /\ job_queue' = job_queue
      BY <1>9 DEF WriteResult, fabricVars
    <2>2. QueueSources' /\ BatchSources'
      BY <1>1, <2>1 DEF QueueSources, BatchSources
    <2>3. TasksInv' /\ CellsKept
      BY <1>1, <1>9, WriteTask
    <2>4. QED
      BY <2>2, <2>3 DEF ValueInv
  <1>10. ASSUME NEW o \in OpIds, NotifyReady(o) PROVE ValueInv' /\ CellsKept
    <2>1. PICK ids : ids = OutIds(issued[o][1])
      OBVIOUS
    <2>2. /\ pool[o] # <<>> /\ pool' = [pool EXCEPT ![o] = <<>>]
          /\ job_queue' = Append(job_queue, ReadyMsg(ids))
          /\ batch' = batch /\ results' = results /\ issued' = issued
      BY <1>10, <2>1 DEF NotifyReady, Push, OutIds, callVars
    <2>3. ids \in Seq(ResultIds)
      BY <2>1, <2>2, WorkerFacts, OutIdsFacts
    <2>4. ReadyMsg(ids) \in ExecutorMessage /\ SourceJob(ReadyMsg(ids))
      BY <2>3 DEF ReadyMsg, ExecutorMessage, SourceJob
    <2>5. QueueSources' /\ BatchSources'
      BY <1>1, <2>2, <2>4, PushSources DEF TypeInv, BatchSources
    <2>6. \A p \in OpIds : pool'[p] # <<>> => pool'[p] = pool[p]
      BY <2>2 DEF TypeInv, TypeOK
    <2>7. TasksInv'
      BY <1>1, <1>2, <2>2, <2>6, TasksStep
    <2>8. QED
      BY <1>2, <2>2, <2>5, <2>7 DEF ValueInv
  <1>11. CASE FabricNext /\ UNCHANGED executorVars
    <2>1. batch' = batch /\ results' = results /\ pool' = pool
      BY <1>11 DEF executorVars
    <2>2. QueueSources' /\ BatchSources'
      BY <1>1, <1>11, <2>1, FabricSources DEF TypeInv, BatchSources
    <2>3. \A o \in OpIds : o \in Touched => issued'[o] = issued[o]
      <3>1. PICK cur, ready, made, busy, touched :
                /\ cur = IdSeq(batch) /\ ready = ready_ids /\ made = Made /\ busy = Busy
                /\ touched = Touched
        OBVIOUS
      <3>2. FlowInv(cur, ready, made, busy, touched)
        BY <3>1, MovesNow DEF DispatchInv
      <3>3. \A o \in OpIds : o \in touched => issued'[o] = issued[o]
        BY <1>11, <3>2, FabricFlowStep DEF TypeInv
      <3>4. QED
        BY <3>1, <3>3
    <2>4. \A o \in OpIds : pool[o] # <<>> => issued'[o] = issued[o]
      BY <2>3 DEF Touched
    <2>5. TasksInv'
      BY <1>1, <1>2, <2>1, <2>4, TasksStep
    <2>6. QED
      BY <1>2, <2>1, <2>2, <2>5 DEF ValueInv
  <1>12. CASE UNCHANGED vars
    <2>1. job_queue' = job_queue /\ batch' = batch /\ results' = results /\ pool' = pool
          /\ issued' = issued
      BY <1>12 DEF vars, fabricVars, callVars, executorVars
    <2>2. QueueSources' /\ BatchSources'
      BY <1>1, <2>1 DEF QueueSources, BatchSources
    <2>3. QED
      BY <1>1, <1>2, <1>3, <2>1, <2>2, CoordinatorTasks DEF ValueInv
  <1>13. QED
    BY <1>4, <1>5, <1>6, <1>7, <1>8, <1>9, <1>10, <1>11, <1>12 DEF Next, CoordinatorNext, WorkerNext

\* At the start the queue has the constants and nothing else has a value.
LEMMA InitValues == Init => ValueInv
  <1> SUFFICES ASSUME Init PROVE ValueInv
    OBVIOUS
  <1>1. QueueSources
    BY InitSources DEF Init
  <1>2. BatchSources /\ TasksInv
    BY DEF Init, BatchSources, TasksInv
  <1>3. QED
    BY <1>1, <1>2 DEF ValueInv

\* What is on its way is right in every behaviour: the values that come from outside are
\* those of their sources, and what a task has left is its operation's.
THEOREM ParallelValueInvariant == Spec => []ValueInv
  <1>1. TypeInv /\ DispatchInv /\ DispatchInv' /\ ValueInv /\ [Next]_vars => ValueInv'
    BY ValueStep
  <1>2. QED
    BY <1>1, InitValues, ParallelTypeInvariant, ParallelDispatchInvariant, PTL DEF Spec

\* A cell of the ParallelResultBuffer is written once: no step of the coordinator or of a
\* worker changes a value that is there, torn reads or not.
THEOREM CellsWrittenOnce == Spec => [][CellsKept]_vars
  <1>1. TypeInv /\ DispatchInv /\ DispatchInv' /\ ValueInv /\ [Next]_vars => [CellsKept]_vars
    BY ValueStep
  <1>2. QED
    BY <1>1, ParallelTypeInvariant, ParallelDispatchInvariant, ParallelValueInvariant, PTL DEF Spec

-----------------------------------------------------------------------------
(* Every step is one of the graph. *)

\* A handle that was handed a value has that of the result it awaits.
HandleInv == \A h \in Handles : buffer[h] # <<>> =>
                awaits[h] # <<>> /\ buffer[h] = Visible[awaits[h][1]]

RefineInv == TypeInv /\ DispatchInv /\ ValueInv /\ Shown /\ HandleInv

\* The abstract graph keeps what it has handed out.
LEMMA GraphKeepsHandles ==
    ASSUME TypeInv, HandleInv, [Graph!Next]_(Graph!vars)
    PROVE  HandleInv'
  <1>1. DOMAIN Visible = ResultIds
    BY DEF Visible
  <1>2. /\ awaits \in [Handles -> Option(ResultIds)] /\ buffer \in [Handles -> Option(Val)]
    BY DEF TypeInv, TypeOK, FabricTypeOK
  <1>3. CASE UNCHANGED <<Visible, awaits, buffer>>
    BY <1>3 DEF HandleInv
  <1>4. ASSUME NEW h \in Handles, NEW r \in ResultIds, Graph!Await(h, r) PROVE HandleInv'
    <2>1. awaits[h] = <<>> /\ awaits' = [awaits EXCEPT ![h] = <<r>>] /\ Visible' = Visible /\ buffer' = buffer
      BY <1>4 DEF Graph!Await
    <2>2. buffer[h] = <<>>
      BY <2>1 DEF HandleInv
    <2>3. \A g \in Handles : g # h => awaits'[g] = awaits[g]
      BY <1>2, <2>1
    <2>4. QED
      BY <2>1, <2>2, <2>3 DEF HandleInv
  <1>5. ASSUME awaits' = awaits, Graph!Deliver, NEW r \in ResultIds, NEW e,
               Visible[r] = <<>>, Visible' = [Visible EXCEPT ![r] = e]
        PROVE  HandleInv'
    <2>1. ASSUME NEW h \in Handles, buffer'[h] # <<>>
          PROVE  awaits[h] # <<>> /\ buffer'[h] = Visible'[awaits[h][1]]
      <3>1. CASE buffer'[h] = buffer[h]
        <4>1. awaits[h] # <<>> /\ buffer[h] = Visible[awaits[h][1]]
          BY <2>1, <3>1 DEF HandleInv
        <4>2. awaits[h][1] \in ResultIds
          BY <1>2, <4>1, OptionElim
        <4>3. awaits[h][1] # r
          BY <1>5, <2>1, <3>1, <4>1
        <4>4. Visible'[awaits[h][1]] = Visible[awaits[h][1]]
          BY <1>1, <1>5, <4>2, <4>3
        <4>5. QED
          BY <3>1, <4>1, <4>4
      <3>2. CASE buffer'[h] # buffer[h]
        BY <1>5, <3>2 DEF Graph!Deliver
      <3>3. QED
        BY <3>1, <3>2
    <2>2. QED
      BY <1>5, <2>1 DEF HandleInv
  <1>6. ASSUME awaits' = awaits, Graph!Deliver, Visible' = Visible PROVE HandleInv'
    BY <1>6 DEF HandleInv, Graph!Deliver
  <1>7. ASSUME NEW r \in ResultIds, Graph!Provide(r) \/ Graph!Resolve(r)
        PROVE  Visible[r] = <<>> /\ \E e : Visible' = [Visible EXCEPT ![r] = e]
    BY <1>7 DEF Graph!Provide, Graph!Resolve
  <1>8. CASE UNCHANGED Graph!vars
    BY <1>3, <1>8 DEF Graph!vars
  <1>9. ASSUME NEW o, NEW op, Graph!Issue(o, op) PROVE HandleInv'
    BY <1>3, <1>9 DEF Graph!Issue
  <1>10. QED
    BY <1>4, <1>5, <1>6, <1>7, <1>8, <1>9 DEF Graph!Next

\* What execute_dependents and the queue do to the pool shows nothing.
LEMMA QuietShow == ASSUME SpawnsOnly PROVE Show' = Show
  <1>1. \A o \in OpIds : ShowOf(pool'[o]) = ShowOf(pool[o])
    BY SpawnedFacts DEF SpawnsOnly, ShowOf
  <1>2. QED
    BY <1>1 DEF Show

\* Waking the waiters of a result delivers it.
LEMMA WakeDelivers ==
    ASSUME TypeInv, HandleInv, awaits' = awaits, NEW r \in ResultIds, NEW v,
           Visible'[r] = <<v>>, Visible[r] = <<>> \/ Visible[r] = <<v>>,
           NEW hs, \A h \in hs : awaits[h] = <<r>>, WakeWaiters(hs, v)
    PROVE  DOMAIN buffer' = Handles /\ Graph!Deliver
  <1>1. buffer' = [h \in Handles |-> IF h \in hs THEN <<v>> ELSE buffer[h]]
    BY DEF WakeWaiters
  <1>2. <<v>> # <<>>
    OBVIOUS
  <1>3. ASSUME NEW h \in Handles
        PROVE  \/ buffer'[h] = buffer[h]
               \/ /\ awaits[h] # <<>> /\ buffer[h] = <<>>
                  /\ buffer'[h] = Visible'[awaits[h][1]] /\ buffer'[h] # <<>>
    <2>1. CASE h \notin hs
      BY <1>1, <2>1
    <2>2. CASE h \in hs
      <3>1. buffer'[h] = <<v>> /\ awaits[h] = <<r>>
        BY <1>1, <2>2
      <3>2. awaits[h] # <<>> /\ awaits[h][1] = r
        BY <3>1
      <3>3. buffer[h] # <<>> => buffer[h] = Visible[r]
        BY <3>2 DEF HandleInv
      <3>4. QED
        BY <1>2, <3>1, <3>2, <3>3
    <2>3. QED
      BY <2>1, <2>2
  <1>4. DOMAIN buffer' = Handles
    BY <1>1
  <1>5. QED
    BY <1>3, <1>4 DEF Graph!Deliver

\* A handle that nothing is handed to.
LEMMA NothingDelivered ==
    ASSUME TypeInv, buffer' = buffer
    PROVE  DOMAIN buffer' = Handles /\ Graph!Deliver
  <1>1. DOMAIN buffer' = Handles
    BY DEF TypeInv, TypeOK, FabricTypeOK
  <1>2. QED
    BY <1>1 DEF Graph!Deliver

LEMMA ComputedFacts == \A r : Graph!Computed(r) <=> \E o \in OpIds : r \in Out(o)
  BY DEF Graph!Computed, Graph!Outputs, Out, ResultIdsOf

\* handle_new_result provides a source that was not there.
LEMMA NewResultRefines ==
    ASSUME RefineInv, Shown', HandleNewResult
    PROVE  Graph!Next
  <1>1. TypeInv /\ DispatchInv /\ BatchSources /\ HandleInv
    BY DEF RefineInv, ValueInv
  <1>2. PICK res, r : res = Head(batch) /\ r = res.id
    OBVIOUS
  <1>3. /\ batch \in Seq(Result) /\ batch # <<>> /\ issued' = issued /\ awaits' = awaits
        /\ results' = [results EXCEPT ![r] = <<res.val>>]
    BY <1>1, <1>2 DEF HandleNewResult, TypeInv, TypeOK, callVars, pollVars
  <1>4. res \in Result /\ 1 \in DOMAIN batch /\ batch[1] = res
    BY <1>2, <1>3, TailFacts
  <1>5. r \in ResultIds /\ res.val = Source(r)
    BY <1>1, <1>2, <1>4 DEF Result, BatchSources
  <1>6. SpawnsOnly /\ r \notin Made /\ \A o \in OpIds : r \notin Out(o)
    BY <1>1, <1>2, HandleNewResultDispatch
  <1>7. results[r] = <<>>
    BY <1>5, <1>6 DEF Made, Filled
  <1>8. PICK v, cells1, cells2, show : v = res.val /\ cells1 = results /\ cells2 = results' /\ show = Show
    OBVIOUS
  <1>9. ShowOK(cells1, show) /\ Visible = VisibleIn(cells1, show)
    BY <1>8 DEF RefineInv, Shown
  <1>10. ShowOK(cells2, show) /\ Visible' = VisibleIn(cells2, show)
    <2>1. Show' = Show
      BY <1>6, QuietShow
    <2>2. QED
      BY <1>8, <2>1 DEF Shown
  <1>11. cells1[r] = <<>> /\ cells2[r] = <<v>> /\ \A p \in ResultIds : p # r => cells2[p] = cells1[p]
    BY <1>1, <1>3, <1>5, <1>7, <1>8 DEF TypeInv, TypeOK
  <1>12. VisibleIn(cells1, show)[r] = <<>> /\ VisibleIn(cells2, show) = [VisibleIn(cells1, show) EXCEPT ![r] = <<v>>]
    BY <1>5, <1>9, <1>10, <1>11, ProvideVisible
  <1>13. Visible[r] = <<>> /\ Visible' = [Visible EXCEPT ![r] = <<v>>]
    BY <1>9, <1>10, <1>12
  <1>14. Visible'[r] = <<v>>
    BY <1>5, <1>13 DEF Visible
  <1>15. DOMAIN buffer' = Handles /\ Graph!Deliver
    <2>1. PICK hs : hs = waiters[r]
      OBVIOUS
    <2>2. WakeWaiters(hs, v)
      BY <1>2, <1>7, <1>8, <2>1 DEF HandleNewResult
    <2>3. \A h \in hs : awaits[h] = <<r>>
      BY <1>1, <1>5, <2>1 DEF TypeInv, WaitersPolled
    <2>4. QED
      BY <1>1, <1>3, <1>5, <1>13, <1>14, <2>2, <2>3, WakeDelivers
  <1>16. Graph!Provide(r)
    <2>1. ~Graph!Computed(r)
      BY <1>6, ComputedFacts
    <2>2. QED
      BY <1>5, <1>8, <1>13, <2>1 DEF Graph!Provide
  <1>17. QED
    BY <1>3, <1>5, <1>15, <1>16 DEF Graph!Next

\* handle_new_result_by_id delivers a result that a worker has written.
LEMMA NewResultByIdRefines ==
    ASSUME RefineInv, Shown', HandleNewResultById
    PROVE  Graph!Next
  <1>1. TypeInv /\ DispatchInv /\ HandleInv
    BY DEF RefineInv
  <1>2. PICK r : r = Head(ready_ids)
    OBVIOUS
  <1>3. /\ ready_ids \in Seq(ResultIds) /\ ready_ids # <<>> /\ issued' = issued /\ awaits' = awaits
        /\ results' = results
    BY <1>1 DEF HandleNewResultById, TypeInv, TypeOK, callVars, pollVars
  <1>4. r \in ResultIds
    BY <1>2, <1>3, TailFacts
  <1>5. Show' = Show /\ NoPanic'
    BY <1>1, HandleNewResultByIdDispatch, QuietShow DEF DispatchInv
  <1>6. Visible' = Visible
    BY <1>3, <1>5 DEF RefineInv, Shown
  <1>7. DOMAIN buffer' = Handles /\ Graph!Deliver
    <2>1. CASE waiters[r] = {}
      <3>1. buffer' = buffer
        BY <1>2, <2>1 DEF HandleNewResultById
      <3>2. QED
        BY <1>1, <3>1, NothingDelivered
    <2>2. CASE waiters[r] # {}
      <3>1. PICK hs, v : hs = waiters[r] /\ v = results[r][1]
        OBVIOUS
      <3>2. results[r] # <<>> /\ WakeWaiters(hs, v)
        BY <1>2, <1>5, <2>2, <3>1 DEF HandleNewResultById, NoPanic
      <3>3. results[r] = <<v>>
        BY <1>1, <1>4, <3>1, <3>2, OptionElim DEF TypeInv, TypeOK
      <3>4. Visible[r] = results[r]
        BY <1>4, <3>2, VisibleAt DEF RefineInv, Shown
      <3>5. Visible[r] = <<v>> /\ Visible'[r] = <<v>>
        BY <1>6, <3>3, <3>4
      <3>6. \A h \in hs : awaits[h] = <<r>>
        BY <1>1, <1>4, <3>1 DEF TypeInv, WaitersPolled
      <3>7. QED
        BY <1>1, <1>3, <1>4, <3>2, <3>5, <3>6, WakeDelivers
    <2>3. QED
      BY <2>1, <2>2
  <1>8. QED
    BY <1>3, <1>6, <1>7 DEF Graph!Next

\* A read that overlaps a write sees None or the value, when cells are word sized.
LEMMA ReadIsVisible ==
    ASSUME TypeInv, Shown, RacyReads = {}, NEW r \in ResultIds, NEW cell \in Reads(r), cell # <<>>
    PROVE  cell = Visible[r]
  <1>1. PICK vis, cells1, show : vis = VisibleIn(results, Show) /\ cells1 = results /\ show = Show
    OBVIOUS
  <1>2. Visible = vis /\ Sees(vis, cells1, show) /\ (cells1[r] # <<>> => vis[r] = cells1[r])
    <2>1. ShowOK(cells1, show) /\ Visible = vis
      BY <1>1 DEF Shown
    <2>2. QED
      BY <1>1, <2>1, VisibleAt
  <1>3. CASE cell = results[r]
    BY <1>1, <1>2, <1>3
  <1>4. CASE cell # results[r]
    <2>1. PICK v \in BeingWritten(r) : cell = <<v>>
      BY <1>4 DEF Reads
    <2>2. PICK o \in OpIds : /\ pool[o] # <<>> /\ pool[o][1].out # <<>> /\ pool[o][1].out[1].id = r
                             /\ v = pool[o][1].out[1].val
      BY DEF BeingWritten
    <2>3. show[o] = <<pool[o][1].out[1]>>
      BY <1>1, <2>2 DEF Show, ShowOf
    <2>4. show[o] # <<>> /\ show[o][1].id = r /\ show[o][1].val = v
      BY <2>2, <2>3
    <2>5. vis[show[o][1].id] = <<show[o][1].val>>
      BY <1>2, <2>4 DEF Sees
    <2>6. QED
      BY <1>2, <2>1, <2>4, <2>5
  <1>5. QED
    BY <1>3, <1>4

\* handle_new_waiter delivers what it reads, if it reads something.
LEMMA NewWaiterRefines ==
    ASSUME RefineInv, RacyReads = {}, HandleNewWaiter
    PROVE  Graph!Next
  <1>1. TypeInv /\ DispatchInv /\ HandleInv /\ Shown
    BY DEF RefineInv
  <1>2. PICK h, r : h = Head(job_queue).handle /\ r = awaits[h][1]
    OBVIOUS
  <1>3. h \in Handles /\ awaits[h] # <<>>
    <2>1. /\ Head(job_queue) = job_queue[1] /\ 1 \in DOMAIN job_queue
          /\ Head(job_queue) \in ExecutorMessage /\ Head(job_queue).type = "NewWaiter"
      BY <1>1, PopFacts DEF HandleNewWaiter
    <2>2. QED
      BY <1>1, <1>2, <2>1, MessageFacts DEF TypeInv, FabricInv, HandlesPolled
  <1>4. r \in ResultIds /\ awaits[h] = <<r>>
    BY <1>1, <1>2, <1>3, OptionElim DEF TypeInv, TypeOK, FabricTypeOK
  <1>5. results' = results /\ pool' = pool /\ awaits' = awaits /\ issued' = issued
    BY DEF HandleNewWaiter, pollVars, callVars
  <1>6. Visible' = Visible
    BY <1>5 DEF Visible, BeingWritten
  <1>7. PICK cell \in Reads(r) : IF cell # <<>> THEN WakeWaiters(waiters[r] \cup {h}, cell[1])
                                 ELSE UNCHANGED <<buffer, woken>>
    BY <1>2 DEF HandleNewWaiter
  <1>8. DOMAIN buffer' = Handles /\ Graph!Deliver
    <2>1. CASE cell = <<>>
      <3>1. buffer' = buffer
        BY <1>7, <2>1
      <3>2. QED
        BY <1>1, <3>1, NothingDelivered
    <2>2. CASE cell # <<>>
      <3>1. PICK hs, v : hs = waiters[r] \cup {h} /\ v = cell[1]
        OBVIOUS
      <3>2. WakeWaiters(hs, v)
        BY <1>7, <2>2, <3>1
      <3>3. cell = Visible[r]
        BY <1>1, <1>4, <2>2, ReadIsVisible
      <3>4. cell = <<v>>
        BY <1>1, <1>4, <2>2, <3>1, ReadsType, OptionElim
      <3>5. Visible[r] = <<v>> /\ Visible'[r] = <<v>>
        BY <1>6, <3>3, <3>4
      <3>6. \A g \in hs : awaits[g] = <<r>>
        BY <1>1, <1>4, <3>1 DEF TypeInv, WaitersPolled
      <3>7. QED
        BY <1>1, <1>4, <1>5, <3>2, <3>5, <3>6, WakeDelivers
    <2>3. QED
      BY <2>1, <2>2
  <1>9. QED
    BY <1>5, <1>6, <1>8 DEF Graph!Next

\* A worker begins to write its next output: that resolves it.  If it has none left, the
\* graph stays.
LEMMA WorkerRefines ==
    ASSUME RefineInv, Shown', NEW o \in OpIds, issued[o] # <<>>,
           GoesOn(o, results, Show, results', Show'),
           issued' = issued, awaits' = awaits, buffer' = buffer,
           NEW args, args = issued[o][1].args, \A k \in DOMAIN args : results[args[k]] # <<>>,
           Show'[o] # <<>> =>
              /\ Show'[o][1].id \in Out(o)
              /\ Show'[o][1].val = Apply(Show'[o][1].id, [k \in DOMAIN args |-> results[args[k]][1]])
    PROVE  Graph!Next
  <1>1. TypeInv /\ DispatchInv /\ Shown
    BY DEF RefineInv
  <1>2. PICK cells1, cells2, show, show2 :
            cells1 = results /\ cells2 = results' /\ show = Show /\ show2 = Show'
    OBVIOUS
  <1>3. /\ ShowOK(cells1, show) /\ ShowOK(cells2, show2)
        /\ Visible = VisibleIn(cells1, show) /\ Visible' = VisibleIn(cells2, show2)
    BY <1>1, <1>2 DEF Shown
  <1>4. GoesOn(o, cells1, show, cells2, show2)
    BY <1>2
  <1>5. /\ show2[o] = <<>> => Visible' = Visible
        /\ show2[o] # <<>> => /\ Visible[show2[o][1].id] = <<>>
                              /\ Visible' = [Visible EXCEPT ![show2[o][1].id] = <<show2[o][1].val>>]
    <2>1. /\ show2[o] = <<>> => VisibleIn(cells2, show2) = VisibleIn(cells1, show)
          /\ show2[o] # <<>> =>
               /\ VisibleIn(cells1, show)[show2[o][1].id] = <<>>
               /\ VisibleIn(cells2, show2) =
                    [VisibleIn(cells1, show) EXCEPT ![show2[o][1].id] = <<show2[o][1].val>>]
      BY <1>3, <1>4, NextVisible
    <2>2. QED
      BY <1>3, <2>1
  <1>6. DOMAIN buffer' = Handles /\ Graph!Deliver
    BY <1>1, NothingDelivered
  <1>7. CASE show2[o] = <<>>
    BY <1>5, <1>6, <1>7 DEF Graph!Next
  <1>8. CASE show2[o] # <<>>
    <2>1. PICK r, v : r = show2[o][1].id /\ v = show2[o][1].val
      OBVIOUS
    <2>2. Visible[r] = <<>> /\ Visible' = [Visible EXCEPT ![r] = <<v>>]
      BY <1>5, <1>8, <2>1
    <2>3. r \in Out(o) /\ v = Apply(r, [k \in DOMAIN args |-> results[args[k]][1]])
      BY <1>2, <1>8, <2>1
    <2>4. r \in ResultIds
      BY <1>3, <1>8, <2>1 DEF ShowOK
    <2>5. \A k \in DOMAIN args : Visible[args[k]] = results[args[k]]
      <3>1. \A k \in DOMAIN args : args[k] \in ResultIds
        BY <1>1, TaskArgs
      <3>2. \A p \in ResultIds : cells1[p] # <<>> => Visible[p] = cells1[p]
        BY <1>3, VisibleAt
      <3>3. QED
        BY <1>2, <3>1, <3>2
    <2>6. [k \in DOMAIN args |-> results[args[k]][1]] = [k \in DOMAIN args |-> Visible[args[k]][1]]
      BY <2>5
    <2>7. Visible' = [Visible EXCEPT ![r] = <<Apply(r, [k \in DOMAIN args |-> Visible[args[k]][1]])>>]
      BY <2>2, <2>3, <2>6
    <2>8. \A k \in DOMAIN args : Visible[args[k]] # <<>>
      BY <2>5
    <2>9. r \in Graph!Outputs(issued[o][1])
      BY <2>3 DEF Graph!Outputs, Out, ResultIdsOf
    <2>10. Graph!Resolve(r)
      <3>1. /\ \A k \in DOMAIN issued[o][1].args : Visible[issued[o][1].args[k]] # <<>>
            /\ Visible' = [Visible EXCEPT ![r] =
                  <<Apply(r, [k \in DOMAIN issued[o][1].args |-> Visible[issued[o][1].args[k]][1]])>>]
        BY <2>7, <2>8
      <3>2. QED
        BY <2>2, <2>9, <3>1 DEF Graph!Resolve
    <2>11. QED
      BY <1>6, <2>4, <2>10 DEF Graph!Next
  <1>9. QED
    BY <1>7, <1>8

\* compute_result: the first output is being written from now on.
LEMMA ComputeRefines ==
    ASSUME RefineInv, DispatchInv', Shown', NEW o \in OpIds, ComputeResult(o)
    PROVE  Graph!Next
  <1>1. TypeInv /\ DispatchInv /\ TasksInv /\ NoPanic'
    BY DEF RefineInv, ValueInv, DispatchInv
  <1>2. PICK d, args : d = [step |-> "running", out |-> Outputs(o)] /\ args = issued[o][1].args
    OBVIOUS
  <1>3. /\ results' = results /\ pool[o] # <<>> /\ pool[o][1].step = "spawned"
        /\ pool' = [pool EXCEPT ![o] = <<d>>] /\ TaskOK(d, args, results)
    BY <1>1, <1>2, ComputeTask
  <1>4. issued' = issued /\ awaits' = awaits /\ buffer' = buffer
    BY DEF ComputeResult, callVars, pollVars
  <1>5. issued[o] # <<>> /\ issued[o][1] \in Operation
    BY <1>1, <1>3, WorkerFacts
  <1>6. pool'[o] = <<d>> /\ \A p \in OpIds : p # o => pool'[p] = pool[p]
    BY <1>1, <1>3 DEF TypeInv, TypeOK
  <1>7. Show[o] = <<>>
    <2>1. pool[o] = Spawned
      BY <1>1, <1>3, TaskStep DEF DispatchInv
    <2>2. QED
      BY <2>1, SpawnedFacts DEF Show, ShowOf
  <1>8. \A p \in OpIds : p # o => Show'[p] = Show[p]
    BY <1>6 DEF Show
  <1>9. d.step = "running" /\ d.out = Outputs(o)
    BY <1>2
  <1>10. /\ \A k \in DOMAIN args : results[args[k]] # <<>>
         /\ \A j \in DOMAIN d.out :
              d.out[j].val = Apply(d.out[j].id, [k \in DOMAIN args |-> results[args[k]][1]])
    BY <1>3, <1>9 DEF TaskOK
  <1>11. d.out \in Seq(Result)
    BY <1>1, <1>2, <1>5, <1>9, <1>10, OutputsAreResults
  <1>12. d.out[1].id \in Out(o)
    BY <1>5, <1>9, OutputIds
  <1>13. Show'[o] # <<>> =>
              /\ Show'[o][1].id \in Out(o)
              /\ Show'[o][1].val = Apply(Show'[o][1].id, [k \in DOMAIN args |-> results[args[k]][1]])
    <2>1. Show'[o] = IF d.out = <<>> THEN <<>> ELSE <<d.out[1]>>
      BY <1>6 DEF Show, ShowOf
    <2>2. d.out # <<>> => 1 \in DOMAIN d.out
      BY <1>11
    <2>3. CASE d.out = <<>>
      BY <2>1, <2>3
    <2>4. CASE d.out # <<>>
      <3>1. Show'[o][1] = d.out[1]
        BY <2>1, <2>4
      <3>2. QED
        BY <1>10, <1>12, <2>2, <2>4, <3>1
    <2>5. QED
      BY <2>3, <2>4
  <1>14. GoesOn(o, results, Show, results', Show')
    BY <1>3, <1>7, <1>8 DEF GoesOn
  <1>15. \A k \in DOMAIN args : results[args[k]] # <<>>
    BY <1>10
  <1>16. QED
    BY <1>2, <1>4, <1>5, <1>13, <1>14, <1>15, WorkerRefines

\* The write of an output ends and that of the next one begins.
LEMMA WriteRefines ==
    ASSUME RefineInv, Shown', NEW o \in OpIds, WriteResult(o)
    PROVE  Graph!Next
  <1>1. TypeInv /\ DispatchInv /\ TasksInv
    BY DEF RefineInv, ValueInv
  <1>2. PICK res, w, d, args : /\ res = Head(pool[o][1].out) /\ w = pool[o][1]
                               /\ d = [step |-> pool[o][1].step, out |-> Tail(pool[o][1].out)]
                               /\ args = issued[o][1].args
    OBVIOUS
  <1>3. /\ pool[o] # <<>> /\ w.out # <<>> /\ res.id \in ResultIds
        /\ results' = [results EXCEPT ![res.id] = <<res.val>>]
        /\ pool' = [pool EXCEPT ![o] = <<d>>]
    BY <1>1, <1>2, WriteEffect
  <1>4. w \in Worker /\ w.out \in Seq(Result) /\ issued[o] # <<>>
    BY <1>1, <1>2, <1>3, WorkerFacts
  <1>5. issued' = issued /\ awaits' = awaits /\ buffer' = buffer
    BY DEF WriteResult, fabricVars, callVars, pollVars
  <1>6. pool'[o] = <<d>> /\ \A p \in OpIds : p # o => pool'[p] = pool[p]
    BY <1>1, <1>3 DEF TypeInv, TypeOK
  <1>7. \A p \in OpIds : p # o => Show'[p] = Show[p]
    BY <1>6 DEF Show
  <1>8. Show[o] = <<res>>
    BY <1>2, <1>3, <1>4, TailFacts DEF Show, ShowOf
  <1>9. WorkerOK(w, Out(o), Filled, ready_mask \cup Announced)
    BY <1>1, <1>2, <1>3 DEF DispatchInv, OutputsInv
  <1>10. w.step = "running" /\ Elems(IdSeq(w.out)) \subseteq Out(o)
    BY <1>3, <1>4, <1>9 DEF WorkerOK, Worker
  <1>11. TaskOK(w, args, results)
    BY <1>1, <1>2, <1>3 DEF TasksInv
  <1>12. /\ \A k \in DOMAIN args : results[args[k]] # <<>>
         /\ \A j \in DOMAIN w.out :
              w.out[j].val = Apply(w.out[j].id, [k \in DOMAIN args |-> results[args[k]][1]])
    BY <1>10, <1>11 DEF TaskOK
  <1>13. d.out = Tail(w.out)
    BY <1>2
  <1>14. Show'[o] # <<>> =>
              /\ Show'[o][1].id \in Out(o)
              /\ Show'[o][1].val = Apply(Show'[o][1].id, [k \in DOMAIN args |-> results[args[k]][1]])
    <2>1. Show'[o] = IF d.out = <<>> THEN <<>> ELSE <<d.out[1]>>
      BY <1>6 DEF Show, ShowOf
    <2>2. CASE d.out = <<>>
      BY <2>1, <2>2
    <2>3. CASE d.out # <<>>
      <3>1. 2 \in DOMAIN w.out /\ d.out[1] = w.out[2]
        BY <1>4, <1>13, <2>3
      <3>2. Show'[o][1] = w.out[2]
        BY <2>1, <2>3, <3>1
      <3>3. w.out[2].id \in Elems(IdSeq(w.out))
        BY <3>1 DEF IdSeq, Elems
      <3>4. QED
        BY <1>10, <1>12, <3>1, <3>2, <3>3
    <2>4. QED
      BY <2>2, <2>3
  <1>15. GoesOn(o, results, Show, results', Show')
    <2>1. Show[o] # <<>> /\ Show[o][1] = res
      BY <1>8
    <2>2. \A p \in ResultIds : results'[p] = IF res.id = p THEN <<res.val>> ELSE results[p]
      BY <1>1, <1>3 DEF TypeInv, TypeOK
    <2>3. QED
      BY <1>7, <2>1, <2>2 DEF GoesOn
  <1>16. \A k \in DOMAIN args : results[args[k]] # <<>>
    BY <1>12
  <1>17. QED
    BY <1>2, <1>4, <1>5, <1>14, <1>15, <1>16, WorkerRefines

\* The announcement of the outputs, all of which are written.
LEMMA NotifyRefines ==
    ASSUME RefineInv, Shown', NEW o \in OpIds, NotifyReady(o)
    PROVE  UNCHANGED Graph!vars
  <1>1. /\ pool[o] # <<>> /\ pool[o][1].out = <<>> /\ pool' = [pool EXCEPT ![o] = <<>>]
        /\ results' = results /\ issued' = issued /\ awaits' = awaits /\ buffer' = buffer
    BY DEF NotifyReady, callVars, pollVars
  <1>2. pool'[o] = <<>> /\ \A p \in OpIds : p # o => pool'[p] = pool[p]
    BY <1>1 DEF RefineInv, TypeInv, TypeOK
  <1>3. \A p \in OpIds : ShowOf(pool'[p]) = ShowOf(pool[p])
    <2>1. ShowOf(pool'[o]) = <<>> /\ ShowOf(pool[o]) = <<>>
      BY <1>1, <1>2 DEF ShowOf
    <2>2. QED
      BY <1>2, <2>1
  <1>4. Show' = Show
    BY <1>3 DEF Show
  <1>5. Visible' = Visible
    BY <1>1, <1>4 DEF RefineInv, Shown
  <1>6. QED
    BY <1>1, <1>5 DEF Graph!vars

\* new_op adds an operation whose outputs are new and nothing else's.
LEMMA NewOpRefines ==
    ASSUME RefineInv, UNCHANGED executorVars, NEW t \in Threads, NewOpId(t)
    PROVE  Graph!Next
  <1>1. TypeInv /\ Moves /\ Shown
    BY DEF RefineInv, DispatchInv
  <1>2. PICK q, op : q = next_op_id /\ op = call[t][1].body
    OBVIOUS
  <1>3. /\ call[t] # <<>> /\ call[t][1].step = "op_id"
        /\ issued' = [issued EXCEPT ![q] = <<op>>]
        /\ q < MaxOps /\ q \in 0 .. MaxOps
        /\ results' = results /\ pool' = pool /\ awaits' = awaits /\ buffer' = buffer
    BY <1>1, <1>2 DEF NewOpId, TypeInv, TypeOK, FabricTypeOK, executorVars, pollVars
  <1>4. Visible' = Visible
    BY <1>3 DEF Visible, BeingWritten
  <1>5. q \in OpIds /\ q >= next_op_id
    BY <1>2, <1>3, FabricAssumption DEF OpIds
  <1>6. issued[q] = <<>>
    BY <1>1, <1>5 DEF Moves, FlowInv, OnePlace
  <1>7. issued'[q] = <<op>>
    BY <1>1, <1>3, <1>5 DEF TypeInv, TypeOK, FabricTypeOK
  <1>8. op \in Operation
    <2>1. call[t][1] \in Call
      BY <1>1, <1>3, OptionElim DEF TypeInv, TypeOK, FabricTypeOK
    <2>2. QED
      BY <1>2, <1>3, <2>1 DEF Call
  <1>9. ResultIdsOf(op) \subseteq ResultIds
    BY <1>8, OperationFacts
  <1>10. Ids[t] = ResultIdsOf(op)
    BY <1>2, <1>3 DEF CallIds, Ids
  <1>11. \A r \in ResultIdsOf(op) : r \notin Made /\ \A o \in OpIds : r \notin Out(o)
    <2>1. IdOK(Own, Known, Ids, Outs, Sources(IdSeq(batch)), Made, Calling \cup Queued \cup Busy)
      BY <1>1 DEF Moves, FlowInv, OneOrigin
    <2>2. Ids[t] \cap Made = {} /\ \A o \in OpIds : Ids[t] \cap Outs[o] = {}
      BY <2>1 DEF IdOK
    <2>3. \A o \in OpIds : Outs[o] = Out(o)
      BY DEF Outs
    <2>4. QED
      BY <1>10, <2>2, <2>3
  <1>12. ASSUME NEW r \in ResultIdsOf(op) PROVE Visible[r] = <<>>
    <2>1. r \in ResultIds /\ r \notin Made
      BY <1>9, <1>11
    <2>2. results[r] = <<>> /\ \A o \in OpIds : r \notin LeftIds(pool[o])
      BY <2>1 DEF Made, Filled
    <2>3. \A o \in OpIds : Show[o] # <<>> => Show[o][1].id # r
      BY <1>1, <2>2, ShowFacts
    <2>4. PICK vis, cells1, show : vis = VisibleIn(results, Show) /\ cells1 = results /\ show = Show
      OBVIOUS
    <2>5. Visible = vis /\ Sees(vis, cells1, show)
      BY <1>1, <2>4, VisibleAt DEF Shown
    <2>6. vis[r] = cells1[r]
      BY <2>1, <2>3, <2>4, <2>5 DEF Sees
    <2>7. QED
      BY <2>2, <2>4, <2>5, <2>6
  <1>13. \A r \in ResultIdsOf(op) : ~Graph!Computed(r) /\ Visible[r] = <<>>
    BY <1>11, <1>12, ComputedFacts
  <1>14. Graph!Issue(q, op)
    BY <1>3, <1>4, <1>6, <1>13 DEF Graph!Issue, Graph!Outputs, ResultIdsOf
  <1>15. 1 \in DOMAIN issued'[q] /\ issued'[q][1] = op
    BY <1>7
  <1>16. op \in {issued'[q][i] : i \in DOMAIN issued'[q]}
    BY <1>15
  <1>17. QED
    BY <1>5, <1>14, <1>16 DEF Graph!Next

\* The first poll of a handle is the graph's Await.
LEMMA FirstPollRefines ==
    ASSUME RefineInv, UNCHANGED executorVars, NEW h \in Handles,
           NEW r \in ResultIds, NEW w \in Wakers, PollRegister(h, r, w)
    PROVE  Graph!Next
  <1>1. awaits[h] = <<>>
    BY DEF RefineInv, PollRegister, TypeInv, FabricInv, HandlesPolled
  <1>2. /\ awaits' = [awaits EXCEPT ![h] = <<r>>] /\ issued' = issued /\ buffer' = buffer
        /\ results' = results /\ pool' = pool
    BY DEF PollRegister, executorVars, callVars
  <1>3. Visible' = Visible
    BY <1>2 DEF Visible, BeingWritten
  <1>4. Graph!Await(h, r)
    BY <1>1, <1>2, <1>3 DEF Graph!Await
  <1>5. QED
    BY <1>4 DEF Graph!Next

\* Every step is a step of the graph, or leaves the graph alone.
LEMMA StepRefines ==
    ASSUME RacyReads = {}, RefineInv, DispatchInv', Shown', [Next]_vars
    PROVE  [Graph!Next]_(Graph!vars)
  <1>1. TypeInv /\ DispatchInv
    BY DEF RefineInv
  <1>2. CASE HandleNewResult \/ HandleNewResultById \/ HandleNewWaiter
    BY <1>2, NewResultRefines, NewResultByIdRefines, NewWaiterRefines
  <1>3. ASSUME UNCHANGED <<results, issued, awaits, buffer>>, pool' = pool
        PROVE  UNCHANGED Graph!vars
    <2>1. Visible' = Visible
      BY <1>3 DEF Visible, BeingWritten
    <2>2. QED
      BY <1>3, <2>1 DEF Graph!vars
  <1>4. CASE PopResults \/ PopResultsReady \/ HandleShutdown
    BY <1>3, <1>4 DEF PopResults, PopResultsReady, HandleShutdown, callVars, pollVars
  <1>5. CASE HandleNewOperation
    <2>1. results' = results /\ issued' = issued /\ awaits' = awaits /\ buffer' = buffer
      BY <1>5 DEF HandleNewOperation, callVars, pollVars
    <2>2. Show' = Show
      BY <1>1, <1>5, HandleNewOperationDispatch, QuietShow
    <2>3. Visible' = Visible
      BY <2>1, <2>2 DEF RefineInv, Shown
    <2>4. QED
      BY <2>1, <2>3 DEF Graph!vars
  <1>6. CASE \E o \in OpIds : WorkerNext(o)
    BY <1>6, ComputeRefines, WriteRefines, NotifyRefines DEF WorkerNext
  <1>7. ASSUME UNCHANGED executorVars,
               \/ \E t \in Threads : NewOpId(t)
               \/ \E h \in Handles, r \in ResultIds, w \in Wakers : PollRegister(h, r, w)
        PROVE  Graph!Next
    BY <1>7, NewOpRefines, FirstPollRefines
  <1>8. ASSUME UNCHANGED executorVars, NEW t \in Threads,
               \/ AllocatePush(t) \/ NewOpPush(t) \/ ReceiveValue(t)
               \/ \E n \in 1 .. MaxArity : AllocateIds(t, n)
               \/ \E args \in ArgLists(returned), arity \in 1 .. MaxArity, type \in OpTypes :
                    NewOpResultIds(t, args, arity, type)
        PROVE  UNCHANGED Graph!vars
    <2>1. issued' = issued /\ awaits' = awaits /\ buffer' = buffer
      BY <1>8 DEF AllocatePush, NewOpPush, ReceiveValue, AllocateIds, NewOpResultIds, pollVars
    <2>2. QED
      BY <1>3, <1>8, <2>1 DEF executorVars
  <1>9. ASSUME UNCHANGED executorVars,
               \/ Shutdown
               \/ \E r \in ResultIds : ReadLoop(r)
               \/ \E h \in Handles : PollRead(h) \/ \E w \in Wakers : PollAgain(h, w)
        PROVE  UNCHANGED Graph!vars
    <2>1. issued' = issued /\ awaits' = awaits /\ buffer' = buffer
      BY <1>9 DEF Shutdown, ReadLoop, PollRead, PollAgain, callVars, pollVars
    <2>2. QED
      BY <1>3, <1>9, <2>1 DEF executorVars
  <1>10. CASE FabricNext /\ UNCHANGED executorVars
    BY <1>7, <1>8, <1>9, <1>10 DEF FabricNext, CallStep
  <1>11. CASE UNCHANGED vars
    BY <1>3, <1>11 DEF vars, fabricVars, callVars, pollVars, executorVars
  <1>12. QED
    BY <1>2, <1>4, <1>5, <1>6, <1>10, <1>11 DEF Next, CoordinatorNext

\* The executor with its coordinator and its racing workers implements the write-once
\* dataflow graph, when a read that overlaps a write of a cell sees None or the value: an
\* output appears only after all the arguments of its operation, once, with the
\* operation's value, and a handle is handed the value of the result it awaits.
THEOREM ParallelImplementsDataflow == RacyReads = {} => (Spec => ImplementsDataflow)
  <1> SUFFICES ASSUME RacyReads = {} PROVE Spec => ImplementsDataflow
    OBVIOUS
  <1>1. Init => Graph!Init /\ HandleInv
    <2> SUFFICES ASSUME Init PROVE Graph!Init /\ HandleInv
      OBVIOUS
    <2>1. /\ issued = [o \in OpIds |-> <<>>] /\ awaits = [h \in Handles |-> <<>>]
          /\ buffer = [h \in Handles |-> <<>>] /\ results = [r \in ResultIds |-> <<>>]
          /\ pool = [o \in OpIds |-> <<>>]
      BY DEF Init, FabricInit
    <2>2. \A r \in ResultIds : BeingWritten(r) = {}
      BY <2>1 DEF BeingWritten
    <2>3. Visible = [r \in ResultIds |-> <<>>]
      BY <2>1, <2>2 DEF Visible
    <2>4. QED
      BY <2>1, <2>3 DEF Graph!Init, HandleInv
  <1>2. RefineInv /\ DispatchInv' /\ Shown' /\ [Next]_vars => [Graph!Next]_(Graph!vars)
    BY StepRefines
  <1>3. RefineInv /\ DispatchInv' /\ Shown' /\ [Next]_vars => HandleInv'
    BY <1>2, GraphKeepsHandles DEF RefineInv
  <1>4. TypeInv /\ DispatchInv /\ ValueInv /\ Shown /\ HandleInv <=> RefineInv
    BY DEF RefineInv
  <1>5. QED
    BY <1>1, <1>2, <1>3, <1>4, ShownHolds, ParallelTypeInvariant, ParallelDispatchInvariant,
       ParallelValueInvariant, PTL DEF Spec, ImplementsDataflow, Graph!Spec

-----------------------------------------------------------------------------
(***************************************************************************)
(* ParallelResultBuffer, for any number of threads, any shard size and any  *)
(* number of result ids.                                                    *)
(*                                                                          *)
(* The list that threads walk without a lock is the shards 0, 1, 2, ... in   *)
(* the order of their allocation (Linked): a fact about every step of the   *)
(* one thread that holds the growth lock (LockInv).  It is what makes an id  *)
(* have one place for all threads, so that a value which was written stays  *)
(* where a later call looks for it (PositionInv, ValuesInv).                 *)
(***************************************************************************)

-----------------------------------------------------------------------------
(* Arithmetic and induction. *)

\* Shard indices and offsets.
LEMMA DivFacts ==
    ASSUME NEW a \in Nat, NEW d \in Nat \ {0}
    PROVE  /\ a \div d \in Nat /\ a \div d <= a
           /\ a % d \in 0 .. d - 1
  OBVIOUS

\* Induction over a set of naturals, from the pigeonhole principle: the members of
\* the complement up to a given one would go into the same set without that one.
LEMMA SetInduction ==
    ASSUME NEW T, 0 \in T, \A n \in Nat : n \in T => n + 1 \in T
    PROVE  \A n \in Nat : n \in T
  <1> SUFFICES ASSUME NEW c \in Nat, c \notin T PROVE FALSE
    OBVIOUS
  <1> DEFINE A == {i \in 0 .. c : i \notin T}
             f == [i \in A |-> i - 1]
  <1>1. IsFiniteSet(A)
    <2>1. IsFiniteSet(0 .. c)
      BY FS_Interval
    <2>2. A \in SUBSET (0 .. c)
      OBVIOUS
    <2>3. QED
      BY <2>1, <2>2, FS_Subset
  <1>2. c \in A
    OBVIOUS
  <1>3. ASSUME NEW i \in A PROVE i - 1 \in A \ {c}
    <2>1. i # 0
      OBVIOUS
    <2>2. i - 1 \in Nat /\ i - 1 \in 0 .. c /\ (i - 1) + 1 = i /\ i - 1 # c
      BY <2>1
    <2>3. i - 1 \notin T
      BY <2>2
    <2>4. QED
      BY <2>2, <2>3
  <1>4. f \in [A -> A \ {c}]
    BY <1>3
  <1>5. \A i, j \in A : f[i] = f[j] => i = j
    OBVIOUS
  <1> HIDE DEF A
  <1>6. f \in Injection(A, A \ {c})
    BY <1>4, <1>5 DEF Injection, IsInjective
  <1> HIDE DEF f
  <1>7. IsFiniteSet(A \ {c}) /\ Cardinality(A \ {c}) = Cardinality(A) - 1
    BY <1>1, <1>2, FS_RemoveElement
  <1>8. Cardinality(A) <= Cardinality(A \ {c})
    BY <1>6, <1>7, FS_Injection
  <1>9. Cardinality(A) \in Nat
    BY <1>1, FS_CardinalityType
  <1>10. QED
    BY <1>7, <1>8, <1>9

-----------------------------------------------------------------------------
(* The list of shards. *)

\* The shards are linked in the order in which they were allocated.
Linked == \A s \in Shards : next_shard[s] = IF s + 1 < allocated THEN s + 1 ELSE None

\* Walking a list that is linked in order.
LEMMA WalkLinked ==
    ASSUME Linked, allocated \in 1 .. MaxIds + 1
    PROVE  \A i \in 0 .. MaxIds : Walk(0)[i] = IF i < allocated THEN i ELSE None
  <1> USE ResultBufferAssumption
  <1> DEFINE Eq(w) == w = [j \in 0 .. MaxIds |->
                              IF j = 0 THEN 0
                              ELSE IF w[j - 1] = None THEN None
                              ELSE next_shard[w[j - 1]]]
             W == [j \in 0 .. MaxIds |-> IF j < allocated THEN j ELSE None]
  <1>1. ASSUME NEW j \in 0 .. MaxIds
        PROVE  W[j] = IF j = 0 THEN 0
                      ELSE IF W[j - 1] = None THEN None
                      ELSE next_shard[W[j - 1]]
    <2>1. CASE j = 0
      BY <2>1
    <2>2. CASE j # 0 /\ j - 1 < allocated
      <3>1. j - 1 \in 0 .. MaxIds /\ W[j - 1] = j - 1 /\ j - 1 # None /\ j - 1 \in Shards
        BY <1>1, <2>2 DEF None, Shards
      <3>2. next_shard[j - 1] = IF j < allocated THEN j ELSE None
        BY <1>1, <3>1 DEF Linked
      <3>3. QED
        BY <2>2, <3>1, <3>2
    <2>3. CASE j # 0 /\ ~(j - 1 < allocated)
      <3>1. j - 1 \in 0 .. MaxIds /\ W[j - 1] = None /\ ~(j < allocated)
        BY <1>1, <2>3
      <3>2. QED
        BY <2>3, <3>1
    <2>4. QED
      BY <2>1, <2>2, <2>3
  <1>2. Eq(W)
    BY <1>1
  <1>3. PICK v : v = Walk(0)
    OBVIOUS
  <1>4. v = CHOOSE w : Eq(w)
    BY <1>3 DEF Walk
  <1>5. Eq(v)
    <2> HIDE DEF Eq, W
    <2>1. QED
      BY <1>2, <1>4
  <1> DEFINE T == {n \in Nat : n <= MaxIds => v[n] = IF n < allocated THEN n ELSE None}
  <1>6. 0 \in T
    BY <1>5
  <1>7. ASSUME NEW n \in Nat, n \in T PROVE n + 1 \in T
    <2>1. CASE n + 1 <= MaxIds
      <3>1. v[n + 1] = IF v[n] = None THEN None ELSE next_shard[v[n]]
        BY <1>5, <2>1
      <3>2. v[n] = IF n < allocated THEN n ELSE None
        BY <1>7, <2>1
      <3>3. n \in Shards /\ n # None
        BY <2>1 DEF Shards, None
      <3>4. next_shard[n] = IF n + 1 < allocated THEN n + 1 ELSE None
        BY <3>3 DEF Linked
      <3>5. v[n + 1] = IF n + 1 < allocated THEN n + 1 ELSE None
        BY <3>1, <3>2, <3>3, <3>4
      <3>6. QED
        BY <3>5
    <2>2. CASE ~(n + 1 <= MaxIds)
      BY <2>2
    <2>3. QED
      BY <2>1, <2>2
  <1>8. \A n \in Nat : n \in T
    <2> HIDE DEF T
    <2>1. QED
      BY <1>6, <1>7, SetInduction
  <1>9. QED
    BY <1>3, <1>8

-----------------------------------------------------------------------------
(* The inductive invariant.  The properties speak of the list as readers find  *)
(* it; they rest on what the one thread that holds the lock is doing, on where *)
(* every other thread stands in the list, and on the order of allocation.      *)

Growing == {"grow", "store", "count"}

\* A list that nobody grows has as many shards as the count says, at most one
\* thread grows it, and it holds the lock while it does.
LockInv ==
    /\ grow_lock = {} => n_shards = allocated
    /\ \A t \in Callers : thread[t].pc \in Growing <=> grow_lock = {t}
    /\ grow_lock = {} \/ \E t \in Callers : grow_lock = {t}

\* Where a thread stands in a list of a shards: on its way to the shard of its id, at
\* the end of the list that it grows to this shard, or at the shard.
Stands(c, a) ==
    LET n == ShardIdx(c.id)
    IN /\ c.id \in BufferIds \/ c.pc = "idle"
       /\ c.pc = "seek"   => c.at < a /\ c.at + c.left = n
       /\ c.pc = "lock"   => c.op = "set"
       /\ c.pc = "grow"   => c.at = a - 1 /\ c.left > 0 /\ c.at + c.left = n
       /\ c.pc = "store"  => c.at = a - 2 /\ c.left > 0 /\ c.at + c.left = n
       /\ c.pc = "count"  => c.at = a - 1 /\ c.at = n
       /\ c.pc = "access" => c.at < a /\ c.at = n
       /\ c.pc \in Growing => c.op = "set"

PositionInv ==
    \A t \in Callers :
        /\ Stands(thread[t], allocated)
        /\ thread[t].op = "set" /\ thread[t].pc # "idle" => thread[t].id \in claimed

\* A value is in the shard and at the offset of its id, and a call that began after
\* its id was written knows that.
ValuesInv ==
    /\ \A id \in written : ShardIdx(id) < allocated /\ <<ShardIdx(id), Offset(id)>> \in cells
    /\ \A t \in Callers : thread[t].known => thread[t].id \in written
    /\ ReadAfterWrite

BufferInv == BufferTypeOK /\ Linked /\ LockInv /\ PositionInv /\ ValuesInv

-----------------------------------------------------------------------------
(* The steps. *)

\* Shards and offsets of ids.
LEMMA IdFacts ==
    /\ \A id \in Nat : ShardIdx(id) \in Nat /\ Offset(id) \in 0 .. shard_size - 1
    /\ \A id \in BufferIds : id \in Nat /\ ShardIdx(id) + 1 <= MaxIds
  <1>1. ASSUME NEW id \in Nat
        PROVE  /\ ShardIdx(id) \in Nat /\ ShardIdx(id) <= id
               /\ Offset(id) \in 0 .. shard_size - 1
    <2>1. shard_size \in Nat \ {0}
      BY ResultBufferAssumption
    <2>2. QED
      BY <2>1, DivFacts DEF ShardIdx, Offset
  <1>2. ASSUME NEW id \in BufferIds PROVE id \in Nat /\ ShardIdx(id) + 1 <= MaxIds
    <2>1. id \in Nat /\ id + 1 <= MaxIds
      BY ResultBufferAssumption DEF BufferIds
    <2>2. QED
      BY <1>1, <2>1, ResultBufferAssumption
  <1>3. QED
    BY <1>1, <1>2

\* The fields of a call.
LEMMA ThreadFacts ==
    ASSUME BufferTypeOK, NEW t \in Callers, NEW c, c = thread[t]
    PROVE  /\ c = [pc |-> c.pc, op |-> c.op, id |-> c.id, at |-> c.at, left |-> c.left,
                   known |-> c.known]
           /\ c.op \in {"get", "set"} /\ c.id \in Nat /\ c.at \in Shards /\ c.left \in Nat
           /\ c.known \in BOOLEAN
           /\ c.pc \in {"idle", "seek", "lock", "grow", "store", "count", "access", "found",
                        "missing", "wild"}
  BY DEF BufferTypeOK, Thread

\* Three fields of a call are set.
LEMMA SetFields ==
    ASSUME NEW c \in Thread, NEW p, NEW n, NEW l
    PROVE  [c EXCEPT !.pc = p, !.at = n, !.left = l] =
               [pc |-> p, op |-> c.op, id |-> c.id, at |-> n, left |-> l, known |-> c.known]
  <1>1. PICK b : b = [c EXCEPT !.pc = p]
    OBVIOUS
  <1>2. PICK a : a = [b EXCEPT !.at = n]
    OBVIOUS
  <1>3. b = [pc |-> p, op |-> c.op, id |-> c.id, at |-> c.at, left |-> c.left,
             known |-> c.known]
    BY <1>1 DEF Thread
  <1>4. a = [pc |-> p, op |-> c.op, id |-> c.id, at |-> n, left |-> c.left, known |-> c.known]
    BY <1>2, <1>3
  <1>5. [a EXCEPT !.left = l] =
            [pc |-> p, op |-> c.op, id |-> c.id, at |-> n, left |-> l, known |-> c.known]
    BY <1>4
  <1>6. [c EXCEPT !.pc = p, !.at = n, !.left = l] = [a EXCEPT !.left = l]
    BY <1>1, <1>2
  <1>7. QED
    BY <1>5, <1>6

\* A step of a thread that changes only where it stands.
LEMMA MoveStep ==
    ASSUME BufferInv, NEW t \in Callers, NEW c, c = thread[t], NEW d \in Thread,
           thread' = [thread EXCEPT ![t] = d],
           UNCHANGED <<next_shard, allocated, cells, n_shards, grow_lock, storing, claimed,
                       written>>,
           c.pc \notin Growing, d.pc \notin Growing,
           d.op = c.op, d.id = c.id, d.known = c.known, c.pc # "idle",
           d.pc = "seek" => d.at < allocated /\ d.at + d.left = ShardIdx(c.id),
           d.pc = "lock" => c.op = "set",
           d.pc = "access" => d.at < allocated /\ d.at = ShardIdx(c.id),
           d.pc = "missing" => ~c.known
    PROVE  BufferInv'
  <1>1. thread'[t] = d /\ \A u \in Callers : u # t => thread'[u] = thread[u]
    BY DEF BufferInv, BufferTypeOK
  <1>2. BufferTypeOK'
    BY DEF BufferInv, BufferTypeOK
  <1>3. Linked'
    BY DEF BufferInv, Linked
  <1>4. LockInv'
    BY <1>1 DEF BufferInv, LockInv
  <1>5. PositionInv'
    <2>1. c.id \in BufferIds /\ (c.op = "set" => c.id \in claimed)
      BY DEF BufferInv, PositionInv, Stands
    <2>2. QED
      BY <1>1, <2>1 DEF BufferInv, PositionInv, Stands, Growing
  <1>6. ValuesInv'
    BY <1>1 DEF BufferInv, ValuesInv, ReadAfterWrite
  <1>7. QED
    BY <1>2, <1>3, <1>4, <1>5, <1>6 DEF BufferInv

\* get or set begins.
LEMMA BeginStep ==
    ASSUME BufferInv, NEW t \in Callers, NEW op \in {"get", "set"}, NEW id \in BufferIds,
           Begin(t, op, id)
    PROVE  BufferInv'
  <1>1. PICK d : d = [pc |-> "seek", op |-> op, id |-> id, at |-> 0, left |-> ShardIdx(id),
                      known |-> id \in written]
    OBVIOUS
  <1>2. /\ thread' = [thread EXCEPT ![t] = d]
        /\ thread[t].pc \in {"idle", "found", "missing"}
        /\ claimed' = IF op = "set" THEN claimed \cup {id} ELSE claimed
        /\ UNCHANGED <<next_shard, allocated, cells, n_shards, grow_lock, storing, written>>
    BY <1>1 DEF Begin
  <1>3. id \in Nat /\ ShardIdx(id) \in Nat /\ 0 + ShardIdx(id) = ShardIdx(id)
    BY IdFacts
  <1>4. d \in Thread
    BY <1>1, <1>3, ResultBufferAssumption DEF Thread, Shards
  <1>5. thread'[t] = d /\ \A u \in Callers : u # t => thread'[u] = thread[u]
    BY <1>2 DEF BufferInv, BufferTypeOK
  <1>6. claimed \subseteq claimed' /\ claimed' \in SUBSET BufferIds /\ (op = "set" => id \in claimed')
    BY <1>2 DEF BufferInv, BufferTypeOK
  <1>7. BufferTypeOK'
    BY <1>2, <1>4, <1>6 DEF BufferInv, BufferTypeOK
  <1>8. Linked'
    BY <1>2 DEF BufferInv, Linked
  <1>9. LockInv'
    BY <1>1, <1>2, <1>5 DEF BufferInv, LockInv, Growing
  <1>10. PositionInv'
    <2>1. 0 < allocated
      BY DEF BufferInv, BufferTypeOK
    <2>2. QED
      BY <1>1, <1>2, <1>3, <1>5, <1>6, <2>1 DEF BufferInv, PositionInv, Stands, Growing
  <1>11. ValuesInv'
    <2>0. d.known = (id \in written) /\ d.id = id
      BY <1>1
    <2>1. \A u \in Callers : thread'[u].known => thread'[u].id \in written'
      <3>1. d.known => d.id \in written
        BY <2>0
      <3>2. written' = written
        BY <1>2
      <3>3. \A u \in Callers : thread[u].known => thread[u].id \in written
        BY DEF BufferInv, ValuesInv
      <3>4. QED
        BY <1>5, <3>1, <3>2, <3>3
    <2>2. \A u \in Callers : thread'[u].pc = "missing" => ~thread'[u].known
      BY <1>1, <1>5 DEF BufferInv, ValuesInv, ReadAfterWrite
    <2>3. QED
      BY <1>2, <2>1, <2>2 DEF BufferInv, ValuesInv, ReadAfterWrite
  <1>12. QED
    BY <1>7, <1>8, <1>9, <1>10, <1>11 DEF BufferInv

\* seek_to_shard follows one pointer, or finds the end of the list: then the shard
\* of the id is not there, and the id cannot have been written before.
LEMMA SeekStep == ASSUME BufferInv, NEW t \in Callers, Seek(t) PROVE BufferInv'
  <1> USE ResultBufferAssumption
  <1>1. PICK c : c = thread[t]
    OBVIOUS
  <1>2. /\ c.op \in {"get", "set"} /\ c.id \in Nat /\ c.at \in Shards /\ c.left \in Nat
        /\ c.known \in BOOLEAN /\ c.pc = "seek"
        /\ c = [pc |-> c.pc, op |-> c.op, id |-> c.id, at |-> c.at, left |-> c.left,
                known |-> c.known]
    BY <1>1, ThreadFacts DEF BufferInv, Seek
  <1>3. c.at < allocated /\ c.at + c.left = ShardIdx(c.id) /\ allocated \in 1 .. MaxIds + 1
    BY <1>1, <1>2 DEF BufferInv, PositionInv, Stands, BufferTypeOK
  <1>4. UNCHANGED <<next_shard, allocated, cells, n_shards, grow_lock, storing, claimed, written>>
    BY DEF Seek
  <1>5. thread \in [Callers -> Thread]
    BY DEF BufferInv, BufferTypeOK
  <1>6. ASSUME NEW p \in {"access", "lock", "missing", "wild"},
               thread' = [thread EXCEPT ![t].pc = p],
               p = "access" => c.left = 0,
               p = "lock" => c.op = "set",
               p = "missing" => ~c.known
        PROVE  BufferInv'
    <2>1. PICK d : d = [pc |-> p, op |-> c.op, id |-> c.id, at |-> c.at, left |-> c.left,
                        known |-> c.known]
      OBVIOUS
    <2>2. d \in Thread
      BY <1>2, <2>1 DEF Thread
    <2>3. thread' = [thread EXCEPT ![t] = d]
      <3>1. c \in Thread
        BY <1>1, <1>5
      <3>2. [c EXCEPT !.pc = p] = d
        BY <2>1, <3>1 DEF Thread
      <3>3. QED
        BY <1>1, <1>5, <1>6, <3>2
    <2>4. /\ d.pc = p /\ d.op = c.op /\ d.id = c.id /\ d.known = c.known
          /\ d.at = c.at /\ d.left = c.left
      BY <2>1
    <2>5. d.pc = "access" => d.at < allocated /\ d.at = ShardIdx(c.id)
      <3>1. c.at \in Nat
        BY <1>2 DEF Shards
      <3>2. QED
        BY <1>3, <1>6, <2>4, <3>1
    <2>6. c.pc \notin Growing /\ d.pc \notin Growing /\ d.pc # "seek" /\ c.pc # "idle"
      BY <1>2, <1>6, <2>4 DEF Growing
    <2>7. QED
      BY <1>1, <1>4, <1>6, <2>2, <2>3, <2>4, <2>5, <2>6, MoveStep
  <1>7. CASE c.left = 0 /\ thread' = [thread EXCEPT ![t].pc = "access"]
    BY <1>6, <1>7
  <1>8. CASE /\ c.left > 0 /\ next_shard[c.at] # None
             /\ thread' = [thread EXCEPT ![t].at = next_shard[c.at], ![t].left = @ - 1]
    <2>1. next_shard[c.at] = c.at + 1 /\ c.at + 1 < allocated
      BY <1>2, <1>8 DEF BufferInv, Linked
    <2>2. PICK d : d = [pc |-> "seek", op |-> c.op, id |-> c.id, at |-> c.at + 1,
                        left |-> c.left - 1, known |-> c.known]
      OBVIOUS
    <2>3. c.at + 1 \in Shards /\ c.left - 1 \in Nat
      BY <1>2, <1>3, <1>8, <2>1 DEF Shards
    <2>4. d \in Thread
      BY <1>2, <2>2, <2>3 DEF Thread
    <2>5. thread' = [thread EXCEPT ![t] = d]
      BY <1>1, <1>2, <1>5, <1>8, <2>1, <2>2
    <2>6. /\ d.pc = "seek" /\ d.op = c.op /\ d.id = c.id /\ d.known = c.known
          /\ d.at = c.at + 1 /\ d.left = c.left - 1
      BY <2>2
    <2>7. d.at < allocated /\ d.at + d.left = ShardIdx(c.id)
      BY <1>2, <1>3, <2>1, <2>6 DEF Shards
    <2>8. c.pc \notin Growing /\ d.pc \notin Growing /\ c.pc # "idle"
      BY <1>2, <2>6 DEF Growing
    <2>9. QED
      BY <1>1, <1>4, <2>4, <2>5, <2>6, <2>7, <2>8, MoveStep
  <1>9. CASE /\ c.left > 0 /\ next_shard[c.at] = None
             /\ thread' = [thread EXCEPT ![t].pc = IF c.op = "get" THEN "missing" ELSE "lock"]
    <2>1. ~(c.at + 1 < allocated)
      <3>1. c.at + 1 # None \/ ~(c.at + 1 < allocated)
        BY <1>2, <1>3 DEF None, Shards
      <3>2. QED
        BY <1>2, <1>9, <3>1 DEF BufferInv, Linked
    <2>2. ~(ShardIdx(c.id) < allocated)
      BY <1>2, <1>3, <1>9, <2>1 DEF Shards
    <2>3. ~c.known
      BY <1>1, <2>2 DEF BufferInv, ValuesInv
    <2>4. QED
      BY <1>2, <1>6, <1>9, <2>3
  <1>10. CASE thread' = [thread EXCEPT ![t].pc = "wild"]
    BY <1>6, <1>10
  <1>11. QED
    BY <1>1, <1>7, <1>8, <1>9, <1>10 DEF Seek

\* grow_to_n_shards under the lock: the count is exact, so the list is long enough
\* or it is grown from its last shard.
LEMMA LockStep == ASSUME BufferInv, NEW t \in Callers, Lock(t) PROVE BufferInv'
  <1> USE ResultBufferAssumption
  <1>1. PICK c : c = thread[t]
    OBVIOUS
  <1>2. /\ c.op \in {"get", "set"} /\ c.id \in Nat /\ c.at \in Shards /\ c.left \in Nat
        /\ c.known \in BOOLEAN /\ c.pc = "lock"
        /\ c = [pc |-> c.pc, op |-> c.op, id |-> c.id, at |-> c.at, left |-> c.left,
                known |-> c.known]
    BY <1>1, ThreadFacts DEF BufferInv, Lock
  <1>3. c.op = "set" /\ c.id \in BufferIds /\ c.id \in claimed
    BY <1>1, <1>2 DEF BufferInv, PositionInv, Stands
  <1>4. PICK n, m : n = ShardIdx(c.id) /\ m = n + 1
    OBVIOUS
  <1>5. n \in Nat /\ m = n + 1 /\ m <= MaxIds
    BY <1>3, <1>4, IdFacts
  <1>6. grow_lock = {} /\ n_shards = allocated /\ allocated \in 1 .. MaxIds + 1
    BY DEF Lock, BufferInv, LockInv, BufferTypeOK
  <1>7. \A i \in 0 .. MaxIds : Walk(0)[i] = IF i < allocated THEN i ELSE None
    BY WalkLinked DEF BufferInv, BufferTypeOK
  <1>8. UNCHANGED <<next_shard, allocated, cells, n_shards, storing, claimed, written>>
    BY DEF Lock
  <1>9. thread \in [Callers -> Thread]
    BY DEF BufferInv, BufferTypeOK
  <1>10. CASE n_shards >= m
    <2>1. /\ thread' = [thread EXCEPT ![t].pc = "access", ![t].at = Walk(0)[m - 1],
                                      ![t].left = 0]
          /\ grow_lock' = grow_lock
      <3>1. m = ShardIdx(thread[t].id) + 1
        BY <1>1, <1>4
      <3>2. QED
        BY <1>10, <3>1 DEF Lock
    <2>2. Walk(0)[m - 1] = n /\ n < allocated /\ n \in Shards
      BY <1>5, <1>6, <1>7, <1>10 DEF Shards
    <2>3. PICK d : d = [pc |-> "access", op |-> c.op, id |-> c.id, at |-> n, left |-> 0,
                        known |-> c.known]
      OBVIOUS
    <2>4. d \in Thread
      BY <1>2, <2>2, <2>3 DEF Thread
    <2>5. thread' = [thread EXCEPT ![t] = d]
      <3>1. c \in Thread
        BY <1>1, <1>9
      <3>2. [c EXCEPT !.pc = "access", !.at = n, !.left = 0] = d
        BY <2>3, <3>1, SetFields
      <3>3. thread' = [thread EXCEPT ![t].pc = "access", ![t].at = n, ![t].left = 0]
        BY <2>1, <2>2
      <3>4. QED
        BY <1>1, <1>9, <3>2, <3>3
    <2>6. /\ d.pc = "access" /\ d.op = c.op /\ d.id = c.id /\ d.known = c.known /\ d.at = n
      BY <2>3
    <2>7. c.pc \notin Growing /\ d.pc \notin Growing /\ c.pc # "idle"
      BY <1>2, <2>6 DEF Growing
    <2>8. QED
      BY <1>1, <1>4, <1>8, <2>1, <2>2, <2>4, <2>5, <2>6, <2>7, MoveStep
  <1>11. CASE ~(n_shards >= m)
    <2>1. /\ thread' = [thread EXCEPT ![t].pc = "grow", ![t].at = Walk(0)[n_shards - 1],
                                      ![t].left = m - n_shards]
          /\ grow_lock' = {t}
      <3>1. m = ShardIdx(thread[t].id) + 1
        BY <1>1, <1>4
      <3>2. QED
        BY <1>11, <3>1 DEF Lock
    <2>2. /\ Walk(0)[n_shards - 1] = allocated - 1 /\ allocated - 1 \in Shards
          /\ m - n_shards = m - allocated /\ m - allocated \in Nat \ {0}
          /\ (allocated - 1) + (m - allocated) = n
      BY <1>5, <1>6, <1>7, <1>11 DEF Shards
    <2>3. PICK d : d = [pc |-> "grow", op |-> c.op, id |-> c.id, at |-> allocated - 1,
                        left |-> m - allocated, known |-> c.known]
      OBVIOUS
    <2>4. d \in Thread
      BY <1>2, <2>2, <2>3 DEF Thread
    <2>5. thread' = [thread EXCEPT ![t] = d]
      <3>1. PICK a, l : a = allocated - 1 /\ l = m - allocated
        OBVIOUS
      <3>2. c \in Thread
        BY <1>1, <1>9
      <3>3. [c EXCEPT !.pc = "grow", !.at = a, !.left = l] = d
        BY <2>3, <3>1, <3>2, SetFields
      <3>4. thread' = [thread EXCEPT ![t].pc = "grow", ![t].at = a, ![t].left = l]
        BY <2>1, <2>2, <3>1
      <3>5. QED
        BY <1>1, <1>9, <3>3, <3>4
    <2>6. thread'[t] = d /\ \A u \in Callers : u # t => thread'[u] = thread[u]
      BY <1>9, <2>5
    <2>7. /\ d.pc = "grow" /\ d.op = "set" /\ d.id = c.id /\ d.known = c.known
          /\ d.at = allocated - 1 /\ d.left = m - allocated
      BY <1>3, <2>3
    <2>8. BufferTypeOK'
      BY <1>8, <2>1, <2>4, <2>5 DEF BufferInv, BufferTypeOK
    <2>9. Linked'
      BY <1>8 DEF BufferInv, Linked
    <2>10. LockInv'
      <3>1. \A u \in Callers : thread[u].pc \notin Growing
        BY <1>6 DEF BufferInv, LockInv
      <3>2. \A u \in Callers : thread'[u].pc \in Growing <=> grow_lock' = {u}
        BY <2>1, <2>6, <2>7, <3>1 DEF Growing
      <3>3. grow_lock' # {}
        BY <2>1
      <3>4. QED
        BY <2>1, <3>2, <3>3 DEF LockInv
    <2>11. PositionInv'
      BY <1>3, <1>4, <1>8, <2>2, <2>6, <2>7 DEF BufferInv, PositionInv, Stands, Growing
    <2>12. ValuesInv'
      BY <1>1, <1>8, <2>6, <2>7 DEF BufferInv, ValuesInv, ReadAfterWrite
    <2>13. QED
      BY <2>8, <2>9, <2>10, <2>11, <2>12 DEF BufferInv
  <1>12. QED
    BY <1>10, <1>11

\* A shard is allocated and linked behind the last one.
LEMMA GrowStep == ASSUME BufferInv, NEW t \in Callers, Grow(t) PROVE BufferInv'
  <1> USE ResultBufferAssumption
  <1>1. PICK c : c = thread[t]
    OBVIOUS
  <1>2. /\ c.op \in {"get", "set"} /\ c.id \in Nat /\ c.at \in Shards /\ c.left \in Nat
        /\ c.known \in BOOLEAN /\ c.pc = "grow"
        /\ c = [pc |-> c.pc, op |-> c.op, id |-> c.id, at |-> c.at, left |-> c.left,
                known |-> c.known]
    BY <1>1, ThreadFacts DEF BufferInv, Grow
  <1>3. /\ c.op = "set" /\ c.id \in BufferIds /\ c.id \in claimed
        /\ c.at = allocated - 1 /\ c.left > 0 /\ c.at + c.left = ShardIdx(c.id)
    BY <1>1, <1>2 DEF BufferInv, PositionInv, Stands, Growing
  <1>4. ShardIdx(c.id) \in Nat /\ ShardIdx(c.id) + 1 <= MaxIds
    BY <1>3, IdFacts
  <1>5. allocated \in 1 .. MaxIds + 1 /\ allocated \in Shards /\ allocated + 1 \in 1 .. MaxIds + 1
    BY <1>2, <1>3, <1>4 DEF BufferInv, BufferTypeOK, Shards
  <1>6. /\ next_shard' = [next_shard EXCEPT ![c.at] = allocated]
        /\ allocated' = allocated + 1
        /\ storing' = storing \cup {c.at}
        /\ thread' = [thread EXCEPT ![t].pc = "store"]
        /\ UNCHANGED <<cells, n_shards, grow_lock, claimed, written>>
    BY <1>1 DEF Grow
  <1>7. thread \in [Callers -> Thread]
    BY DEF BufferInv, BufferTypeOK
  <1>8. PICK d : d = [pc |-> "store", op |-> c.op, id |-> c.id, at |-> c.at, left |-> c.left,
                      known |-> c.known]
    OBVIOUS
  <1>9. d \in Thread
    BY <1>2, <1>8 DEF Thread
  <1>10. thread' = [thread EXCEPT ![t] = d]
    <2>1. c \in Thread
      BY <1>1, <1>7
    <2>2. [c EXCEPT !.pc = "store"] = d
      BY <1>8, <2>1 DEF Thread
    <2>3. QED
      BY <1>1, <1>7, <1>6, <2>2
  <1>11. thread'[t] = d /\ \A u \in Callers : u # t => thread'[u] = thread[u]
    BY <1>7, <1>10
  <1>12. /\ d.pc = "store" /\ d.op = "set" /\ d.id = c.id /\ d.known = c.known
         /\ d.at = c.at /\ d.left = c.left
    BY <1>3, <1>8
  <1>13. grow_lock = {t} /\ \A u \in Callers : u # t => thread[u].pc \notin Growing
    BY <1>1, <1>2 DEF BufferInv, LockInv, Growing
  <1>14. BufferTypeOK'
    <2>1. /\ next_shard' \in [Shards -> Shards \cup {None}]
          /\ storing' \in SUBSET Shards
      BY <1>2, <1>5, <1>6 DEF BufferInv, BufferTypeOK
    <2>2. QED
      BY <1>5, <1>6, <1>9, <1>10, <2>1 DEF BufferInv, BufferTypeOK
  <1>15. Linked'
    <2>1. ASSUME NEW s \in Shards
          PROVE  next_shard'[s] = IF s + 1 < allocated' THEN s + 1 ELSE None
      <3>1. CASE s = c.at
        <4>1. next_shard'[s] = allocated /\ s + 1 = allocated /\ s + 1 < allocated'
          BY <1>3, <1>5, <1>6, <3>1 DEF BufferInv, BufferTypeOK
        <4>2. QED
          BY <4>1
      <3>2. CASE s # c.at
        <4>1. next_shard'[s] = next_shard[s]
          BY <1>6, <3>2 DEF BufferInv, BufferTypeOK
        <4>2. s + 1 < allocated' <=> s + 1 < allocated
          BY <1>3, <1>5, <1>6, <3>2 DEF Shards
        <4>3. QED
          BY <4>1, <4>2 DEF BufferInv, Linked
      <3>3. QED
        BY <3>1, <3>2
    <2>2. QED
      BY <2>1 DEF Linked
  <1>16. LockInv'
    BY <1>6, <1>11, <1>12, <1>13 DEF BufferInv, LockInv, Growing
  <1>17. PositionInv'
    <2>1. \A u \in Callers : thread[u].at \in Nat
      BY <1>7 DEF Thread, Shards
    <2>2. \A i \in Nat : i < allocated => i < allocated'
      BY <1>5, <1>6
    <2>3. c.at = allocated' - 2
      BY <1>3, <1>5, <1>6
    <2>4. Stands(d, allocated')
      BY <1>3, <1>12, <2>3 DEF Stands
    <2>5. ASSUME NEW u \in Callers, u # t PROVE Stands(thread[u], allocated')
      <3>1. Stands(thread[u], allocated) /\ thread[u].pc \notin Growing
        BY <1>13, <2>5 DEF BufferInv, PositionInv
      <3>2. QED
        BY <2>1, <2>2, <3>1 DEF Stands, Growing
    <2>6. \A u \in Callers : Stands(thread'[u], allocated')
      BY <1>11, <2>4, <2>5
    <2>7. ASSUME NEW u \in Callers, thread'[u].op = "set", thread'[u].pc # "idle"
          PROVE  thread'[u].id \in claimed'
      <3>0. claimed' = claimed
        BY <1>6
      <3>1. CASE u = t
        BY <1>3, <1>11, <1>12, <3>0, <3>1
      <3>2. CASE u # t
        BY <1>11, <3>0, <2>7, <3>2 DEF BufferInv, PositionInv
      <3>3. QED
        BY <3>1, <3>2
    <2>8. QED
      BY <2>6, <2>7 DEF PositionInv
  <1>18. ValuesInv'
    <2>1. \A id \in written : ShardIdx(id) < allocated'
      <3>1. \A id \in written : ShardIdx(id) \in Nat
        BY IdFacts DEF BufferInv, BufferTypeOK
      <3>2. \A id \in written : ShardIdx(id) < allocated
        BY DEF BufferInv, ValuesInv
      <3>3. QED
        BY <1>5, <1>6, <3>1, <3>2
    <2>2. QED
      BY <1>1, <1>6, <1>11, <1>12, <2>1 DEF BufferInv, ValuesInv, ReadAfterWrite
  <1>19. QED
    BY <1>14, <1>15, <1>16, <1>17, <1>18 DEF BufferInv

\* The pointer is stored: the thread goes on from the new shard.
LEMMA StoreStep == ASSUME BufferInv, NEW t \in Callers, Store(t) PROVE BufferInv'
  <1> USE ResultBufferAssumption
  <1>1. PICK c : c = thread[t]
    OBVIOUS
  <1>2. /\ c.op \in {"get", "set"} /\ c.id \in Nat /\ c.at \in Shards /\ c.left \in Nat
        /\ c.known \in BOOLEAN /\ c.pc = "store"
        /\ c = [pc |-> c.pc, op |-> c.op, id |-> c.id, at |-> c.at, left |-> c.left,
                known |-> c.known]
    BY <1>1, ThreadFacts DEF BufferInv, Store
  <1>3. /\ c.op = "set" /\ c.id \in BufferIds /\ c.id \in claimed
        /\ c.at = allocated - 2 /\ c.left > 0 /\ c.at + c.left = ShardIdx(c.id)
        /\ allocated \in 1 .. MaxIds + 1
    BY <1>1, <1>2 DEF BufferInv, PositionInv, Stands, Growing, BufferTypeOK
  <1>4. /\ storing' = storing \ {c.at}
        /\ thread' = [thread EXCEPT ![t].at = next_shard[c.at], ![t].left = @ - 1,
                                    ![t].pc = IF c.left > 1 THEN "grow" ELSE "count"]
        /\ UNCHANGED <<next_shard, allocated, cells, n_shards, grow_lock, claimed, written>>
    BY <1>1 DEF Store
  <1>5. /\ next_shard[c.at] = c.at + 1 /\ c.at + 1 = allocated - 1 /\ c.at + 1 \in Shards
        /\ c.left - 1 \in Nat /\ (c.at + 1) + (c.left - 1) = ShardIdx(c.id)
        /\ (c.left > 1 => c.left - 1 > 0) /\ (~(c.left > 1) => c.at + 1 = ShardIdx(c.id))
    <2>1. c.at + 1 < allocated
      BY <1>2, <1>3 DEF Shards
    <2>2. next_shard[c.at] = c.at + 1
      BY <1>2, <2>1 DEF BufferInv, Linked
    <2>3. QED
      BY <1>2, <1>3, <2>1, <2>2 DEF Shards
  <1>6. thread \in [Callers -> Thread]
    BY DEF BufferInv, BufferTypeOK
  <1>7. PICK d : d = [pc |-> IF c.left > 1 THEN "grow" ELSE "count", op |-> c.op, id |-> c.id,
                      at |-> c.at + 1, left |-> c.left - 1, known |-> c.known]
    OBVIOUS
  <1>8. d \in Thread
    BY <1>2, <1>5, <1>7 DEF Thread
  <1>9. thread' = [thread EXCEPT ![t] = d]
    BY <1>1, <1>2, <1>4, <1>5, <1>6, <1>7
  <1>10. thread'[t] = d /\ \A u \in Callers : u # t => thread'[u] = thread[u]
    BY <1>6, <1>9
  <1>11. /\ d.pc = (IF c.left > 1 THEN "grow" ELSE "count") /\ d.op = "set" /\ d.id = c.id
         /\ d.known = c.known /\ d.at = c.at + 1 /\ d.left = c.left - 1
    BY <1>3, <1>7
  <1>12. d.pc \in Growing
    BY <1>11 DEF Growing
  <1>13. BufferTypeOK'
    BY <1>4, <1>8, <1>9 DEF BufferInv, BufferTypeOK
  <1>14. Linked'
    BY <1>4 DEF BufferInv, Linked
  <1>15. LockInv'
    <2>1. grow_lock = {t}
      BY <1>1, <1>2 DEF BufferInv, LockInv, Growing
    <2>2. QED
      BY <1>4, <1>10, <1>12, <2>1 DEF BufferInv, LockInv
  <1>16. PositionInv'
    <2>1. Stands(d, allocated)
      BY <1>3, <1>5, <1>11 DEF Stands, Growing
    <2>2. \A u \in Callers : Stands(thread'[u], allocated')
      BY <1>4, <1>10, <2>1 DEF BufferInv, PositionInv
    <2>3. ASSUME NEW u \in Callers, thread'[u].op = "set", thread'[u].pc # "idle"
          PROVE  thread'[u].id \in claimed'
      <3>0. claimed' = claimed
        BY <1>4
      <3>1. CASE u = t
        BY <1>3, <1>10, <1>11, <3>0, <3>1
      <3>2. CASE u # t
        BY <1>10, <3>0, <2>3, <3>2 DEF BufferInv, PositionInv
      <3>3. QED
        BY <3>1, <3>2
    <2>4. QED
      BY <2>2, <2>3 DEF PositionInv
  <1>17. ValuesInv'
    <2>1. \A u \in Callers : thread'[u].known => thread'[u].id \in written'
      <3>1. \A u \in Callers : thread[u].known => thread[u].id \in written
        BY DEF BufferInv, ValuesInv
      <3>2. d.known => d.id \in written
        BY <1>1, <1>11, <3>1
      <3>3. written' = written
        BY <1>4
      <3>4. QED
        BY <1>10, <3>1, <3>2, <3>3
    <2>2. \A u \in Callers : thread'[u].pc = "missing" => ~thread'[u].known
      BY <1>10, <1>12 DEF BufferInv, ValuesInv, ReadAfterWrite, Growing
    <2>3. QED
      BY <1>4, <2>1, <2>2 DEF BufferInv, ValuesInv, ReadAfterWrite
  <1>18. QED
    BY <1>13, <1>14, <1>15, <1>16, <1>17 DEF BufferInv

\* The new count is stored and the lock dropped.
LEMMA CountStep == ASSUME BufferInv, NEW t \in Callers, SetCount(t) PROVE BufferInv'
  <1> USE ResultBufferAssumption
  <1>1. PICK c : c = thread[t]
    OBVIOUS
  <1>2. /\ c.op \in {"get", "set"} /\ c.id \in Nat /\ c.at \in Shards /\ c.left \in Nat
        /\ c.known \in BOOLEAN /\ c.pc = "count"
        /\ c = [pc |-> c.pc, op |-> c.op, id |-> c.id, at |-> c.at, left |-> c.left,
                known |-> c.known]
    BY <1>1, ThreadFacts DEF BufferInv, SetCount
  <1>3. /\ c.op = "set" /\ c.id \in BufferIds /\ c.id \in claimed
        /\ c.at = allocated - 1 /\ c.at = ShardIdx(c.id) /\ allocated \in 1 .. MaxIds + 1
    BY <1>1, <1>2 DEF BufferInv, PositionInv, Stands, Growing, BufferTypeOK
  <1>4. /\ n_shards' = ShardIdx(c.id) + 1
        /\ grow_lock' = {}
        /\ thread' = [thread EXCEPT ![t].pc = "access"]
        /\ UNCHANGED <<next_shard, allocated, cells, storing, claimed, written>>
    BY <1>1 DEF SetCount
  <1>5. n_shards' = allocated /\ c.at < allocated
    BY <1>3, <1>4
  <1>6. thread \in [Callers -> Thread]
    BY DEF BufferInv, BufferTypeOK
  <1>7. PICK d : d = [pc |-> "access", op |-> c.op, id |-> c.id, at |-> c.at, left |-> c.left,
                      known |-> c.known]
    OBVIOUS
  <1>8. d \in Thread
    BY <1>2, <1>7 DEF Thread
  <1>9. thread' = [thread EXCEPT ![t] = d]
    <2>1. c \in Thread
      BY <1>1, <1>6
    <2>2. [c EXCEPT !.pc = "access"] = d
      BY <1>7, <2>1 DEF Thread
    <2>3. QED
      BY <1>1, <1>6, <1>4, <2>2
  <1>10. thread'[t] = d /\ \A u \in Callers : u # t => thread'[u] = thread[u]
    BY <1>6, <1>9
  <1>11. /\ d.pc = "access" /\ d.op = "set" /\ d.id = c.id /\ d.known = c.known
         /\ d.at = c.at /\ d.left = c.left
    BY <1>3, <1>7
  <1>12. BufferTypeOK'
    BY <1>3, <1>4, <1>5, <1>8, <1>9 DEF BufferInv, BufferTypeOK
  <1>13. Linked'
    BY <1>4 DEF BufferInv, Linked
  <1>14. LockInv'
    <2>1. \A u \in Callers : u # t => thread[u].pc \notin Growing
      BY <1>1, <1>2 DEF BufferInv, LockInv, Growing
    <2>2. \A u \in Callers : thread'[u].pc \notin Growing
      BY <1>10, <1>11, <2>1 DEF Growing
    <2>3. \A u \in Callers : grow_lock' # {u}
      BY <1>4
    <2>4. QED
      BY <1>4, <1>5, <2>2, <2>3 DEF LockInv
  <1>15. PositionInv'
    <2>1. Stands(d, allocated)
      BY <1>3, <1>5, <1>11 DEF Stands, Growing
    <2>2. \A u \in Callers : Stands(thread'[u], allocated')
      BY <1>4, <1>10, <2>1 DEF BufferInv, PositionInv
    <2>3. ASSUME NEW u \in Callers, thread'[u].op = "set", thread'[u].pc # "idle"
          PROVE  thread'[u].id \in claimed'
      <3>0. claimed' = claimed
        BY <1>4
      <3>1. CASE u = t
        BY <1>3, <1>10, <1>11, <3>0, <3>1
      <3>2. CASE u # t
        BY <1>10, <3>0, <2>3, <3>2 DEF BufferInv, PositionInv
      <3>3. QED
        BY <3>1, <3>2
    <2>4. QED
      BY <2>2, <2>3 DEF PositionInv
  <1>16. ValuesInv'
    BY <1>1, <1>4, <1>10, <1>11 DEF BufferInv, ValuesInv, ReadAfterWrite
  <1>17. QED
    BY <1>12, <1>13, <1>14, <1>15, <1>16 DEF BufferInv

\* The cell is written or read: a value that was written before is found.
LEMMA AccessStep == ASSUME BufferInv, NEW t \in Callers, Access(t) PROVE BufferInv'
  <1> USE ResultBufferAssumption
  <1>1. PICK c : c = thread[t]
    OBVIOUS
  <1>2. /\ c.op \in {"get", "set"} /\ c.id \in Nat /\ c.at \in Shards /\ c.left \in Nat
        /\ c.known \in BOOLEAN /\ c.pc = "access"
        /\ c = [pc |-> c.pc, op |-> c.op, id |-> c.id, at |-> c.at, left |-> c.left,
                known |-> c.known]
    BY <1>1, ThreadFacts DEF BufferInv, Access
  <1>3. /\ c.id \in BufferIds /\ (c.op = "set" => c.id \in claimed)
        /\ c.at < allocated /\ c.at = ShardIdx(c.id)
    BY <1>1, <1>2 DEF BufferInv, PositionInv, Stands
  <1>4. UNCHANGED <<next_shard, allocated, n_shards, grow_lock, storing, claimed>>
    BY DEF Access
  <1>5. thread \in [Callers -> Thread]
    BY DEF BufferInv, BufferTypeOK
  <1>6. PICK cell : cell = <<c.at, Offset(c.id)>>
    OBVIOUS
  <1>7. cell \in Shards \X (0 .. shard_size - 1)
    BY <1>2, <1>6, IdFacts
  <1>8. CASE c.op = "set"
    <2>1. /\ cells' = cells \cup {cell} /\ written' = written \cup {c.id}
          /\ thread' = [thread EXCEPT ![t] = Idle]
      BY <1>1, <1>6, <1>8 DEF Access
    <2>2. Idle \in Thread /\ Idle.pc = "idle" /\ Idle.op = "get" /\ Idle.known = FALSE
      BY DEF Idle, Thread, Shards
    <2>3. thread'[t] = Idle /\ \A u \in Callers : u # t => thread'[u] = thread[u]
      BY <1>5, <2>1
    <2>4. BufferTypeOK'
      BY <1>3, <1>4, <1>7, <1>8, <2>1, <2>2 DEF BufferInv, BufferTypeOK
    <2>5. Linked'
      BY <1>4 DEF BufferInv, Linked
    <2>6. LockInv'
      BY <1>1, <1>2, <1>4, <2>2, <2>3 DEF BufferInv, LockInv, Growing
    <2>7. PositionInv'
      BY <1>4, <2>2, <2>3 DEF BufferInv, PositionInv, Stands, Growing
    <2>8. ValuesInv'
      <3>1. \A id \in written' : ShardIdx(id) < allocated' /\ <<ShardIdx(id), Offset(id)>> \in cells'
        BY <1>3, <1>4, <1>6, <2>1 DEF BufferInv, ValuesInv
      <3>2. \A u \in Callers : thread'[u].known => thread'[u].id \in written'
        BY <2>1, <2>2, <2>3 DEF BufferInv, ValuesInv
      <3>3. \A u \in Callers : thread'[u].pc = "missing" => ~thread'[u].known
        BY <2>2, <2>3 DEF BufferInv, ValuesInv, ReadAfterWrite
      <3>4. QED
        BY <3>1, <3>2, <3>3 DEF ValuesInv, ReadAfterWrite
    <2>9. QED
      BY <2>4, <2>5, <2>6, <2>7, <2>8 DEF BufferInv
  <1>9. CASE c.op # "set"
    <2>1. PICK p : p = IF cell \in cells THEN "found" ELSE "missing"
      OBVIOUS
    <2>2. thread' = [thread EXCEPT ![t].pc = p] /\ UNCHANGED <<cells, written>>
      BY <1>1, <1>6, <1>9, <2>1 DEF Access
    <2>3. PICK d : d = [pc |-> p, op |-> c.op, id |-> c.id, at |-> c.at, left |-> c.left,
                        known |-> c.known]
      OBVIOUS
    <2>4. d \in Thread
      BY <1>2, <2>1, <2>3 DEF Thread
    <2>5. thread' = [thread EXCEPT ![t] = d]
      <3>1. c \in Thread
        BY <1>1, <1>5
      <3>2. [c EXCEPT !.pc = p] = d
        BY <2>3, <3>1 DEF Thread
      <3>3. QED
        BY <1>1, <1>5, <2>2, <3>2
    <2>6. d.pc = p /\ d.op = c.op /\ d.id = c.id /\ d.known = c.known
      BY <2>3
    <2>7. p = "missing" => ~c.known
      BY <1>1, <1>3, <1>6, <2>1 DEF BufferInv, ValuesInv
    <2>8. c.pc \notin Growing /\ d.pc \notin Growing /\ c.pc # "idle" /\ d.pc # "seek"
          /\ d.pc # "lock" /\ d.pc # "access"
      BY <1>2, <2>1, <2>6 DEF Growing
    <2>9. QED
      BY <1>1, <1>4, <2>2, <2>4, <2>5, <2>6, <2>7, <2>8, MoveStep
  <1>10. QED
    BY <1>8, <1>9

-----------------------------------------------------------------------------
(* The theorems. *)

\* The buffer starts as one empty shard that nobody grows.
LEMMA BufferInvInit == BufferInit => BufferInv
  <1> SUFFICES ASSUME BufferInit PROVE BufferInv
    OBVIOUS
  <1> USE ResultBufferAssumption
  <1>1. Idle \in Thread /\ Idle.pc = "idle" /\ Idle.op = "get" /\ Idle.known = FALSE
    BY DEF Idle, Thread, Shards
  <1>2. \A t \in Callers : thread[t] = Idle
    BY DEF BufferInit
  <1>3. BufferTypeOK
    BY <1>1 DEF BufferInit, BufferTypeOK
  <1>4. Linked
    <2>1. ASSUME NEW s \in Shards PROVE ~(s + 1 < allocated) /\ next_shard[s] = None
      BY DEF BufferInit, Shards
    <2>2. QED
      BY <2>1 DEF Linked
  <1>5. LockInv
    BY <1>1, <1>2 DEF BufferInit, LockInv, Growing
  <1>6. PositionInv
    BY <1>1, <1>2 DEF PositionInv, Stands, Growing
  <1>7. ValuesInv
    BY <1>1, <1>2 DEF BufferInit, ValuesInv, ReadAfterWrite
  <1>8. QED
    BY <1>3, <1>4, <1>5, <1>6, <1>7 DEF BufferInv

\* Every step of every thread keeps the invariant.
LEMMA BufferInvStep == BufferInv /\ [BufferNext]_bufferVars => BufferInv'
  <1> SUFFICES ASSUME BufferInv, [BufferNext]_bufferVars PROVE BufferInv'
    OBVIOUS
  <1>1. CASE BufferNext
    <2>1. PICK t \in Callers : \/ CallerStep(t)
                              \/ \E op \in {"get", "set"}, id \in BufferIds : Begin(t, op, id)
      BY <1>1 DEF BufferNext
    <2>2. CASE CallerStep(t)
      BY <2>2, SeekStep, LockStep, GrowStep, StoreStep, CountStep, AccessStep DEF CallerStep
    <2>3. CASE \E op \in {"get", "set"}, id \in BufferIds : Begin(t, op, id)
      BY <2>3, BeginStep
    <2>4. QED
      BY <2>1, <2>2, <2>3
  <1>2. CASE UNCHANGED bufferVars
    <2>1. UNCHANGED <<next_shard, allocated, cells, n_shards, grow_lock, storing, thread,
                      claimed, written>>
      BY <1>2 DEF bufferVars
    <2>2. BufferTypeOK' /\ Linked'
      BY <2>1 DEF BufferInv, BufferTypeOK, Linked
    <2>3. LockInv'
      BY <2>1 DEF BufferInv, LockInv
    <2>4. PositionInv'
      BY <2>1 DEF BufferInv, PositionInv
    <2>5. ValuesInv'
      BY <2>1 DEF BufferInv, ValuesInv, ReadAfterWrite
    <2>6. QED
      BY <2>2, <2>3, <2>4, <2>5 DEF BufferInv
  <1>3. QED
    BY <1>1, <1>2

\* For any number of threads, shard size and number of ids: the shards stay linked in
\* the order of their allocation, at most one thread grows the list, and every thread
\* stands where its call must be.
THEOREM BufferInvariant == BufferSpec => []BufferInv
  BY BufferInvInit, BufferInvStep, PTL DEF BufferSpec

\* Every variable of the buffer keeps its type.
THEOREM BufferTypeCorrect == BufferSpec => []BufferTypeOK
  <1>1. BufferInv => BufferTypeOK
    BY DEF BufferInv
  <1>2. QED
    BY <1>1, BufferInvariant, PTL

\* What set stored stays where every later call looks for it, although threads ask for
\* the growth lock with a count that is stale when they get it.
THEOREM WrittenStaysReachable == BufferSpec => []WrittenIsReachable
  <1>1. BufferInv => WrittenIsReachable
    <2> SUFFICES ASSUME BufferInv, NEW id \in written
                 PROVE  Walk(0)[ShardIdx(id)] # None /\
                        <<Walk(0)[ShardIdx(id)], Offset(id)>> \in cells
      BY DEF WrittenIsReachable
    <2> USE ResultBufferAssumption
    <2>1. PICK n : n = ShardIdx(id)
      OBVIOUS
    <2>2. id \in BufferIds /\ allocated \in 1 .. MaxIds + 1
      BY DEF BufferInv, BufferTypeOK
    <2>3. n \in Nat /\ n + 1 <= MaxIds
      BY <2>1, <2>2, IdFacts
    <2>4. n < allocated /\ <<n, Offset(id)>> \in cells
      BY <2>1 DEF BufferInv, ValuesInv
    <2>5. \A i \in 0 .. MaxIds : Walk(0)[i] = IF i < allocated THEN i ELSE None
      BY <2>2, WalkLinked DEF BufferInv
    <2>6. Walk(0)[n] = n /\ n # None
      BY <2>3, <2>4, <2>5 DEF None
    <2>7. QED
      BY <2>1, <2>4, <2>6
  <1>2. QED
    BY <1>1, BufferInvariant, PTL

\* A get that begins after the set of its id has returned finds the value, or follows a
\* pointer that is being stored.
THEOREM ReadsFindWrites == BufferSpec => []ReadAfterWrite
  <1>1. BufferInv => ReadAfterWrite
    BY DEF BufferInv, ValuesInv
  <1>2. QED
    BY <1>1, BufferInvariant, PTL

\* While nobody holds the growth lock the count is the length of the list.
THEOREM CountIsExact == BufferSpec => []CountExact
  <1>1. BufferInv => CountExact
    <2> SUFFICES ASSUME BufferInv, grow_lock = {}
                 PROVE  /\ Walk(0)[n_shards - 1] # None
                        /\ next_shard[Walk(0)[n_shards - 1]] = None
      BY DEF CountExact
    <2> USE ResultBufferAssumption
    <2>1. n_shards = allocated /\ allocated \in 1 .. MaxIds + 1
      BY DEF BufferInv, LockInv, BufferTypeOK
    <2>2. \A i \in 0 .. MaxIds : Walk(0)[i] = IF i < allocated THEN i ELSE None
      BY <2>1, WalkLinked DEF BufferInv
    <2>3. PICK l : l = n_shards - 1
      OBVIOUS
    <2>4. l \in 0 .. MaxIds /\ l < allocated /\ ~(l + 1 < allocated) /\ l # None /\ l \in Shards
      BY <2>1, <2>3 DEF None, Shards
    <2>5. Walk(0)[l] = l /\ next_shard[l] = None
      BY <2>2, <2>4 DEF BufferInv, Linked
    <2>6. QED
      BY <2>3, <2>4, <2>5
  <1>2. QED
    BY <1>1, BufferInvariant, PTL
=============================================================================
