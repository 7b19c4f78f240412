--------------------------- MODULE SerialExecutor ---------------------------
(***************************************************************************)
(* The single threaded executor (fabric/executor/single_threaded.rs) of one *)
(* party's fabric: a thread that pops jobs, tracks the in-flight arguments  *)
(* of operations, runs the operations that are ready and wakes waiters.     *)
(*                                                                          *)
(* The loops of a handler are steps of their own, because the network and   *)
(* the waiting tasks see what each iteration does while the application     *)
(* pushes more jobs; the executor pops its next job only once they are over.*)
(***************************************************************************)
EXTENDS Fabric

VARIABLES
    status,        \* the executor thread: running, stopped or panicked
    results,       \* per result id, the value in the result buffer
    inflight_args, \* per op id, <<>> or <<inflight_args>> of a buffered operation
    dependencies,  \* per result id, op ids registered for it, one per use
    waiters,       \* per result id, the handles waiting for it
    batch,         \* results of the current job still to be handled
    ops_queue,     \* the Vec of operations that are ready
    produced,      \* results of the operation just computed, not yet inserted
    scan           \* op ids that append_ready_ops has still to look at

executorVars == <<status, results, inflight_args, dependencies, waiters, batch,
                  ops_queue, produced, scan>>
vars == <<fabricVars, executorVars>>

Init ==
    /\ FabricInit
    /\ status = "running"
    /\ results = [r \in ResultIds |-> <<>>]
    /\ inflight_args = [o \in OpIds |-> <<>>]
    /\ dependencies = [r \in ResultIds |-> <<>>]
    /\ waiters = [r \in ResultIds |-> {}]
    /\ batch = <<>>
    /\ ops_queue = <<>>
    /\ produced = <<>>
    /\ scan = <<>>

-----------------------------------------------------------------------------
\* The executor is between two jobs and finds one of this type.
Pops(type) ==
    /\ status = "running"
    /\ batch = <<>> /\ ops_queue = <<>> /\ produced = <<>> /\ scan = <<>>
    /\ job_queue # <<>> /\ Head(job_queue).type = type
    /\ job_queue' = Tail(job_queue)

\* Mutant: the waiters of every result are woken with this one's value.
InsertResult_WakesAll(res) ==
    /\ results' = [results EXCEPT ![res.id] = <<res.val>>]
    /\ WakeWaiters(UNION {waiters[r] : r \in ResultIds}, res.val)

\* insert_result: commit a value and wake whoever waits for it.
InsertResult(res) ==
    /\ results' = [results EXCEPT ![res.id] = <<res.val>>]
    /\ WakeWaiters(waiters[res.id], res.val)

\* A Result or ResultBatch job.
PopResults ==
    /\ Pops("Results")
    /\ batch' = Head(job_queue).results
    /\ UNCHANGED <<callVars, netVars, outbound, shutdown_sent, buffer, pollVars, woken,
                   status, results, inflight_args, dependencies, waiters,
                   ops_queue, produced, scan>>

\* handle_new_result: insert, then look at the operations that wait for it.
HandleNewResult ==
    /\ status = "running"
    /\ scan = <<>> /\ produced = <<>> /\ ops_queue = <<>> /\ batch # <<>>
    /\ InsertResult(Head(batch))
    /\ scan' = dependencies[Head(batch).id]
    /\ batch' = Tail(batch)
    /\ UNCHANGED <<callVars, netVars, job_queue, outbound, shutdown_sent, pollVars,
                   status, inflight_args, dependencies, waiters, ops_queue, produced>>

\* Mutant: the operation is taken when one argument is left.
AppendReadyOp_OneEarly ==
    /\ status = "running"
    /\ scan # <<>>
    /\ LET o == Head(scan)
           left == inflight_args[o][1] - 1
       IN IF inflight_args[o] = <<>>
          THEN /\ status' = "panicked"
               /\ UNCHANGED <<inflight_args, ops_queue>>
          ELSE /\ inflight_args' = [inflight_args EXCEPT ![o] = Buffered(left)]
               /\ ops_queue' = IF left > 1 THEN ops_queue ELSE Append(ops_queue, o)
               /\ UNCHANGED status
    /\ scan' = Tail(scan)
    /\ UNCHANGED <<fabricVars, results, dependencies, waiters, batch, produced>>

\* One iteration of append_ready_ops: the operation misses one argument less and
\* is taken for execution when none is left.  It must be in the buffer (unwrap).
AppendReadyOp ==
    /\ status = "running"
    /\ scan # <<>>
    /\ LET o == Head(scan)
           left == inflight_args[o][1] - 1
       IN IF inflight_args[o] = <<>>
          THEN /\ status' = "panicked"
               /\ UNCHANGED <<inflight_args, ops_queue>>
          ELSE /\ inflight_args' = [inflight_args EXCEPT ![o] = Buffered(left)]
               /\ ops_queue' = IF left > 0 THEN ops_queue ELSE Append(ops_queue, o)
               /\ UNCHANGED status
    /\ scan' = Tail(scan)
    /\ UNCHANGED <<fabricVars, results, dependencies, waiters, batch, produced>>

\* execute_operations pops the last ready operation and compute_result runs it.
\* Its arguments must be in the buffer (unwrap).  A network operation hands its
\* payload to the outbound queue and keeps a copy as its own result.
ComputeResult ==
    /\ status = "running"
    /\ scan = <<>> /\ produced = <<>> /\ ops_queue # <<>>
    /\ LET o    == ops_queue[Len(ops_queue)]
           op   == issued[o][1]
           args == [k \in DOMAIN op.args |-> results[op.args[k]]]
           vals == [k \in DOMAIN args |-> args[k][1]]
           out  == [j \in 1 .. op.output_arity |->
                      [id  |-> op.result_id + j - 1,
                       val |-> Apply(op.result_id + j - 1, vals)]]
       IN IF \E k \in DOMAIN args : args[k] = <<>>
          THEN /\ status' = "panicked"
               /\ UNCHANGED <<outbound, produced, scan>>
          ELSE /\ produced' = out
               /\ scan' = dependencies[op.result_id]
               /\ outbound' = IF op.op_type = "Network" THEN Append(outbound, out[1])
                              ELSE outbound
               /\ UNCHANGED status
    /\ ops_queue' = SubSeq(ops_queue, 1, Len(ops_queue) - 1)
    /\ UNCHANGED <<callVars, netVars, job_queue, shutdown_sent, buffer, pollVars, woken,
                   results, inflight_args, dependencies, waiters, batch>>

\* The loop body of execute_operations after append_ready_ops: insert the result,
\* then start on the operation's next output.
InsertProduced ==
    /\ status = "running"
    /\ scan = <<>> /\ produced # <<>>
    /\ InsertResult(Head(produced))
    /\ produced' = Tail(produced)
    /\ scan' = IF Len(produced) > 1 THEN dependencies[produced[2].id] ELSE <<>>
    /\ UNCHANGED <<callVars, netVars, job_queue, outbound, shutdown_sent, pollVars,
                   status, inflight_args, dependencies, waiters, batch, ops_queue>>

\* Mutant: a result that is used twice counts as one missing argument.
Missing_Distinct(args) ==
    Cardinality({r \in ResultIds : results[r] = <<>> /\ \E k \in DOMAIN args : args[k] = r})

\* The arguments whose results are not in the buffer, counted per use.
Missing(args) == Cardinality({k \in DOMAIN args : results[args[k]] = <<>>})

\* handle_new_operation: count the arguments that are missing; run the operation
\* at once if there are none, otherwise register it once for every argument,
\* those that are ready and those that repeat included, and buffer it.
HandleNewOperation ==
    /\ Pops("Op")
    /\ LET o       == Head(job_queue).op
           args    == issued[o][1].args
           missing == Missing(args)
       IN IF missing = 0
          THEN /\ ops_queue' = <<o>>
               /\ UNCHANGED <<inflight_args, dependencies>>
          ELSE /\ dependencies' = [r \in ResultIds |->
                     dependencies[r] \o [i \in 1 .. Uses(args, r) |-> o]]
               /\ inflight_args' = [inflight_args EXCEPT ![o] = <<missing>>]
               /\ UNCHANGED ops_queue
    /\ UNCHANGED <<callVars, netVars, outbound, shutdown_sent, buffer, pollVars, woken,
                   status, results, waiters, batch, produced, scan>>

\* Mutant: a waiter that comes after the result is not woken.
HandleNewWaiter_NoCheck ==
    /\ Pops("NewWaiter")
    /\ LET h == Head(job_queue).handle
           r == awaits[h][1]
       IN waiters' = [waiters EXCEPT ![r] = @ \cup {h}]
    /\ UNCHANGED <<callVars, netVars, outbound, shutdown_sent, buffer, pollVars, woken,
                   status, results, inflight_args, dependencies, batch, ops_queue,
                   produced, scan>>

\* handle_new_waiter: add it, and wake everyone on this result if it is there.
HandleNewWaiter ==
    /\ Pops("NewWaiter")
    /\ LET h == Head(job_queue).handle
           r == awaits[h][1]
       IN /\ waiters' = [waiters EXCEPT ![r] = @ \cup {h}]
          /\ IF results[r] # <<>>
             THEN WakeWaiters(waiters[r] \cup {h}, results[r][1])
             ELSE UNCHANGED <<buffer, woken>>
    /\ UNCHANGED <<callVars, netVars, outbound, shutdown_sent, pollVars,
                   status, results, inflight_args, dependencies, batch, ops_queue,
                   produced, scan>>

\* A Shutdown job ends the loop; what is queued behind it is never looked at.
HandleShutdown ==
    /\ Pops("Shutdown")
    /\ status' = "stopped"
    /\ UNCHANGED <<callVars, netVars, outbound, shutdown_sent, buffer, pollVars, woken,
                   results, inflight_args, dependencies, waiters, batch, ops_queue,
                   produced, scan>>

-----------------------------------------------------------------------------
ExecutorNext ==
    \/ PopResults \/ HandleNewResult \/ AppendReadyOp \/ ComputeResult \/ InsertProduced
    \/ HandleNewOperation \/ HandleNewWaiter \/ HandleShutdown

Next == ExecutorNext \/ (FabricNext /\ UNCHANGED executorVars)

Spec == Init /\ [][Next]_vars

\* The executor has a thread of its own and never blocks; a thread finishes the
\* call it is in; the peer's messages arrive; a woken task polls.  Nothing obliges
\* an application to start a call, to await a result or to shut down.
Fairness ==
    /\ WF_vars(ExecutorNext)
    /\ \A t \in Threads : WF_vars(CallStep(t) /\ UNCHANGED executorVars)
    /\ \A r \in ResultIds : WF_vars(ReadLoop(r) /\ UNCHANGED executorVars)
    /\ \A h \in Handles :
         /\ WF_vars(PollRead(h) /\ UNCHANGED executorVars)
         /\ WF_vars(PollWoken(h) /\ UNCHANGED executorVars)

FairSpec == Spec /\ Fairness

-----------------------------------------------------------------------------
\* Every variable has its type.
TypeOK ==
    /\ FabricTypeOK
    /\ status \in {"running", "stopped", "panicked"}
    /\ results \in [ResultIds -> Option(Val)]
    /\ inflight_args \in [OpIds -> Option(1 .. MaxArgs)]
    /\ dependencies \in [ResultIds -> Seq(OpIds)]
    /\ waiters \in [ResultIds -> SUBSET Handles]
    /\ batch \in Seq(Result)
    /\ ops_queue \in Seq(OpIds)
    /\ produced \in Seq(Result)
    /\ scan \in Seq(OpIds)

\* No unwrap of the executor fails: whenever append_ready_ops finds an operation
\* registered for a result, the operation is still buffered, and whenever
\* compute_result runs an operation, every argument has its value.
NoPanic == status # "panicked"

\* Results whose dependants have been, or are being, told of them: those in the
\* buffer, and the output that execute_operations is about to insert.
Announced ==
    {r \in ResultIds : results[r] # <<>>}
        \cup (IF produced = <<>> THEN {} ELSE {produced[1].id})

\* The inflight_args counter of a buffered operation is exactly the number of its
\* argument positions whose result was not announced, plus the decrements that
\* the scan in progress will still make: repeated and already available
\* arguments, registered like the others, neither lose nor gain a decrement.
InflightExact ==
    \A o \in OpIds : inflight_args[o] # <<>> =>
        LET args == issued[o][1].args IN
        inflight_args[o][1] = Cardinality({k \in DOMAIN args : args[k] \notin Announced})
                              + Cardinality({i \in DOMAIN scan : scan[i] = o})

\* No network operation sends its payload twice: an operation that is ready is run
\* once, although every argument that arrives announces itself to it.
SentOnce ==
    \A i, j \in DOMAIN outbound : outbound[i].id = outbound[j].id => i = j

\* A handle that reports Ready holds the value of the result it was created for,
\* and a filled buffer holds what the result buffer holds, even when a batch, an
\* early message of the peer and late waiters overlap.
DeliveredIsResult ==
    \A h \in Handles : buffer[h] # <<>> => buffer[h] = results[awaits[h][1]]

\* A task that waits for a result gets it, or the fabric was shut down: no order
\* of registration, wake-up and completion loses the wake-up.
AwaitedIsDelivered ==
    \A h \in Handles : task[h] = "pending" ~> (task[h] = "ready" \/ shutdown_sent)

\* The executor implements the abstract dataflow graph: an output appears only
\* after all the arguments of its operation, once, with the operation's value.
Graph == INSTANCE Dataflow WITH
    graph <- issued, value <- results, awaiting <- awaits, delivered <- buffer
ImplementsDataflow == Graph!Spec
=============================================================================
