-------------------------- MODULE ParallelExecutor --------------------------
(***************************************************************************)
(* The multi threaded executor (fabric/executor/multi_threaded): the        *)
(* coordinator thread pops jobs and spawns the operations that are ready on *)
(* a thread pool; a worker reads its arguments from the shared result       *)
(* buffer, writes its outputs there and pushes their ids as a ResultsReady  *)
(* job.                                                                     *)
(*                                                                          *)
(* What the coordinator does for one result is one step: only the waiting   *)
(* tasks could see its middle, and they see the wake-up either way.  The    *)
(* write of an output takes time, because the cells are written and read    *)
(* through raw pointers: a read by the coordinator may overlap it.          *)
(***************************************************************************)
EXTENDS Fabric

CONSTANT RacyReads  \* what a read that overlaps a write may see, apart from
                    \* None and the value itself; {} where cells are word sized

\* Whatever bits such a read sees, it is a value of the cell's type.
ASSUME RacyAssumption == RacyReads \subseteq Val

VARIABLES
    status,        \* the process: running, stopped (coordinator), panicked
    results,       \* per result id, its cell in the ParallelResultBuffer
    ready_mask,    \* the result ids that the coordinator has marked ready
    inflight_args, \* per op id, <<>> or <<inflight_args>> of a buffered operation
    dependencies,  \* per result id, op ids registered for it, one per use
    waiters,       \* per result id, the handles waiting for it
    batch,         \* results of the current Results job still to be handled
    ready_ids,     \* ids of the current ResultsReady job still to be handled
    pool           \* per op id, its task in the pool: <<>> or <<worker>>

executorVars == <<status, results, ready_mask, inflight_args, dependencies, waiters,
                  batch, ready_ids, pool>>
vars == <<fabricVars, executorVars>>

\* A task waits for a thread of the pool, or it has computed its outputs and
\* writes the first of those that are left.
Worker == [step : {"spawned", "running"}, out : Seq(Result)]
Spawned == <<[step |-> "spawned", out |-> <<>>]>>

Init ==
    /\ FabricInit
    /\ status = "running"
    /\ results = [r \in ResultIds |-> <<>>]
    /\ ready_mask = {}
    /\ inflight_args = [o \in OpIds |-> <<>>]
    /\ dependencies = [r \in ResultIds |-> <<>>]
    /\ waiters = [r \in ResultIds |-> {}]
    /\ batch = <<>>
    /\ ready_ids = <<>>
    /\ pool = [o \in OpIds |-> <<>>]

-----------------------------------------------------------------------------
\* The value that a worker is writing to the cell of r right now.
BeingWritten(r) ==
    {pool[o][1].out[1].val : o \in {p \in OpIds :
        pool[p] # <<>> /\ pool[p][1].out # <<>> /\ pool[p][1].out[1].id = r}}

\* What ParallelResultBuffer::get may return for r.
Reads(r) ==
    IF BeingWritten(r) = {} THEN {results[r]}
    ELSE {results[r]} \cup {<<v>> : v \in BeingWritten(r) \cup RacyReads}

\* The coordinator is between two jobs and finds one of this type.
Pops(type) ==
    /\ status = "running"
    /\ batch = <<>> /\ ready_ids = <<>>
    /\ job_queue # <<>> /\ Head(job_queue).type = type
    /\ job_queue' = Tail(job_queue)

\* A Result or ResultBatch job.
PopResults ==
    /\ Pops("Results")
    /\ batch' = Head(job_queue).results
    /\ UNCHANGED <<callVars, netVars, outbound, shutdown_sent, buffer, pollVars, woken,
                   status, results, ready_mask, inflight_args, dependencies, waiters,
                   ready_ids, pool>>

\* A ResultsReady job.
PopResultsReady ==
    /\ Pops("ResultsReady")
    /\ ready_ids' = Head(job_queue).ids
    /\ UNCHANGED <<callVars, netVars, outbound, shutdown_sent, buffer, pollVars, woken,
                   status, results, ready_mask, inflight_args, dependencies, waiters,
                   batch, pool>>

\* execute_dependents: every registration of id is one argument less for its
\* operation, which must be buffered (unwrap) and miss that many (usize); those
\* that miss none are taken from the buffer and spawned.
ExecuteDependents(id) ==
    LET Told(o) == Cardinality({i \in DOMAIN dependencies[id] : dependencies[id][i] = o})
        due     == {o \in OpIds : Told(o) > 0}
        left    == [o \in due |-> inflight_args[o][1] - Told(o)]
    IN IF \E o \in due : inflight_args[o] = <<>> \/ inflight_args[o][1] < Told(o)
       THEN /\ status' = "panicked"
            /\ UNCHANGED <<inflight_args, pool>>
       ELSE /\ inflight_args' = [o \in OpIds |->
                   IF o \in due THEN Buffered(left[o]) ELSE inflight_args[o]]
            /\ pool' = [o \in OpIds |->
                   IF o \in due /\ left[o] = 0 THEN Spawned ELSE pool[o]]
            /\ UNCHANGED status

\* handle_new_result: mark, write the cell (a debug assertion checks that it was
\* empty), wake the waiters, run the dependents.
HandleNewResult ==
    /\ status = "running"
    /\ batch # <<>>
    /\ LET res == Head(batch) IN
         /\ ready_mask' = ready_mask \cup {res.id}
         /\ results' = [results EXCEPT ![res.id] = <<res.val>>]
         /\ IF results[res.id] # <<>>
            THEN /\ status' = "panicked"
                 /\ UNCHANGED <<buffer, woken, inflight_args, pool>>
            ELSE /\ WakeWaiters(waiters[res.id], res.val)
                 /\ ExecuteDependents(res.id)
    /\ batch' = Tail(batch)
    /\ UNCHANGED <<callVars, netVars, job_queue, outbound, shutdown_sent, pollVars,
                   dependencies, waiters, ready_ids>>

\* Mutant: results that come by id wake nobody.
HandleNewResultById_NoWake ==
    /\ status = "running"
    /\ ready_ids # <<>>
    /\ ready_mask' = ready_mask \cup {Head(ready_ids)}
    /\ ExecuteDependents(Head(ready_ids))
    /\ ready_ids' = Tail(ready_ids)
    /\ UNCHANGED <<callVars, netVars, job_queue, outbound, shutdown_sent, pollVars,
                   buffer, woken, results, dependencies, waiters, batch>>

\* handle_new_result_by_id: wake the waiters, mark, run the dependents.  If there
\* are waiters the value must be there (unwrap).
HandleNewResultById ==
    /\ status = "running"
    /\ ready_ids # <<>>
    /\ LET id == Head(ready_ids) IN
         IF waiters[id] # {} /\ results[id] = <<>>
         THEN /\ status' = "panicked"
              /\ UNCHANGED <<buffer, woken, ready_mask, inflight_args, pool>>
         ELSE /\ IF waiters[id] # {} THEN WakeWaiters(waiters[id], results[id][1])
                                     ELSE UNCHANGED <<buffer, woken>>
              /\ ready_mask' = ready_mask \cup {id}
              /\ ExecuteDependents(id)
    /\ ready_ids' = Tail(ready_ids)
    /\ UNCHANGED <<callVars, netVars, job_queue, outbound, shutdown_sent, pollVars,
                   results, dependencies, waiters, batch>>

\* Mutant: count by what the cells hold, as the single threaded executor does.
Missing_ByCell(args) == Cardinality({k \in DOMAIN args : results[args[k]] = <<>>})

\* The arguments that are not marked ready, counted per use.
Missing(args) == Cardinality({k \in DOMAIN args : args[k] \notin ready_mask})

\* handle_new_operation: count the arguments that are not marked ready; spawn the
\* operation if there are none, otherwise register it for every argument, those
\* that are ready and those that repeat included, and buffer it.
HandleNewOperation ==
    /\ Pops("Op")
    /\ LET o       == Head(job_queue).op
           args    == issued[o][1].args
           missing == Missing(args)
       IN IF missing = 0
          THEN /\ pool' = [pool EXCEPT ![o] = Spawned]
               /\ UNCHANGED <<inflight_args, dependencies>>
          ELSE /\ dependencies' = [r \in ResultIds |->
                     dependencies[r] \o [i \in 1 .. Uses(args, r) |-> o]]
               /\ inflight_args' = [inflight_args EXCEPT ![o] = <<missing>>]
               /\ UNCHANGED pool
    /\ UNCHANGED <<callVars, netVars, outbound, shutdown_sent, buffer, pollVars, woken,
                   status, results, ready_mask, waiters, batch, ready_ids>>

\* handle_new_waiter: add it, and wake everyone on this result if the cell holds
\* one.  It reads the cell whether or not a worker is writing it.
HandleNewWaiter ==
    /\ Pops("NewWaiter")
    /\ LET h == Head(job_queue).handle
           r == awaits[h][1]
       IN /\ waiters' = [waiters EXCEPT ![r] = @ \cup {h}]
          /\ \E cell \in Reads(r) :
               IF cell # <<>> THEN WakeWaiters(waiters[r] \cup {h}, cell[1])
               ELSE UNCHANGED <<buffer, woken>>
    /\ UNCHANGED <<callVars, netVars, outbound, shutdown_sent, pollVars,
                   status, results, ready_mask, inflight_args, dependencies, batch,
                   ready_ids, pool>>

\* A Shutdown job ends the coordinator; the pool finishes what was spawned.
HandleShutdown ==
    /\ Pops("Shutdown")
    /\ status' = "stopped"
    /\ UNCHANGED <<callVars, netVars, outbound, shutdown_sent, buffer, pollVars, woken,
                   results, ready_mask, inflight_args, dependencies, waiters, batch,
                   ready_ids, pool>>

-----------------------------------------------------------------------------
\* compute_result on a worker: read the arguments, which must be there (unwrap),
\* run the function, send the payload of a network operation.
ComputeResult(o) ==
    /\ status # "panicked"
    /\ pool[o] # <<>> /\ pool[o][1].step = "spawned"
    /\ LET op   == issued[o][1]
           args == [k \in DOMAIN op.args |-> results[op.args[k]]]
           vals == [k \in DOMAIN args |-> args[k][1]]
           out  == [j \in 1 .. op.output_arity |->
                      [id  |-> op.result_id + j - 1,
                       val |-> Apply(op.result_id + j - 1, vals)]]
       IN IF \E k \in DOMAIN args : args[k] = <<>>
          THEN /\ status' = "panicked"
               /\ UNCHANGED <<outbound, pool>>
          ELSE /\ pool' = [pool EXCEPT ![o] = <<[step |-> "running", out |-> out]>>]
               /\ outbound' = IF op.op_type = "Network" THEN Append(outbound, out[1])
                              ELSE outbound
               /\ UNCHANGED status
    /\ UNCHANGED <<callVars, netVars, job_queue, shutdown_sent, buffer, pollVars, woken,
                   results, ready_mask, inflight_args, dependencies, waiters, batch,
                   ready_ids>>

\* The write of an output is over (a debug assertion checks that the cell was
\* empty) and the next one begins.
WriteResult(o) ==
    /\ status # "panicked"
    /\ pool[o] # <<>> /\ pool[o][1].out # <<>>
    /\ LET res == Head(pool[o][1].out) IN
         /\ results' = [results EXCEPT ![res.id] = <<res.val>>]
         /\ status' = IF results[res.id] = <<>> THEN status ELSE "panicked"
    /\ pool' = [pool EXCEPT ![o][1].out = Tail(@)]
    /\ UNCHANGED <<fabricVars, ready_mask, inflight_args, dependencies, waiters, batch,
                   ready_ids>>

\* Mutant: the coordinator is told when the outputs are computed.
NotifyReady_BeforeWrite(o) ==
    /\ status # "panicked"
    /\ pool[o] # <<>> /\ pool[o][1].step = "running"
    /\ Len(pool[o][1].out) = issued[o][1].output_arity
    /\ LET op == issued[o][1] IN
         Push(ReadyMsg([j \in 1 .. op.output_arity |-> op.result_id + j - 1]))
    /\ pool' = [pool EXCEPT ![o][1].step = "notified"]
    /\ UNCHANGED <<callVars, netVars, outbound, shutdown_sent, buffer, pollVars, woken,
                   status, results, ready_mask, inflight_args, dependencies, waiters,
                   batch, ready_ids>>

\* Everything is written: tell the coordinator.
NotifyReady(o) ==
    /\ status # "panicked"
    /\ pool[o] # <<>> /\ pool[o][1].step = "running" /\ pool[o][1].out = <<>>
    /\ LET op == issued[o][1] IN
         Push(ReadyMsg([j \in 1 .. op.output_arity |-> op.result_id + j - 1]))
    /\ pool' = [pool EXCEPT ![o] = <<>>]
    /\ UNCHANGED <<callVars, netVars, outbound, shutdown_sent, buffer, pollVars, woken,
                   status, results, ready_mask, inflight_args, dependencies, waiters,
                   batch, ready_ids>>

-----------------------------------------------------------------------------
CoordinatorNext ==
    \/ PopResults \/ PopResultsReady \/ HandleNewResult \/ HandleNewResultById
    \/ HandleNewOperation \/ HandleNewWaiter \/ HandleShutdown

WorkerNext(o) == ComputeResult(o) \/ WriteResult(o) \/ NotifyReady(o)

Next ==
    \/ CoordinatorNext
    \/ \E o \in OpIds : WorkerNext(o)
    \/ FabricNext /\ UNCHANGED executorVars

Spec == Init /\ [][Next]_vars

\* The coordinator has a thread of its own, and the pool runs every spawned task;
\* the rest is as for the single threaded executor.
Fairness ==
    /\ WF_vars(CoordinatorNext)
    /\ \A o \in OpIds : WF_vars(WorkerNext(o))
    /\ \A t \in Threads : WF_vars(CallStep(t) /\ UNCHANGED executorVars)
    /\ \A r \in ResultIds : WF_vars(ReadLoop(r) /\ UNCHANGED executorVars)
    /\ \A h \in Handles :
         /\ WF_vars(PollRead(h) /\ UNCHANGED executorVars)
         /\ WF_vars(PollWoken(h) /\ UNCHANGED executorVars)

FairSpec == Spec /\ Fairness

-----------------------------------------------------------------------------
\* Every variable has its type.
TypeOK ==
    /\ FabricTypeOK
    /\ status \in {"running", "stopped", "panicked"}
    /\ results \in [ResultIds -> Option(Val)]
    /\ ready_mask \in SUBSET ResultIds
    /\ inflight_args \in [OpIds -> Option(1 .. MaxArgs)]
    /\ dependencies \in [ResultIds -> Seq(OpIds)]
    /\ waiters \in [ResultIds -> SUBSET Handles]
    /\ batch \in Seq(Result)
    /\ ready_ids \in Seq(ResultIds)
    /\ pool \in [OpIds -> Option(Worker)]

\* No unwrap, assertion or usize subtraction fails, on any thread: a cell is
\* written once, a worker finds its arguments although the coordinator only
\* looked at the mask, a wake-up by id finds the value.
NoPanic == status # "panicked"

\* The mask is the mechanism that accounts values as written: a marked result has
\* its cell filled, and no worker is still writing that cell.
MarkedIsWritten ==
    \A r \in ready_mask : results[r] # <<>> /\ BeingWritten(r) = {}

\* A buffered operation misses exactly the arguments that are not marked, although
\* workers finish in any order and their notifications wait in the job queue.
InflightExact ==
    \A o \in OpIds : inflight_args[o] # <<>> =>
        LET args == issued[o][1].args IN
        inflight_args[o][1] = Cardinality({k \in DOMAIN args : args[k] \notin ready_mask})

\* An operation is in one place: buffered, in the pool, or its outputs written.
\* It is never run twice, nor buffered while it runs.
RunsOnce ==
    \A o \in OpIds :
        /\ inflight_args[o] # <<>> => pool[o] = <<>>
        /\ (inflight_args[o] # <<>> \/ pool[o] = Spawned)
             => \A r \in ResultIdsOf(issued[o][1]) :
                  results[r] = <<>> /\ \A i \in DOMAIN outbound : outbound[i].id # r

\* The value of each result as a reader can first see it: the write takes effect
\* when it begins.
Visible == [r \in ResultIds |->
    IF BeingWritten(r) = {} THEN results[r] ELSE <<CHOOSE v \in BeingWritten(r) : TRUE>>]

\* A task that waits for a result gets it, or the fabric was shut down, although
\* the waiter, the worker and its notification race.
AwaitedIsDelivered ==
    \A h \in Handles : task[h] = "pending" ~> (task[h] = "ready" \/ shutdown_sent)

\* The executor with its workers implements the abstract dataflow graph.
Graph == INSTANCE Dataflow WITH
    graph <- issued, value <- Visible, awaiting <- awaits, delivered <- buffer
ImplementsDataflow == Graph!Spec

\* "Values are only read after they are written, meaning a separate mechanism
\* accounts values as being written": a waiter's read of a cell never overlaps a
\* worker's write of it.
ReadAfterWritten ==
    [][HandleNewWaiter => BeingWritten(awaits[Head(job_queue).handle][1]) = {}]_vars
=============================================================================
