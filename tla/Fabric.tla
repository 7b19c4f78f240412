------------------------------- MODULE Fabric -------------------------------
(***************************************************************************)
(* The application's side of one party's MPC fabric (fabric.rs and          *)
(* fabric/result.rs): threads that build the circuit by calling the fabric, *)
(* the job queue they share with the executor, the network read loop that   *)
(* pushes the peer's values, and the result handles that tasks await.       *)
(*                                                                          *)
(* The executor itself is a module of its own (SerialExecutor or            *)
(* ParallelExecutor) that extends this one.                                 *)
(*                                                                          *)
(* An Option<T> of the code is a sequence here: <<>> is None, <<v>> is      *)
(* Some(v).  The function of a gate is abstract: Apply(r, args) is the      *)
(* value that the gate with output r computes from its argument values and  *)
(* Source(r) the value of a result that no local gate computes.             *)
(***************************************************************************)
EXTENDS Naturals, Sequences, FiniteSets

CONSTANTS
    Threads,     \* threads and tasks that hold a clone of the fabric
    Handles,     \* ResultHandle futures
    Wakers,      \* task contexts a handle may be polled from
    Val,         \* values of results
    Apply(_, _), \* gate function of an output id, on argument values
    Source(_),   \* value of a constant, an allocated or a received result
    NConst,      \* number of constant results (N_CONSTANT_RESULTS, 6)
    MaxResults,  \* bound: result ids handed out
    MaxOps,      \* bound: operations issued
    MaxArgs,     \* bound: arguments of one operation
    MaxArity     \* bound: outputs of one operation, values of one batch

\* Option<T>.
Option(S) == {<<>>} \cup [1 .. 1 -> S]

ResultIds == 0 .. MaxResults - 1
OpIds     == 0 .. MaxOps - 1

\* The argument lists an operation can have over a set of result ids.
ArgLists(S) == UNION {[1 .. n -> S] : n \in 0 .. MaxArgs}

ASSUME FabricAssumption ==
    /\ NConst \in Nat /\ MaxResults \in Nat /\ MaxOps \in Nat
    /\ MaxArgs \in Nat /\ MaxArity \in Nat
    /\ NConst <= MaxResults
    /\ \A r \in ResultIds : Source(r) \in Val

ASSUME ApplyAssumption ==
    \A r \in ResultIds : \A a \in ArgLists(Val) : Apply(r, a) \in Val

-----------------------------------------------------------------------------
VARIABLES
    next_result_id, \* FabricInner.next_result_id
    next_op_id,     \* FabricInner.next_op_id
    call,           \* per thread, the fabric call in progress, <<>> or <<c>>
    returned,       \* result ids that a call has returned to the application
    issued,         \* per op id, the operation that was built with that id
    remote,         \* result ids whose value the peer sends
    arrived,        \* remote ids that the read loop has pushed
    job_queue,      \* the executor's SegQueue
    outbound,       \* payloads handed to the network, in order
    shutdown_sent,  \* MpcFabric::shutdown was called
    buffer,         \* per handle, result_buffer: <<>> is the placeholder
    awaits,         \* per handle, the id it waits for: <<>> before its first poll
    task,           \* per handle, where its poll stands
    registered,     \* per handle, the waker stored in its ResultWaiter
    current,        \* per handle, the waker of its latest poll
    woken           \* per handle, wakers woken since they last polled

callVars   == <<next_result_id, next_op_id, call, returned, issued>>
netVars    == <<remote, arrived>>
pollVars   == <<awaits, task, registered, current>>
fabricVars == <<callVars, netVars, job_queue, outbound, shutdown_sent, buffer,
                pollVars, woken>>

-----------------------------------------------------------------------------
\* A Gate is a GateBatch with one output.
OpTypes   == {"Gate", "Network"}
Result    == [id : ResultIds, val : Val]
Operation ==
    {op \in [result_id : ResultIds, output_arity : 1 .. MaxArity,
             args : ArgLists(ResultIds), op_type : OpTypes] :
        op.result_id + op.output_arity <= MaxResults}

\* The ids of an operation's outputs (Operation::result_ids).
ResultIdsOf(op) == op.result_id .. op.result_id + op.output_arity - 1

\* The jobs of the executor (ExecutorMessage).  A Result is a ResultBatch of one:
\* the executors handle the results of a batch one after the other.  ResultsReady
\* comes from the workers of the ParallelExecutor only.
ResultsMsg(rs) == [type |-> "Results", results |-> rs]
ReadyMsg(ids)  == [type |-> "ResultsReady", ids |-> ids]
OpMsg(o)       == [type |-> "Op", op |-> o]
WaiterMsg(h)   == [type |-> "NewWaiter", handle |-> h]
ShutdownMsg    == [type |-> "Shutdown"]

ExecutorMessage ==
    [type : {"Results"}, results : Seq(Result)]
        \cup [type : {"ResultsReady"}, ids : Seq(ResultIds)]
        \cup [type : {"Op"}, op : OpIds]
        \cup [type : {"NewWaiter"}, handle : Handles] \cup [type : {"Shutdown"}]

\* Mutant: one registration however often the operation uses the result.
Uses_Once(args, r) == IF \E k \in DOMAIN args : args[k] = r THEN 1 ELSE 0

\* How often an argument list uses a result: an operation is registered in the
\* dependency map once per use.
Uses(args, r) == Cardinality({k \in DOMAIN args : args[k] = r})

\* Mutant: an operation that is ready is not taken out of the buffer.
Buffered_NotTaken(left) == <<left>>

\* The operation buffer's entry for an operation that misses this many arguments:
\* it is taken from the buffer when it misses none.
Buffered(left) == IF left > 0 THEN <<left>> ELSE <<>>

\* The values that the code allocates with ids first .. first + n - 1.
SourceResults(first, n) ==
    [i \in 1 .. n |-> [id |-> first + i - 1, val |-> Source(first + i - 1)]]

\* Fabric calls between the steps that other threads can interleave with.
Call == {c \in [step : {"push"}, first : ResultIds, n : 1 .. MaxArity] :
            c.first + c.n <= MaxResults}
        \cup [step : {"op_id"}, body : Operation]
        \cup [step : {"push_op"}, op : OpIds]

Push(m) == job_queue' = Append(job_queue, m)

-----------------------------------------------------------------------------
\* FabricInner::new pushes the constant results; any ids after them may turn
\* out to be the peer's.
FabricInit ==
    /\ next_result_id = NConst
    /\ next_op_id = 0
    /\ call = [t \in Threads |-> <<>>]
    /\ returned = 0 .. NConst - 1
    /\ issued = [o \in OpIds |-> <<>>]
    /\ remote \in SUBSET (NConst .. MaxResults - 1)
    /\ arrived = {}
    /\ job_queue = [i \in 1 .. NConst |-> ResultsMsg(SourceResults(i - 1, 1))]
    /\ outbound = <<>>
    /\ shutdown_sent = FALSE
    /\ buffer = [h \in Handles |-> <<>>]
    /\ awaits = [h \in Handles |-> <<>>]
    /\ task = [h \in Handles |-> "unpolled"]
    /\ registered = [h \in Handles |-> <<>>]
    /\ current = [h \in Handles |-> <<>>]
    /\ woken = [h \in Handles |-> {}]

\* Mutant: the batch advances the counter by one.
TakeResultIds_AdvancesByOne(n) ==
    /\ next_result_id + n <= MaxResults
    /\ (next_result_id .. next_result_id + n - 1) \cap remote = {}
    /\ next_result_id' = next_result_id + 1

\* new_result_id_batch(n): one fetch_add.  The ids are this party's own: the
\* peer's program takes the same ids for the same calls.
TakeResultIds(n) ==
    /\ next_result_id + n <= MaxResults
    /\ (next_result_id .. next_result_id + n - 1) \cap remote = {}
    /\ next_result_id' = next_result_id + n

\* allocate_value (n = 1) and allocate_values: take the ids ...
AllocateIds(t, n) ==
    /\ call[t] = <<>>
    /\ TakeResultIds(n)
    /\ call' = [call EXCEPT ![t] =
                   <<[step |-> "push", first |-> next_result_id, n |-> n]>>]
    /\ UNCHANGED <<next_op_id, returned, issued, netVars, job_queue, outbound,
                   shutdown_sent, buffer, pollVars, woken>>

\* ... then push the values to the executor and return.
AllocatePush(t) ==
    /\ call[t] # <<>> /\ call[t][1].step = "push"
    /\ LET c == call[t][1] IN
         /\ Push(ResultsMsg(SourceResults(c.first, c.n)))
         /\ returned' = returned \cup (c.first .. c.first + c.n - 1)
    /\ call' = [call EXCEPT ![t] = <<>>]
    /\ UNCHANGED <<next_result_id, next_op_id, issued, netVars, outbound,
                   shutdown_sent, buffer, pollVars, woken>>

\* receive_value: the value comes with the peer's message, so only an id is taken.
ReceiveValue(t) ==
    /\ call[t] = <<>>
    /\ next_result_id \in remote
    /\ next_result_id' = next_result_id + 1
    /\ returned' = returned \cup {next_result_id}
    /\ UNCHANGED <<next_op_id, call, issued, netVars, job_queue, outbound,
                   shutdown_sent, buffer, pollVars, woken>>

\* Operations whose op id is taken or about to be.
OpsStarted ==
    next_op_id + Cardinality({t \in Threads :
                                call[t] # <<>> /\ call[t][1].step = "op_id"})

\* new_op: take the output ids (new_network_op asks for one) ...
NewOpResultIds(t, args, arity, type) ==
    /\ call[t] = <<>>
    /\ OpsStarted < MaxOps
    /\ type = "Network" => arity = 1
    /\ TakeResultIds(arity)
    /\ call' = [call EXCEPT ![t] =
                   <<[step |-> "op_id",
                      body |-> [result_id |-> next_result_id, output_arity |-> arity,
                                args |-> args, op_type |-> type]]>>]
    /\ UNCHANGED <<next_op_id, returned, issued, netVars, job_queue, outbound,
                   shutdown_sent, buffer, pollVars, woken>>

\* ... take the op id, a fetch_add on another counter, and build the operation ...
NewOpId(t) ==
    /\ call[t] # <<>> /\ call[t][1].step = "op_id"
    /\ next_op_id < MaxOps
    /\ next_op_id' = next_op_id + 1
    /\ issued' = [issued EXCEPT ![next_op_id] = <<call[t][1].body>>]
    /\ call' = [call EXCEPT ![t] = <<[step |-> "push_op", op |-> next_op_id]>>]
    /\ UNCHANGED <<next_result_id, returned, netVars, job_queue, outbound,
                   shutdown_sent, buffer, pollVars, woken>>

\* ... push it to the executor and return the output ids.
NewOpPush(t) ==
    /\ call[t] # <<>> /\ call[t][1].step = "push_op"
    /\ LET o == call[t][1].op IN
         /\ Push(OpMsg(o))
         /\ returned' = returned \cup ResultIdsOf(issued[o][1])
    /\ call' = [call EXCEPT ![t] = <<>>]
    /\ UNCHANGED <<next_result_id, next_op_id, issued, netVars, outbound,
                   shutdown_sent, buffer, pollVars, woken>>

\* MpcFabric::shutdown: a Shutdown job behind whatever is queued.
Shutdown ==
    /\ ~shutdown_sent
    /\ shutdown_sent' = TRUE
    /\ Push(ShutdownMsg)
    /\ UNCHANGED <<callVars, netVars, outbound, buffer, pollVars, woken>>

\* NetworkSender::read_loop: a message of the peer becomes a Result job, at any
\* time, also before the local program has asked for it.
ReadLoop(r) ==
    /\ r \in remote \ arrived
    /\ arrived' = arrived \cup {r}
    /\ Push(ResultsMsg(SourceResults(r, 1)))
    /\ UNCHANGED <<callVars, remote, outbound, shutdown_sent, buffer, pollVars, woken>>

-----------------------------------------------------------------------------
\* ResultHandle::poll, the first time: create the placeholder buffer and push a
\* ResultWaiter that holds this context's waker.
PollRegister(h, r, w) ==
    /\ task[h] = "unpolled"
    /\ r \in returned
    /\ awaits' = [awaits EXCEPT ![h] = <<r>>]
    /\ registered' = [registered EXCEPT ![h] = <<w>>]
    /\ current' = [current EXCEPT ![h] = <<w>>]
    /\ task' = [task EXCEPT ![h] = "polling"]
    /\ Push(WaiterMsg(h))
    /\ UNCHANGED <<callVars, netVars, outbound, shutdown_sent, buffer, woken>>

\* The end of every poll: read the buffer, Ready if it is filled.
PollRead(h) ==
    /\ task[h] = "polling"
    /\ task' = [task EXCEPT ![h] = IF buffer[h] = <<>> THEN "pending" ELSE "ready"]
    /\ UNCHANGED <<callVars, netVars, job_queue, outbound, shutdown_sent, buffer,
                   awaits, registered, current, woken>>

\* A pending handle is polled again: by the context that polled it last, once
\* its waker was woken, or by another context that took the handle over.  The
\* buffer exists, so neither registers a waker.
PollAgain(h, w) ==
    /\ task[h] = "pending"
    /\ w # current[h][1] \/ w \in woken[h]
    /\ task' = [task EXCEPT ![h] = "polling"]
    /\ current' = [current EXCEPT ![h] = <<w>>]
    /\ woken' = [woken EXCEPT ![h] = @ \ {w}]
    /\ UNCHANGED <<callVars, netVars, job_queue, outbound, shutdown_sent, buffer,
                   awaits, registered>>

\* Fill the buffers of a set of waiters and wake the wakers they registered
\* (the loop of wake_waiters_on_result).
WakeWaiters(hs, v) ==
    /\ buffer' = [h \in Handles |-> IF h \in hs THEN <<v>> ELSE buffer[h]]
    /\ woken' = [h \in Handles |-> IF h \in hs THEN woken[h] \cup {registered[h][1]}
                                   ELSE woken[h]]

-----------------------------------------------------------------------------
CallStep(t) == AllocatePush(t) \/ NewOpId(t) \/ NewOpPush(t)

FabricNext ==
    \/ \E t \in Threads :
         \/ CallStep(t)
         \/ ReceiveValue(t)
         \/ \E n \in 1 .. MaxArity : AllocateIds(t, n)
         \/ \E args \in ArgLists(returned), arity \in 1 .. MaxArity, type \in OpTypes :
              NewOpResultIds(t, args, arity, type)
    \/ Shutdown
    \/ \E r \in ResultIds : ReadLoop(r)
    \/ \E h \in Handles :
         \/ PollRead(h)
         \/ \E r \in ResultIds, w \in Wakers : PollRegister(h, r, w)
         \/ \E w \in Wakers : PollAgain(h, w)

\* A task polls a handle of its own again once its waker was woken.
PollWoken(h) == \E w \in Wakers : current[h] = <<w>> /\ PollAgain(h, w)

FabricTypeOK ==
    /\ next_result_id \in NConst .. MaxResults
    /\ next_op_id \in 0 .. MaxOps
    /\ call \in [Threads -> Option(Call)]
    /\ returned \in SUBSET ResultIds
    /\ issued \in [OpIds -> Option(Operation)]
    /\ remote \in SUBSET ResultIds
    /\ arrived \in SUBSET remote
    /\ job_queue \in Seq(ExecutorMessage)
    /\ outbound \in Seq(Result)
    /\ shutdown_sent \in BOOLEAN
    /\ buffer \in [Handles -> Option(Val)]
    /\ awaits \in [Handles -> Option(ResultIds)]
    /\ task \in [Handles -> {"unpolled", "polling", "pending", "ready"}]
    /\ registered \in [Handles -> Option(Wakers)]
    /\ current \in [Handles -> Option(Wakers)]
    /\ woken \in [Handles -> SUBSET Wakers]
=============================================================================
